---------------------------- MODULE DriverProofs ----------------------------
(***************************************************************************)
(* Proofs about the drivers: the list operators; the invariant of the      *)
(* mutex and of the devices, and that a disk takes every request; the      *)
(* invariant of the lists, and that nobody is forgotten or woken early.    *)
(***************************************************************************)
EXTENDS DriverProperties, MachineProofs

-----------------------------------------------------------------------------
(***************************************************************************)
(* The lists of the drivers.                                               *)
(***************************************************************************)
\* at is the walk along next from s, and n of its steps are slots.
Walk(next, s, at, n) ==
    /\ at \in [1 .. MAXPROC+1 -> Pointers] /\ n \in 0 .. MAXPROC+1
    /\ at[1] = s
    /\ \A i \in 1 .. MAXPROC : at[i+1] = IF at[i] = NULL THEN NULL ELSE next[at[i]]
    /\ \A i \in 1 .. n : at[i] # NULL
    /\ n <= MAXPROC => at[n+1] = NULL

LEMMA ChainWalks ==
    ASSUME NEW next \in [Slots -> Pointers], NEW s \in Pointers
    PROVE  \E at, n : Walk(next, s, at, n) /\ Chain(next, s) = [i \in 1 .. n |-> at[i]]
<1> DEFINE N == MAXPROC
           step(f) == [i \in 1 .. N+1 |-> IF i = 1 THEN s
                                          ELSE IF f[i-1] = NULL THEN NULL ELSE next[f[i-1]]]
           at == CHOOSE f : f = step(f)
           Ends(n) == (n > 0 => at[n] # NULL) /\ (n <= N => at[n+1] = NULL)
           length == CHOOSE n \in 0 .. N+1 : Ends(n)
           g == [i \in 1 .. N |-> [x \in Pointers |-> IF x = NULL THEN NULL ELSE next[x]]]
<1>1. N \in Nat \ {0}
  BY LowerPhasesAssumption
<1>2. Chain(next, s) = [i \in 1 .. length |-> at[i]]
  BY DEF Chain
<1>3. \E f \in [1 .. N+1 -> Pointers] : f = step(f)
  <2>1. \A x \in Pointers : (IF x = NULL THEN NULL ELSE next[x]) \in Pointers
    BY DEF Pointers
  <2>2. Steps(N, Pointers, g)
    BY <2>1 DEF Steps
  <2>3. \A i \in 1 .. N, x \in Pointers : g[i][x] = IF x = NULL THEN NULL ELSE next[x]
    OBVIOUS
  <2> HIDE DEF g, N
  <2>4. PICK f : f \in [0 .. N -> Pointers] /\ f[0] = s /\ \A i \in 1 .. N : f[i] = g[i][f[i-1]]
    <3>1. Iterated(N, Pointers, s, g)
      BY <1>1, <2>2, Iterates
    <3> QED
      BY <3>1 DEF Iterated
  <2> DEFINE h == [i \in 1 .. N+1 |-> f[i-1]]
  <2>5. \A i \in 1 .. N+1 : i-1 \in 0 .. N
    BY <1>1
  <2>6. h \in [1 .. N+1 -> Pointers]
    BY <2>4, <2>5
  <2>7. ASSUME NEW i \in 1 .. N+1
        PROVE  h[i] = IF i = 1 THEN s ELSE IF h[i-1] = NULL THEN NULL ELSE next[h[i-1]]
    <3>1. CASE i = 1
      <4>1. h[1] = f[0]
        BY <1>1
      <4> QED
        BY <3>1, <4>1, <2>4
    <3>2. CASE i # 1
      <4>1. i-1 \in 1 .. N /\ i-2 \in 0 .. N /\ i-1 \in 1 .. N+1 /\ (i-1)-1 = i-2
        BY <1>1, <3>2
      <4>2. h[i] = f[i-1] /\ h[i-1] = f[i-2] /\ f[i-2] \in Pointers
        BY <2>4, <4>1
      <4>3. f[i-1] = g[i-1][f[i-2]]
        BY <2>4, <4>1
      <4> QED
        BY <3>2, <4>1, <4>2, <4>3, <2>3
    <3> QED
      BY <3>1, <3>2
  <2>8. h = step(h)
    BY <2>6, <2>7
  <2> QED
    BY <2>6, <2>8
<1>4. at = step(at)
  BY <1>3
<1>5. at \in [1 .. N+1 -> Pointers] /\ at[1] = s
      /\ \A i \in 2 .. N+1 : at[i] = IF at[i-1] = NULL THEN NULL ELSE next[at[i-1]]
  <2> DEFINE a == at
  <2>1. a = step(a)
    BY <1>4
  <2> HIDE DEF a, N
  <2>2. /\ DOMAIN a = 1 .. N+1 /\ a[1] = s
        /\ \A i \in 2 .. N+1 : a[i] = IF a[i-1] = NULL THEN NULL ELSE next[a[i-1]]
    BY <1>1, <2>1
  <2> DEFINE bad == {i \in 1 .. N+1 : a[i] \notin Pointers}
  <2>3. bad = {}
    <3>1. SUFFICES ASSUME bad # {} PROVE FALSE
      OBVIOUS
    <3>2. PICK i \in bad : \A k \in bad : i <= k
      <4>1. bad \in SUBSET Nat
        BY <1>1
      <4> HIDE DEF bad
      <4> QED
        BY <3>1, <4>1, LeastElement
    <3>3. i \in 1 .. N+1 /\ a[i] \notin Pointers
      BY <3>2
    <3>4. i # 1
      BY <2>2, <3>3
    <3>5. i-1 \in 1 .. N+1 /\ i \in 2 .. N+1 /\ i-1 \notin bad
      <4>1. i-1 \in 1 .. N+1 /\ i \in 2 .. N+1 /\ ~(i <= i-1)
        BY <1>1, <3>3, <3>4
      <4> HIDE DEF bad
      <4> QED
        BY <3>2, <4>1
    <3>6. a[i-1] \in Pointers
      BY <3>5
    <3> QED
      BY <2>2, <3>3, <3>5, <3>6 DEF Pointers
  <2>4. a \in [1 .. N+1 -> Pointers]
    <3>1. a = [i \in 1 .. N+1 |-> a[i]]
      BY <1>1, <2>1
    <3> QED
      BY <2>3, <3>1
  <2> QED
    BY <2>2, <2>4 DEF a
<1> HIDE DEF at, g, N
<1>6. \A i \in 1 .. N : at[i+1] = IF at[i] = NULL THEN NULL ELSE next[at[i]]
  <2>1. ASSUME NEW i \in 1 .. N
        PROVE  at[i+1] = IF at[i] = NULL THEN NULL ELSE next[at[i]]
    <3>1. i+1 \in 2 .. N+1 /\ (i+1)-1 = i
      BY <1>1
    <3> QED
      BY <1>5, <3>1
  <2> QED
    BY <2>1
<1>7. \E n \in 0 .. N+1 : Ends(n)
  <2> DEFINE ends == {n \in 0 .. N+1 : n <= N => at[n+1] = NULL}
  <2>1. ends \in SUBSET Nat /\ N+1 \in ends
    BY <1>1
  <2>2. PICK n \in ends : \A k \in ends : n <= k
    <3> HIDE DEF ends
    <3> QED
      BY <2>1, LeastElement
  <2>3. n \in 0 .. N+1 /\ (n <= N => at[n+1] = NULL)
    BY <2>2
  <2>4. ASSUME n > 0 PROVE at[n] # NULL
    <3>1. n-1 \in 0 .. N+1 /\ n-1 <= N /\ ~(n <= n-1) /\ (n-1)+1 = n
      BY <1>1, <2>3, <2>4
    <3>2. n-1 \notin ends
      <4> HIDE DEF ends
      <4> QED
        BY <2>2, <3>1
    <3> QED
      BY <3>1, <3>2
  <2> QED
    BY <2>3, <2>4
<1>8. length \in 0 .. N+1 /\ Ends(length)
  BY <1>7
<1> HIDE DEF length
<1>9. ASSUME NEW k \in 1 .. length, at[k] = NULL
      PROVE  FALSE
  <2> DEFINE gap == {d \in 0 .. length : length - d \in 1 .. length /\ at[length - d] = NULL}
  <2>1. gap \in SUBSET Nat /\ length - k \in gap
    <3>1. length - k \in 0 .. length /\ length - (length - k) = k
      BY <1>1, <1>8
    <3> QED
      BY <1>8, <1>9, <3>1
  <2>2. PICK d \in gap : \A e \in gap : d <= e
    <3> HIDE DEF gap
    <3> QED
      BY <2>1, LeastElement
  <2>3. d \in 0 .. length /\ length - d \in 1 .. length /\ at[length - d] = NULL
    BY <2>2
  <2>4. CASE d = 0
    <3>1. length > 0 /\ length - d = length
      BY <1>1, <1>8, <2>3, <2>4
    <3> QED
      BY <1>8, <2>3, <3>1
  <2>5. CASE d # 0
    <3>1. /\ d-1 \in 0 .. length /\ length - (d-1) \in 1 .. length /\ ~(d <= d-1)
          /\ length - d \in 1 .. N /\ (length - d) + 1 = length - (d-1)
      BY <1>1, <1>8, <2>3, <2>5
    <3>2. at[length - (d-1)] = NULL
      BY <1>6, <2>3, <3>1
    <3>3. d-1 \in gap
      BY <3>1, <3>2
    <3> HIDE DEF gap
    <3> QED
      BY <2>2, <3>1, <3>3
  <2> QED
    BY <2>4, <2>5
<1>10. Walk(next, s, at, length)
  BY <1>5, <1>6, <1>8, <1>9 DEF Walk, N
<1> QED
  BY <1>2, <1>10

\* The slots of a list are slots, and there are some unless it is empty.
LEMMA ChainIsSlots ==
    ASSUME NEW next \in [Slots -> Pointers], NEW s \in Pointers
    PROVE  Chain(next, s) \in Seq(Slots) /\ (s # NULL => Len(Chain(next, s)) > 0)
<1>1. PICK at, n : Walk(next, s, at, n) /\ Chain(next, s) = [i \in 1 .. n |-> at[i]]
  BY ChainWalks
<1>2. MAXPROC \in Nat \ {0}
  BY LowerPhasesAssumption
<1>3. n \in Nat /\ \A i \in 1 .. n : at[i] \in Slots
  <2>1. ASSUME NEW i \in 1 .. n PROVE at[i] \in Slots
    <3>1. i \in 1 .. MAXPROC+1 /\ at[i] \in Pointers /\ at[i] # NULL
      BY <1>1, <1>2 DEF Walk
    <3> QED
      BY <3>1 DEF Pointers
  <2> QED
    BY <1>1, <1>2, <2>1 DEF Walk
<1> DEFINE q == [i \in 1 .. n |-> at[i]]
<1>4. q \in Seq(Slots) /\ Len(q) = n
  BY <1>3
<1>5. s # NULL => n > 0
  <2>1. n = 0 => s = NULL
    BY <1>1, <1>2 DEF Walk
  <2> QED
    BY <1>3, <2>1
<1> QED
  BY <1>1, <1>4, <1>5

\* What is a list is the list one walks.
LEMMA ChainIsList ==
    ASSUME NEW next \in [Slots -> Pointers], NEW s \in Pointers, NEW q,
           IsList(Slots, NULL, q, s, next)
    PROVE  Chain(next, s) = q
<1>1. PICK at, n : Walk(next, s, at, n) /\ Chain(next, s) = [i \in 1 .. n |-> at[i]]
  BY ChainWalks
<1>2. MAXPROC \in Nat \ {0} /\ NULL \notin Slots
  BY LowerPhasesAssumption, DriversAssumption
<1>3. q \in Seq(Slots) /\ Distinct(q) /\ Len(q) \in Nat /\ \A i \in 1 .. Len(q) : q[i] \in Slots
  BY LenProperties, ElementOfSeq DEF IsList
<1>4. Len(q) <= MAXPROC
  <2>1. IsFiniteSet(Slots) /\ Cardinality(Slots) = MAXPROC
    <3>1. 0 \in Int /\ MAXPROC-1 \in Int
      BY <1>2
    <3>2. IsFiniteSet(0 .. MAXPROC-1)
          /\ Cardinality(0 .. MAXPROC-1) = IF 0 > MAXPROC-1 THEN 0 ELSE (MAXPROC-1) - 0 + 1
      BY <3>1, FS_Interval, Zenon
    <3> QED
      BY <3>2, <1>2 DEF Slots
  <2> QED
    BY <1>3, <2>1, ListLength
<1> DEFINE k == Len(q)
           bad == {i \in 1 .. k+1 : at[i] # IF i = k+1 THEN NULL ELSE q[i]}
<1>5. bad = {}
  <2>1. SUFFICES ASSUME bad # {} PROVE FALSE
    OBVIOUS
  <2>2. PICK i \in bad : \A j \in bad : i <= j
    <3>1. bad \in SUBSET Nat
      BY <1>3
    <3> HIDE DEF bad
    <3> QED
      BY <2>1, <3>1, LeastElement
  <2>3. i \in 1 .. k+1 /\ at[i] # IF i = k+1 THEN NULL ELSE q[i]
    BY <2>2
  <2>4. CASE i = 1
    BY <1>1, <1>3, <2>3, <2>4 DEF Walk, IsList
  <2>5. CASE i # 1
    <3>1. i-1 \in 1 .. k /\ i-1 \in 1 .. k+1 /\ i-1 \in 1 .. MAXPROC /\ (i-1)+1 = i /\ i-1 \notin bad
      <4>1. /\ i-1 \in 1 .. k /\ i-1 \in 1 .. k+1 /\ i-1 \in 1 .. MAXPROC /\ (i-1)+1 = i
            /\ ~(i <= i-1)
        BY <1>2, <1>3, <1>4, <2>3, <2>5
      <4> HIDE DEF bad
      <4> QED
        BY <2>2, <4>1
    <3>2. at[i-1] = q[i-1]
      BY <3>1, <1>3
    <3>3. at[i] = next[q[i-1]]
      BY <1>1, <1>2, <1>3, <3>1, <3>2 DEF Walk
    <3>4. next[q[i-1]] = IF i-1 = k THEN NULL ELSE q[i]
      BY <3>1 DEF IsList
    <3> QED
      BY <1>3, <2>3, <3>1, <3>3, <3>4
  <2> QED
    BY <2>4, <2>5
<1>6. \A i \in 1 .. k : at[i] = q[i]
  <2>1. \A i \in 1 .. k : i \in 1 .. k+1 /\ i # k+1
    BY <1>3
  <2> QED
    BY <1>5, <2>1
<1>7. at[k+1] = NULL
  <2>1. k+1 \in 1 .. k+1
    BY <1>3
  <2> QED
    BY <1>5, <2>1
<1>8. n = k
  <2>1. n \in 0 .. MAXPROC+1 /\ (\A i \in 1 .. n : at[i] # NULL) /\ (n <= MAXPROC => at[n+1] = NULL)
    BY <1>1 DEF Walk
  <2>2. ~(n < k)
    <3>1. SUFFICES ASSUME n < k PROVE FALSE
      OBVIOUS
    <3>2. n <= MAXPROC /\ n+1 \in 1 .. k
      BY <1>2, <1>3, <1>4, <2>1, <3>1
    <3> QED
      BY <1>2, <1>3, <1>6, <2>1, <3>2
  <2>3. ~(n > k)
    <3>1. SUFFICES ASSUME n > k PROVE FALSE
      OBVIOUS
    <3>2. k+1 \in 1 .. n
      BY <1>2, <1>3, <2>1, <3>1
    <3> QED
      BY <1>7, <2>1, <3>2
  <2> QED
    BY <1>2, <1>3, <2>1, <2>2, <2>3
<1>9. q = [i \in 1 .. k |-> q[i]]
  BY <1>3
<1> QED
  BY <1>1, <1>6, <1>8, <1>9

-----------------------------------------------------------------------------
(***************************************************************************)
(* Types.                                                                  *)
(***************************************************************************)
ProcRec ==
    [pid : Nat, nextSleeperProc : Pointers, nextDiskProc : Pointers, startTime : Int,
     sleepEndTime : Int, track : Int, first : Int, sectors : Int, buffer : Datas,
     operation : {"read", "write"}]
JobRec ==
    [owner : Nat, op : {"read", "write"}, track : Int, sector : Int, sectors : Int,
     done : Int, data : Datas]

ProgNames == {"start3", "ClockDriver", "DiskDriver0", "DiskDriver1"} \cup DOMAIN Test.code

TypesOK ==
    /\ test \in DOMAIN Tests
    /\ pc \in [Pids -> Positions]
    /\ prog \in [Pids -> ProgNames]
    /\ line \in [Pids -> Nat \ {0}]
    /\ processTable \in [Slots -> ProcRec]
    /\ sleepQ \in Pointers /\ ptr \in Pointers
    /\ diskQ \in [Units -> Pointers]
    /\ currTime \in Nat /\ now \in Nat
    /\ job \in [Units -> JobRec]
    /\ DOMAIN device = Units
    /\ DOMAIN buffer = Pids

SysOK == MachineOK(sys, Boxes, {"running"})

\* Pids that have not been forked have done nothing.
Unforked == \A p \in Pids : ~(p < sys.next) => pc[p] = "user" /\ line[p] = 1

\* Whoever runs a program runs one that there is, and is in the call it makes.
CallAt(p) == Calls(prog[p])[line[p]]
Inside(p, names) == line[p] <= Len(Calls(prog[p])) /\ CallAt(p).call \in names
UserPlaces == {"user", "waited", "sleepAdd", "block", "return", "diskAdd", "diskRing",
    "size", "sizeDone", "diskWrite"}
\* p may be at x, with the call it is in.
ProgramFor(p, x) ==
    /\ x \in UserPlaces => prog[p] \in {"start3"} \cup DOMAIN Test.code
    /\ x = "waited" => Inside(p, {"Wait"})
    /\ x = "sleepAdd" => Inside(p, {"Sleep"})
    /\ x \in {"diskAdd", "diskRing"} => Inside(p, {"DiskRead", "DiskWrite"})
    /\ x \in {"block", "return"} => Inside(p, {"Sleep", "DiskRead", "DiskWrite"})
    /\ x \in {"size", "sizeDone"} =>
          Inside(p, {"DiskSize", "DiskWrite"}) /\ CallAt(p).unit \in Units
    /\ x = "diskWrite" => Inside(p, {"DiskWrite"}) /\ CallAt(p).unit \in Units
Programs == \A p \in Pids : ProgramFor(p, pc[p])

\* A driver serves the head of its list until it has unlinked it.
HasHead == \A u \in Units : Serving(u) => diskQ[u] # NULL

-----------------------------------------------------------------------------
(***************************************************************************)
(* The mutex of the disks, and the mailboxes of the devices.               *)
(***************************************************************************)
\* The processes of R hold lock b or wait for it, and all but one wait.
LockOK(m, b, R) ==
    LET box == m.box[b]
    IN  /\ box.slots = 1 /\ box.held \in {0, 1} /\ box.receivers = <<>>
        /\ Members(box.senders) \subseteq R
        /\ \A p, q \in R \ Members(box.senders) : p = q
        /\ box.held = 0 => R = {}

At(places) == {p \in Pids : pc[p] \in places}

MutexPlaces ==
    {"diskSeek", "diskSeekDone", "diskTransfer", "diskTransferred", "size", "sizeDone"}
MutexOK == LockOK(sys, MUTEX, At(MutexPlaces))

\* Whoever waits for a device holds the mutex, and somebody waits for a busy one.
DevicePlaces == {"diskSeekDone", "diskTransferred", "sizeDone"}
DeviceOK(u) ==
    LET box == sys.box[Device(u)]
    IN  /\ box.slots = 1 /\ box.held = 0 /\ box.senders = <<>>
        /\ Members(box.receivers) \subseteq At(DevicePlaces)
        /\ device[u] # Idle => box.receivers # <<>>
DevicesOK == \A u \in Units : DeviceOK(u)

\* The mutex of the sleepers' list.  Who goes on from a link of the list holds it.
SleepPlaces == {"sleepAdd", "spins", "clockScan", "clockWalk", "clockNext"}
SleepOK ==
    /\ LockOK(sys, SleepLock, At(SleepPlaces))
    /\ Members(sys.box[SleepLock].senders) \subseteq At({"sleepAdd", "clockScan"})
    /\ \A p \in Pids : pc[p] = "clockNext" => ptr # NULL

\* The inductive invariant.
DriversInv ==
    TypesOK /\ SysOK /\ Unforked /\ Programs /\ HasHead /\ MutexOK /\ SleepOK /\ DevicesOK

-----------------------------------------------------------------------------
(***************************************************************************)
(* What the constants make of pids, mailboxes and calls.                   *)
(***************************************************************************)
LEMMA SlotIs ==
    ASSUME NEW p \in Nat
    PROVE  Slot(p) \in Slots /\ Private(p) \in Boxes
<1>1. MAXPROC \in Nat \ {0}
  BY LowerPhasesAssumption
<1>2. p % MAXPROC \in 0 .. MAXPROC-1
  BY <1>1
<1> QED
  BY <1>2 DEF Slot, Slots, Private, Boxes

LEMMA PidsOfStart3 ==
    /\ Pids \subseteq Nat /\ IDLE \notin Pids
    /\ START3 \in Pids /\ CLOCK \in Pids /\ \A u \in Units : Disk(u) \in Pids
<1>1. MaxPid \in Nat /\ 8 <= MaxPid
  BY LowerPhasesAssumption, DriversAssumption DEF START4
<1> QED
  BY <1>1 DEF Pids, START3, CLOCK, Disk, Units, IDLE

LEMMA BoxesOfDrivers ==
    /\ SleepLock \in Boxes /\ MUTEX \in Boxes /\ ClockDevice \in Boxes
    /\ \A u \in Units : Door(u) \in Boxes /\ QueueLock(u) \in Boxes /\ Device(u) \in Boxes
    /\ \A s \in Slots : <<"private", s>> \in Boxes
BY DEF Boxes

\* Neither the mutex nor a device is another mailbox.
Apart(b) == b # MUTEX /\ \A u \in Units : b # Device(u)

LEMMA BoxesApart ==
    /\ Apart(SleepLock) /\ Apart(ClockDevice) /\ Apart(<<"none", 0>>)
    /\ \A u \in Units : Apart(Door(u)) /\ Apart(QueueLock(u)) /\ Device(u) # MUTEX
    /\ \A s : Apart(<<"private", s>>)
    /\ \A u, v \in Units : u # v => Device(u) # Device(v)
    /\ \A u \in Units : SleepLock \notin {Door(u), QueueLock(u), Device(u)}
    /\ \A s : SleepLock # <<"private", s>>
    /\ SleepLock \notin {MUTEX, ClockDevice, <<"none", 0>>}
BY DEF Apart, SleepLock, MUTEX, ClockDevice, Door, QueueLock, Device

\* What the calls of a program are.
Start3Calls ==
    [call : {"SemP"}, sem : {"running"}] \cup [call : {"Ring"}, unit : Units]
    \cup [call : {"Zap"}, pid : Pids]

CallOK(c) ==
    /\ c.call = "Spawn" => c.f \in ProgNames /\ c.prio \in Int
    /\ c.call = "Terminate" => c.status \in Int
    /\ c.call = "SemP" => c.sem = "running"
    /\ c.call = "Ring" => c.unit \in Units
    /\ c.call = "Zap" => c.pid \in Pids
    /\ c.call = "Sleep" => c.seconds \in Int
    /\ c.call \in {"DiskRead", "DiskWrite"} =>
          c.track \in Int /\ c.first \in Int /\ c.sectors \in Int
    /\ c.call = "DiskWrite" => c.data \in Datas
    /\ c.call = "DiskSize" => c.unit \in Units

LEMMA CallsAreOK ==
    ASSUME TypesOK, NEW p \in Pids, prog[p] \in {"start3"} \cup DOMAIN Test.code,
           line[p] <= Len(Calls(prog[p]))
    PROVE  CallOK(CallAt(p))
<1> DEFINE all == CallsIn(ProgNames) \cup Start3Calls
<1>1. \A c \in all : CallOK(c)
  <2>1. ASSUME NEW c \in CallsIn(ProgNames) PROVE CallOK(c)
    BY <2>1 DEF CallsIn, CallOK
  <2>2. ASSUME NEW c \in Start3Calls PROVE CallOK(c)
    BY <2>2 DEF Start3Calls, CallOK
  <2> QED
    BY <2>1, <2>2
<1>2. test \in DOMAIN Tests /\ line[p] \in Nat \ {0}
  BY DEF TypesOK
<1>3. "start4" \in DOMAIN Test.code
      /\ \A f \in DOMAIN Test.code : Test.code[f] \in Seq(CallsIn(DOMAIN Test.code))
  BY <1>2, TestsAssumption DEF Test
<1>4. CallsIn(DOMAIN Test.code) \subseteq CallsIn(ProgNames)
  BY DEF CallsIn, ProgNames
<1>5. Calls(prog[p]) \in Seq(all)
  <2>1. CASE prog[p] = "start3"
    <3>1. /\ Spawn("ClockDriver", 2) \in all /\ SemP("running") \in all
          /\ Spawn("DiskDriver0", 2) \in all /\ Spawn("DiskDriver1", 2) \in all
          /\ Spawn("start4", 3) \in all /\ Wait \in all /\ Terminate(0) \in all
      BY <1>3 DEF CallsIn, ProgNames, Start3Calls, Spawn, SemP, Wait, Terminate
    <3>2. /\ Zap(CLOCK) \in all /\ Ring(0) \in all /\ Zap(Disk(0)) \in all
          /\ Ring(1) \in all /\ Zap(Disk(1)) \in all
      BY PidsOfStart3 DEF Start3Calls, Zap, Ring, Units
    <3> HIDE DEF all
    <3>3. StartUp \in Seq(all)
      BY <3>1 DEF StartUp
    <3>4. ShutDown \in Seq(all)
      BY <3>1, <3>2 DEF ShutDown
    <3>5. StartUp \o ShutDown \in Seq(all)
      BY <3>3, <3>4
    <3> QED
      BY <2>1, <3>5 DEF Calls
  <2>2. CASE prog[p] # "start3"
    <3>1. Calls(prog[p]) \in Seq(CallsIn(DOMAIN Test.code))
      BY <2>2, <1>3 DEF Calls
    <3>2. CallsIn(DOMAIN Test.code) \subseteq all
      BY <1>4
    <3> HIDE DEF all
    <3> QED
      BY <3>1, <3>2
  <2> QED
    BY <2>1, <2>2
<1> HIDE DEF all
<1>6. line[p] \in 1 .. Len(Calls(prog[p]))
  BY <1>2, <1>5, LenProperties
<1>7. CallAt(p) \in all
  BY <1>5, <1>6, ElementOfSeq DEF CallAt
<1> QED
  BY <1>1, <1>7

-----------------------------------------------------------------------------
(***************************************************************************)
(* Where a request goes in a list.                                         *)
(***************************************************************************)
Track(s) == processTable[s].track

LEMMA SkipToIs ==
    ASSUME NEW list \in Seq(Slots), NEW i \in 1 .. Len(list), NEW low, NEW high
    PROVE  LET j == SkipTo(list, i, low, high)
           IN  /\ j \in i .. Len(list)
               /\ \A k \in i+1 .. j : Track(list[k]) \in low .. high
               /\ j < Len(list) => Track(list[j+1]) \notin low .. high
<1> DEFINE N == Len(list)
           Within(k) == Track(list[k]) \in low .. high
           Stop(j) == (\A k \in i+1 .. j : Within(k)) /\ (j < N => ~Within(j+1))
           stops == {j \in i .. N : j < N => ~Within(j+1)}
<1>1. N \in Nat /\ i \in Nat
  BY LenProperties
<1>2. SkipTo(list, i, low, high) = CHOOSE j \in i .. N : Stop(j)
  BY DEF SkipTo, Track
<1> HIDE DEF Within, N
<1>3. stops \in SUBSET Nat /\ N \in stops
  BY <1>1 DEF N
<1>4. PICK j \in stops : \A k \in stops : j <= k
  <2> HIDE DEF stops
  <2> QED
    BY <1>3, LeastElement
<1>5. j \in i .. N /\ (j < N => ~Within(j+1))
  BY <1>4
<1>6. ASSUME NEW k \in i+1 .. j PROVE Within(k)
  <2>1. k-1 \in i .. N /\ k-1 < N /\ ~(j <= k-1) /\ (k-1)+1 = k
    BY <1>1, <1>5
  <2>2. k-1 \notin stops
    <3> HIDE DEF stops
    <3> QED
      BY <1>4, <2>1
  <2> QED
    BY <2>1, <2>2
<1>7. \E k \in i .. N : Stop(k)
  BY <1>5, <1>6
<1> HIDE DEF Stop
<1>8. SkipTo(list, i, low, high) \in i .. N /\ Stop(SkipTo(list, i, low, high))
  BY <1>2, <1>7
<1> QED
  BY <1>8 DEF Stop, N, Within

LEMMA PositionIs ==
    ASSUME NEW u \in Units, NEW list \in Seq(Slots), Len(list) > 0, NEW track
    PROVE  Position(u, list, track) \in 1 .. Len(list)
<1> DEFINE head == Track(list[1])
           turn == SkipTo(list, 1, head, HighestTrack(u))
<1>1. Len(list) \in Nat /\ 1 \in 1 .. Len(list)
  BY LenProperties
<1>2. CASE head <= track
  <2>1. Position(u, list, track) = SkipTo(list, 1, head, track)
    BY <1>2 DEF Position, Track
  <2> HIDE DEF head
  <2> QED
    BY <1>1, <2>1, SkipToIs
<1>3. CASE ~(head <= track)
  <2>1. Position(u, list, track) = SkipTo(list, turn, 0, track)
    BY <1>3 DEF Position, Track
  <2> HIDE DEF head
  <2>2. turn \in 1 .. Len(list)
    BY <1>1, SkipToIs
  <2> HIDE DEF turn
  <2>3. Position(u, list, track) \in turn .. Len(list)
    BY <2>1, <2>2, SkipToIs
  <2> QED
    BY <1>1, <2>2, <2>3
<1> QED
  BY <1>2, <1>3

LEMMA LinksAreLinks ==
    ASSUME TypesOK
    PROVE  /\ NextSleeper \in [Slots -> Pointers] /\ NextDisk \in [Slots -> Pointers]
           /\ Sleepers \in Seq(Slots)
           /\ \A u \in Units : /\ RequestList(u) \in Seq(Slots)
                               /\ diskQ[u] # NULL => Len(RequestList(u)) > 0
<1>1. processTable \in [Slots -> ProcRec] /\ sleepQ \in Pointers /\ diskQ \in [Units -> Pointers]
  BY DEF TypesOK
<1>2. NextSleeper \in [Slots -> Pointers] /\ NextDisk \in [Slots -> Pointers]
  BY <1>1 DEF NextSleeper, NextDisk, ProcRec
<1>3. Sleepers \in Seq(Slots)
  BY <1>1, <1>2, ChainIsSlots DEF Sleepers
<1>4. ASSUME NEW u \in Units
      PROVE  /\ RequestList(u) \in Seq(Slots)
             /\ diskQ[u] # NULL => Len(RequestList(u)) > 0
  BY <1>1, <1>2, ChainIsSlots DEF RequestList
<1> QED
  BY <1>2, <1>3, <1>4

\* The request goes behind an entry of the list.
LEMMA FrontIs ==
    ASSUME TypesOK, NEW u \in Units, diskQ[u] # NULL, NEW track
    PROVE  RequestList(u)[Position(u, RequestList(u), track)] \in Slots
<1>1. RequestList(u) \in Seq(Slots) /\ Len(RequestList(u)) > 0
  BY LinksAreLinks
<1>2. Position(u, RequestList(u), track) \in 1 .. Len(RequestList(u))
  BY <1>1, PositionIs
<1> QED
  BY <1>1, <1>2, ElementOfSeq

-----------------------------------------------------------------------------
(***************************************************************************)
(* A mailbox of one slot as a lock.                                        *)
(***************************************************************************)
LEMMA LockTaken ==
    ASSUME NEW B, NEW S, NEW m, MachineOK(m, B, S), m.cur # IDLE, NEW b \in B,
           NEW R \in SUBSET Pids, LockOK(m, b, R), m.cur \notin R,
           NEW n, SameButBox(n, m, b, SentBox(m.box[b], m.cur))
    PROVE  LockOK(n, b, R \cup {m.cur})
<1> DEFINE old == m.box[b]
           new == SentBox(old, m.cur)
<1>1. m.cur \in Pids /\ old \in BoxRec /\ m.box \in [B -> BoxRec]
  BY DEF MachineOK, Machines
<1>2. n.box[b] = new
  BY <1>1 DEF SameButBox
<1>3. /\ old.slots = 1 /\ old.held \in {0, 1} /\ old.receivers = <<>>
      /\ Members(old.senders) \subseteq R
      /\ \A p, q \in R \ Members(old.senders) : p = q
      /\ old.held = 0 => R = {}
  BY DEF LockOK
<1> HIDE DEF old
<1>4. /\ new.slots = 1 /\ new.receivers = <<>>
      /\ new.senders = IF old.held = 0 THEN old.senders ELSE Append(old.senders, m.cur)
      /\ new.held = 1
  BY <1>1, <1>3, SentBoxIs
<1> HIDE DEF new
<1>5. CASE old.held = 0
  BY <1>2, <1>3, <1>4, <1>5 DEF LockOK
<1>6. CASE old.held # 0
  <2>1. old.senders \in Seq(Pids)
    BY <1>1 DEF BoxRec
  <2>2. Members(new.senders) = Members(old.senders) \cup {m.cur}
    BY <1>1, <1>4, <1>6, <2>1, AppendMembers
  <2> QED
    BY <1>2, <1>3, <1>4, <2>2 DEF LockOK
<1> QED
  BY <1>5, <1>6

LEMMA LockLeft ==
    ASSUME NEW B, NEW S, NEW m, MachineOK(m, B, S), m.cur # IDLE, NEW b \in B,
           NEW R \in SUBSET Pids, LockOK(m, b, R), m.cur \in R,
           NEW n, SameButBox(n, m, b, ReceivedBox(m.box[b], m.cur))
    PROVE  LockOK(n, b, R \ {m.cur})
<1> DEFINE old == m.box[b]
           new == ReceivedBox(old, m.cur)
<1>1. m.cur \in Pids /\ old \in BoxRec /\ m.box \in [B -> BoxRec]
  BY DEF MachineOK, Machines
<1>2. n.box[b] = new
  BY <1>1 DEF SameButBox
<1>3. /\ old.slots = 1 /\ old.held \in {0, 1} /\ old.receivers = <<>>
      /\ Members(old.senders) \subseteq R
      /\ \A p, q \in R \ Members(old.senders) : p = q
      /\ old.held = 0 => R = {}
  BY DEF LockOK
<1>4. m.cur \notin Members(old.senders)
  <2>1. m.cur \in Awake(m)
    BY DEF Awake
  <2>2. <<"senders", b>> \in Index(B, S) /\ List(m, <<"senders", b>>) = old.senders
    BY DEF Index, List
  <2> QED
    BY <2>1, <2>2 DEF MachineOK, Seated
<1> HIDE DEF old
<1>5. old.held = 1
  BY <1>3
<1>6. /\ new.slots = 1 /\ new.receivers = <<>>
      /\ new.senders = IF old.senders = <<>> THEN <<>> ELSE Tail(old.senders)
      /\ new.held = IF old.senders = <<>> THEN 0 ELSE 1
  BY <1>1, <1>3, <1>5, ReceivedBoxIs
<1> HIDE DEF new
<1>7. CASE old.senders = <<>>
  <2>1. Members(<<>>) = {}
    BY DEF Members
  <2> QED
    BY <1>2, <1>3, <1>6, <1>7, <2>1 DEF LockOK
<1>8. CASE old.senders # <<>>
  <2>1. old.senders \in Seq(Pids)
    BY <1>1 DEF BoxRec
  <2>2. Members(old.senders) = Members(new.senders) \cup {Head(old.senders)}
    BY <1>6, <1>8, <2>1, TailMembers
  <2>3. Members(new.senders) \subseteq R \ {m.cur}
    BY <1>3, <1>4, <2>2
  <2>4. \A p \in (R \ {m.cur}) \ Members(new.senders) : p = Head(old.senders)
    BY <1>3, <1>4, <2>2
  <2> QED
    BY <1>2, <1>6, <1>8, <2>3, <2>4 DEF LockOK
<1> QED
  BY <1>7, <1>8

-----------------------------------------------------------------------------
(***************************************************************************)
(* What a step of the running process leaves as it is.                     *)
(***************************************************************************)
\* Only mailbox b changes, and nobody is forked.
OnlyBox(b) ==
    sys'.next = sys.next /\ \A c \in Boxes : c # b => sys'.box[c] = sys.box[c]

\* p runs.
OnTurn(p) ==
    /\ p = me /\ p \in Pids /\ p < sys.next
    /\ \A b \in Boxes : p \notin Members(sys.box[b].senders) \cup Members(sys.box[b].receivers)

Moves(p, x) == x \in Positions /\ pc' = [pc EXCEPT ![p] = x]
GoesOn(p) == line' = line \/ line' = [line EXCEPT ![p] = @ + 1]
\* It goes on at x in the call it is in, or to its next call.
ProgramGoesOn(p, x) ==
    \/ UNCHANGED line /\ ProgramFor(p, x)
    \/ x = "user" /\ prog[p] \in {"start3"} \cup DOMAIN Test.code

LEMMA MeRuns ==
    ASSUME SysOK, me # IDLE
    PROVE  OnTurn(me)
<1>1. sys \in Machines(Boxes, {"running"}) /\ me \in Pids /\ me \in Awake(sys)
  BY DEF SysOK, MachineOK, Machines, Awake, me
<1>2. me < sys.next
  BY <1>1 DEF SysOK, MachineOK, Known
<1>3. ASSUME NEW b \in Boxes
      PROVE  me \notin Members(sys.box[b].senders) \cup Members(sys.box[b].receivers)
  <2>1. /\ <<"senders", b>> \in Index(Boxes, {"running"})
        /\ <<"receivers", b>> \in Index(Boxes, {"running"})
        /\ List(sys, <<"senders", b>>) = sys.box[b].senders
        /\ List(sys, <<"receivers", b>>) = sys.box[b].receivers
    BY DEF Index, List
  <2> QED
    BY <1>1, <2>1 DEF SysOK, MachineOK, Seated
<1> QED
  BY <1>1, <1>2, <1>3 DEF OnTurn

LEMMA OnlyBoxIs ==
    ASSUME SysOK, NEW b \in Boxes, NEW box, SameButBox(sys', sys, b, box)
    PROVE  OnlyBox(b) /\ sys'.box[b] = box
<1>1. sys.box \in [Boxes -> BoxRec]
  BY DEF SysOK, MachineOK, Machines
<1> QED
  BY <1>1 DEF OnlyBox, SameButBox, SameProcesses

\* The calls, as the drivers and their callers make them.
LEMMA Sends ==
    ASSUME SysOK, me # IDLE, NEW b \in Boxes, sys' = Sent(sys, b)
    PROVE  SysOK' /\ OnlyBox(b) /\ SameButBox(sys', sys, b, SentBox(sys.box[b], me))
<1>1. MachineOK(sys', Boxes, {"running"}) /\ SameButBox(sys', sys, b, SentBox(sys.box[b], me))
  BY SentKeeps DEF SysOK, me
<1> QED
  BY <1>1, OnlyBoxIs DEF SysOK

LEMMA CondSends ==
    ASSUME SysOK, NEW b \in Boxes, sys' = CondSent(sys, b)
    PROVE  SysOK' /\ OnlyBox(b) /\ SameButBox(sys', sys, b, CondSentBox(sys.box[b]))
<1>1. MachineOK(sys', Boxes, {"running"}) /\ SameButBox(sys', sys, b, CondSentBox(sys.box[b]))
  BY CondSentKeeps DEF SysOK
<1> QED
  BY <1>1, OnlyBoxIs DEF SysOK

LEMMA Receives ==
    ASSUME SysOK, me # IDLE, NEW b \in Boxes, sys' = Received(sys, b)
    PROVE  SysOK' /\ OnlyBox(b) /\ SameButBox(sys', sys, b, ReceivedBox(sys.box[b], me))
<1>1. MachineOK(sys', Boxes, {"running"}) /\ SameButBox(sys', sys, b, ReceivedBox(sys.box[b], me))
  BY ReceivedKeeps DEF SysOK, me
<1> QED
  BY <1>1, OnlyBoxIs DEF SysOK

NoBox == <<"none", 0>>

LEMMA KinOnly ==
    ASSUME SysOK, me # IDLE,
           \/ sys' = Joined(sys)
           \/ \E status \in Int : sys' = Quit(sys, status)
           \/ \E q \in Pids : sys' = Zapped(sys, q)
           \/ sys' = SemPed(sys, "running")
           \/ sys' = SemVed(sys, "running")
           \/ sys' = sys
    PROVE  SysOK' /\ OnlyBox(NoBox)
<1>1. MachineOK(sys, Boxes, {"running"}) /\ sys.cur # IDLE
  BY DEF SysOK, me
<1>2. ASSUME MachineOK(sys', Boxes, {"running"}), SameButKin(sys', sys)
      PROVE  SysOK' /\ OnlyBox(NoBox)
  BY <1>2 DEF SysOK, OnlyBox, SameButKin
<1>3. ASSUME MachineOK(sys', Boxes, {"running"}), SameButSem(sys', sys)
      PROVE  SysOK' /\ OnlyBox(NoBox)
  BY <1>3 DEF SysOK, OnlyBox, SameButSem, SameProcesses
<1>4. CASE sys' = Joined(sys)
  BY <1>1, <1>2, <1>4, JoinedKeeps
<1>5. CASE \E status \in Int : sys' = Quit(sys, status)
  BY <1>1, <1>2, <1>5, QuitKeeps
<1>6. CASE \E q \in Pids : sys' = Zapped(sys, q)
  BY <1>1, <1>2, <1>6, ZappedKeeps
<1>7. CASE sys' = SemPed(sys, "running")
  BY <1>1, <1>3, <1>7, SemPedKeeps
<1>8. CASE sys' = SemVed(sys, "running")
  BY <1>1, <1>3, <1>8, SemVedKeeps
<1>9. CASE sys' = sys
  BY <1>9 DEF SysOK, OnlyBox
<1> QED
  BY <1>4, <1>5, <1>6, <1>7, <1>8, <1>9

LEMMA UnforkedKept ==
    ASSUME TypesOK, Unforked, NEW p, OnTurn(p), NEW x, Moves(p, x), GoesOn(p),
           sys'.next = sys.next
    PROVE  Unforked'
<1>1. ASSUME NEW q \in Pids, ~(q < sys.next) PROVE pc'[q] = pc[q] /\ line'[q] = line[q]
  BY <1>1 DEF TypesOK, OnTurn, Moves, GoesOn
<1> QED
  BY <1>1 DEF Unforked

LEMMA ProgramsKept ==
    ASSUME TypesOK, Programs, NEW p, OnTurn(p), NEW x, Moves(p, x), GoesOn(p),
           UNCHANGED <<test, prog>>, ProgramGoesOn(p, x)
    PROVE  Programs'
<1>1. ASSUME NEW q \in Pids PROVE ProgramFor(q, pc[q])'
  <2>1. CASE q # p
    <3>1. pc'[q] = pc[q] /\ line'[q] = line[q] /\ prog'[q] = prog[q] /\ test' = test
      BY <2>1 DEF TypesOK, OnTurn, Moves, GoesOn
    <3>2. ProgramFor(q, pc[q])
      BY DEF Programs
    <3> QED
      BY <3>1, <3>2 DEF ProgramFor, Inside, CallAt, Calls, Test
  <2>2. CASE q = p /\ UNCHANGED line /\ ProgramFor(p, x)
    <3>1. pc'[q] = x /\ test' = test /\ prog' = prog
      BY <2>2 DEF TypesOK, OnTurn, Moves
    <3> QED
      BY <3>1, <2>2 DEF ProgramFor, Inside, CallAt, Calls, Test
  <2>3. CASE q = p /\ x = "user" /\ prog[p] \in {"start3"} \cup DOMAIN Test.code
    <3>1. pc'[q] = "user" /\ test' = test /\ prog' = prog
      BY <2>3 DEF TypesOK, OnTurn, Moves
    <3> QED
      BY <3>1, <2>3 DEF ProgramFor, Test
  <2> QED
    BY <2>1, <2>2, <2>3 DEF ProgramGoesOn
<1> QED
  BY <1>1 DEF Programs

LEMMA HeadKept ==
    ASSUME TypesOK, HasHead, NEW p, OnTurn(p), NEW x, Moves(p, x), UNCHANGED diskQ,
           x \in {"diskSeek", "diskSeekDone", "diskSector", "diskTransfer",
                  "diskTransferred", "diskUnlink"}
              => \A u \in Units : p = Disk(u) => diskQ[u] # NULL
    PROVE  HasHead'
<1>1. ASSUME NEW u \in Units, Serving(u)' PROVE diskQ[u] # NULL
  <2>1. Disk(u) \in Pids /\ pc \in [Pids -> Positions]
    BY PidsOfStart3 DEF TypesOK
  <2>2. CASE p = Disk(u)
    BY <1>1, <2>1, <2>2 DEF Serving, Moves
  <2>3. CASE p # Disk(u)
    BY <1>1, <2>1, <2>3 DEF Serving, Moves, HasHead
  <2> QED
    BY <2>2, <2>3
<1> QED
  BY <1>1 DEF HasHead

LEMMA LockKept ==
    ASSUME TypesOK, NEW lock \in Boxes, NEW places, LockOK(sys, lock, At(places)),
           NEW p, OnTurn(p), NEW x, Moves(p, x),
           NEW b, b # lock, OnlyBox(b), x \in places <=> pc[p] \in places
    PROVE  LockOK(sys, lock, At(places))' /\ sys'.box[lock] = sys.box[lock]
<1>1. sys'.box[lock] = sys.box[lock]
  BY DEF OnlyBox
<1>2. At(places)' = At(places)
  BY DEF TypesOK, OnTurn, Moves, At
<1> QED
  BY <1>1, <1>2 DEF LockOK

LEMMA LockIsTaken ==
    ASSUME TypesOK, SysOK, NEW lock \in Boxes, NEW places, LockOK(sys, lock, At(places)),
           NEW p, OnTurn(p), NEW x \in places, Moves(p, x), pc[p] \notin places, me # IDLE,
           SameButBox(sys', sys, lock, SentBox(sys.box[lock], me))
    PROVE  LockOK(sys, lock, At(places))'
<1> DEFINE R == At(places)
<1>1. R \in SUBSET Pids /\ me \notin R
  BY DEF At, OnTurn
<1>2. At(places)' = R \cup {me}
  BY DEF TypesOK, OnTurn, Moves, At
<1> HIDE DEF R
<1>3. LockOK(sys, lock, R)
  BY DEF R
<1>4. LockOK(sys', lock, R \cup {me})
  BY <1>1, <1>3, LockTaken DEF SysOK, me
<1> QED
  BY <1>2, <1>4

LEMMA LockIsLeft ==
    ASSUME TypesOK, SysOK, NEW lock \in Boxes, NEW places, LockOK(sys, lock, At(places)),
           NEW p, OnTurn(p), NEW x, x \notin places, Moves(p, x), pc[p] \in places, me # IDLE,
           SameButBox(sys', sys, lock, ReceivedBox(sys.box[lock], me))
    PROVE  LockOK(sys, lock, At(places))'
<1> DEFINE R == At(places)
<1>1. R \in SUBSET Pids /\ me \in R
  BY DEF At, OnTurn
<1>2. At(places)' = R \ {me}
  BY DEF TypesOK, OnTurn, Moves, At
<1> HIDE DEF R
<1>3. LockOK(sys, lock, R)
  BY DEF R
<1>4. LockOK(sys', lock, R \ {me})
  BY <1>1, <1>3, LockLeft DEF SysOK, me
<1> QED
  BY <1>2, <1>4

LEMMA SleepKept ==
    ASSUME TypesOK, SleepOK, NEW p, OnTurn(p), NEW x, Moves(p, x),
           NEW b, b # SleepLock, OnlyBox(b), x \in SleepPlaces <=> pc[p] \in SleepPlaces,
           UNCHANGED ptr, x = "clockNext" => ptr # NULL
    PROVE  SleepOK'
<1>1. LockOK(sys, SleepLock, At(SleepPlaces))' /\ sys'.box[SleepLock] = sys.box[SleepLock]
  BY LockKept, BoxesOfDrivers DEF SleepOK
<1>2. p \notin Members(sys.box[SleepLock].senders)
  BY BoxesOfDrivers DEF OnTurn
<1>3. \A q \in Members(sys.box[SleepLock].senders) : pc'[q] = pc[q] /\ q \in Pids
  BY <1>2 DEF SleepOK, At, TypesOK, Moves
<1>4. \A q \in Pids : pc'[q] = "clockNext" => ptr # NULL
  BY DEF SleepOK, TypesOK, Moves
<1> QED
  BY <1>1, <1>3, <1>4 DEF SleepOK, At

LEMMA SleepTaken ==
    ASSUME TypesOK, SysOK, SleepOK, NEW p, OnTurn(p), NEW x \in {"sleepAdd", "clockScan"},
           Moves(p, x), pc[p] \notin SleepPlaces, me # IDLE, UNCHANGED ptr,
           SameButBox(sys', sys, SleepLock, SentBox(sys.box[SleepLock], me))
    PROVE  SleepOK'
<1> DEFINE old == sys.box[SleepLock]
           new == SentBox(old, me)
<1>1. LockOK(sys, SleepLock, At(SleepPlaces))'
  BY LockIsTaken, BoxesOfDrivers DEF SleepOK, SleepPlaces
<1>2. old \in BoxRec /\ me \in Pids /\ sys.box \in [Boxes -> BoxRec]
  BY BoxesOfDrivers DEF SysOK, MachineOK, Machines, me
<1>3. sys'.box[SleepLock] = new
  BY <1>2, BoxesOfDrivers DEF SameButBox
<1> HIDE DEF old
<1>4. new.senders = old.senders \/ new.senders = Append(old.senders, me)
  BY <1>2, SentBoxIs
<1>5. old.senders \in Seq(Pids)
  BY <1>2 DEF BoxRec
<1> HIDE DEF new
<1>6. Members(new.senders) \subseteq Members(old.senders) \cup {me}
  BY <1>2, <1>4, <1>5, AppendMembers
<1>7. Members(old.senders) \subseteq At({"sleepAdd", "clockScan"})
  BY DEF SleepOK, old
<1>8. Members(new.senders) \subseteq At({"sleepAdd", "clockScan"})'
  BY <1>2, <1>6, <1>7 DEF At, TypesOK, Moves, OnTurn
<1>9. \A q \in Pids : pc'[q] = "clockNext" => ptr # NULL
  BY DEF SleepOK, TypesOK, Moves
<1> QED
  BY <1>1, <1>3, <1>8, <1>9 DEF SleepOK

LEMMA SleepLeft ==
    ASSUME TypesOK, SysOK, SleepOK, NEW p, OnTurn(p), NEW x, x \notin SleepPlaces,
           Moves(p, x), pc[p] \in SleepPlaces, me # IDLE, UNCHANGED ptr,
           SameButBox(sys', sys, SleepLock, ReceivedBox(sys.box[SleepLock], me))
    PROVE  SleepOK'
<1> DEFINE old == sys.box[SleepLock]
           new == ReceivedBox(old, me)
<1>1. LockOK(sys, SleepLock, At(SleepPlaces))'
  BY LockIsLeft, BoxesOfDrivers DEF SleepOK
<1>2. old \in BoxRec /\ me \in Pids /\ sys.box \in [Boxes -> BoxRec]
  BY BoxesOfDrivers DEF SysOK, MachineOK, Machines, me
<1>3. sys'.box[SleepLock] = new
  BY <1>2, BoxesOfDrivers DEF SameButBox
<1>4. p \notin Members(old.senders)
  BY BoxesOfDrivers DEF OnTurn
<1> HIDE DEF old
<1>5. new.senders = IF old.held = 0 \/ old.senders = <<>> THEN old.senders ELSE Tail(old.senders)
  BY <1>2, ReceivedBoxIs
<1>6. old.senders \in Seq(Pids)
  BY <1>2 DEF BoxRec
<1> HIDE DEF new
<1>7. Members(new.senders) \subseteq Members(old.senders)
  BY <1>5, <1>6, TailMembers
<1>8. Members(old.senders) \subseteq At({"sleepAdd", "clockScan"})
  BY DEF SleepOK, old
<1>9. Members(new.senders) \subseteq At({"sleepAdd", "clockScan"})'
  BY <1>4, <1>7, <1>8 DEF At, TypesOK, Moves, OnTurn
<1>10. \A q \in Pids : pc'[q] = "clockNext" => ptr # NULL
  BY DEF SleepOK, TypesOK, Moves, SleepPlaces
<1> QED
  BY <1>1, <1>3, <1>9, <1>10 DEF SleepOK

\* Whoever runs and is behind the lock has it alone.
LEMMA SleepHolder ==
    ASSUME SleepOK, NEW p, OnTurn(p), pc[p] \in SleepPlaces,
           NEW q \in Pids, pc[q] \in {"clockWalk", "clockNext", "spins"}
    PROVE  q = p
<1>1. p \notin Members(sys.box[SleepLock].senders) /\ p \in At(SleepPlaces)
  BY BoxesOfDrivers DEF OnTurn, At
<1>2. q \notin Members(sys.box[SleepLock].senders) /\ q \in At(SleepPlaces)
  BY DEF SleepOK, At, SleepPlaces
<1> QED
  BY <1>1, <1>2 DEF SleepOK, LockOK

LEMMA DevicesKept ==
    ASSUME TypesOK, DevicesOK, NEW p, OnTurn(p), NEW x, Moves(p, x),
           NEW b, (\A u \in Units : b # Device(u)), OnlyBox(b), UNCHANGED device
    PROVE  DevicesOK'
<1>1. ASSUME NEW u \in Units PROVE DeviceOK(u)'
  <2>1. Device(u) \in Boxes /\ sys'.box[Device(u)] = sys.box[Device(u)]
    BY BoxesOfDrivers DEF OnlyBox
  <2>2. DeviceOK(u) /\ p \notin Members(sys.box[Device(u)].receivers)
    BY <2>1 DEF DevicesOK, OnTurn
  <2>3. ASSUME NEW q \in Members(sys.box[Device(u)].receivers) PROVE q \in At(DevicePlaces)'
    BY <2>2, <2>3 DEF TypesOK, Moves, At, DeviceOK
  <2> QED
    BY <2>1, <2>2, <2>3 DEF DeviceOK
<1> QED
  BY <1>1 DEF DevicesOK

\* A step that has nothing to do with the mutex and the devices.
LEMMA StepKeeps ==
    ASSUME DriversInv, NEW p, OnTurn(p), NEW x, Moves(p, x), GoesOn(p),
           NEW b, Apart(b), OnlyBox(b), x \in MutexPlaces <=> pc[p] \in MutexPlaces,
           UNCHANGED <<test, prog, device>>,
           TypesOK', SysOK', ProgramGoesOn(p, x), HasHead', SleepOK'
    PROVE  DriversInv'
<1>1. Unforked'
  BY UnforkedKept DEF DriversInv, OnlyBox
<1>2. Programs'
  BY ProgramsKept DEF DriversInv
<1>3. MutexOK'
  BY LockKept, BoxesOfDrivers DEF DriversInv, MutexOK, Apart
<1>4. DevicesOK'
  BY DevicesKept DEF DriversInv, Apart
<1> QED
  BY <1>1, <1>2, <1>3, <1>4 DEF DriversInv

ServingPlaces ==
    {"diskSeek", "diskSeekDone", "diskSector", "diskTransfer", "diskTransferred", "diskUnlink"}

\* A step that changes no table either.
LEMMA PlainKeeps ==
    ASSUME DriversInv, NEW p, OnTurn(p), NEW x, Moves(p, x), GoesOn(p),
           NEW b, Apart(b), b # SleepLock, OnlyBox(b),
           x \notin MutexPlaces \cup ServingPlaces \cup SleepPlaces,
           pc[p] \notin MutexPlaces \cup SleepPlaces,
           UNCHANGED <<test, prog, processTable, sleepQ, ptr, currTime, now, diskQ, job,
                       device, buffer>>,
           SysOK', ProgramGoesOn(p, x)
    PROVE  DriversInv'
<1>1. TypesOK'
  BY DEF DriversInv, TypesOK, OnTurn, Moves, GoesOn, ProgNames, Test
<1>2. HasHead'
  BY HeadKept DEF DriversInv, ServingPlaces
<1>3. SleepOK'
  BY SleepKept DEF DriversInv, SleepPlaces
<1> QED
  BY <1>1, <1>2, <1>3, StepKeeps

-----------------------------------------------------------------------------
(***************************************************************************)
(* The steps of the clock driver.                                          *)
(***************************************************************************)
LEMMA RunsAt ==
    ASSUME DriversInv, NEW where, Runs(where)
    PROVE  OnTurn(me) /\ me # IDLE /\ me \in Pids /\ pc[me] = where /\ ProgramFor(me, where)
<1>1. OnTurn(me) /\ me # IDLE /\ pc[me] = where
  BY MeRuns DEF DriversInv, Runs
<1>2. me \in Pids
  BY <1>1 DEF OnTurn
<1> QED
  BY <1>1, <1>2 DEF DriversInv, Programs

LEMMA QuitsKeep ==
    ASSUME DriversInv, OnTurn(me), me # IDLE, Then("gone"), NEW status \in Int,
           sys' = Quit(sys, status), pc[me] \notin MutexPlaces \cup SleepPlaces,
           UNCHANGED <<test, prog, line, processTable, sleepQ, ptr, currTime, now, diskQ, job,
                       device, buffer>>
    PROVE  DriversInv'
<1>1. SysOK' /\ OnlyBox(NoBox)
  BY KinOnly DEF DriversInv
<1>2. Moves(me, "gone") /\ GoesOn(me) /\ ProgramGoesOn(me, "gone")
  BY DEF Then, Moves, Positions, GoesOn, ProgramGoesOn, ProgramFor, UserPlaces
<1> QED
  BY <1>1, <1>2, BoxesApart, PlainKeeps DEF MutexPlaces, ServingPlaces, SleepPlaces, NoBox

\* Those of the driver's steps that leave its lists alone.
LEMMA TypesKept ==
    ASSUME TypesOK, NEW p, OnTurn(p), NEW x, Moves(p, x), GoesOn(p),
           UNCHANGED <<test, prog, processTable, sleepQ, ptr, currTime, now, diskQ, job,
                       device, buffer>>
    PROVE  TypesOK'
BY DEF DriversInv, TypesOK, OnTurn, Moves, GoesOn, ProgNames, Test

LEMMA ClockDriverKeeps ==
    ASSUME DriversInv, ClockDriver
    PROVE  DriversInv'
<1> USE DEF sleepVars, diskVars, userVars
<1>1. CASE ClockStart
  <2>1. OnTurn(me) /\ me # IDLE /\ pc[me] = "ClockDriver"
    BY <1>1, RunsAt DEF ClockStart
  <2>2. SysOK' /\ OnlyBox(NoBox)
    BY <1>1, <2>1, KinOnly DEF ClockStart, DriversInv
  <2>3. Moves(me, "clockLoop") /\ GoesOn(me) /\ ProgramGoesOn(me, "clockLoop")
    BY <1>1 DEF ClockStart, Then, Moves, Positions, GoesOn, ProgramGoesOn, ProgramFor, UserPlaces
  <2> QED
    BY <1>1, <2>1, <2>2, <2>3, BoxesApart, PlainKeeps
    DEF ClockStart, MutexPlaces, ServingPlaces, SleepPlaces, NoBox
<1>2. CASE ClockLoop
  <2>1. OnTurn(me) /\ me # IDLE /\ pc[me] = "clockLoop"
    BY <1>2, RunsAt DEF ClockLoop
  <2>2. CASE IsZapped(sys)
    BY <1>2, <2>1, <2>2, QuitsKeep DEF ClockLoop, MutexPlaces, SleepPlaces
  <2>3. CASE ~IsZapped(sys)
    <3>1. sys' = Received(sys, ClockDevice) /\ Then("clockTick")
      BY <1>2, <2>3 DEF ClockLoop
    <3>2. SysOK' /\ OnlyBox(ClockDevice)
      BY <2>1, <3>1, Receives, BoxesOfDrivers DEF DriversInv
    <3>3. Moves(me, "clockTick") /\ GoesOn(me) /\ ProgramGoesOn(me, "clockTick")
      BY <1>2, <3>1
      DEF ClockLoop, Then, Moves, Positions, GoesOn, ProgramGoesOn, ProgramFor, UserPlaces
    <3> QED
      BY <1>2, <2>1, <3>2, <3>3, BoxesApart, PlainKeeps
      DEF ClockLoop, MutexPlaces, ServingPlaces, SleepPlaces
  <2> QED
    BY <2>2, <2>3
<1>3. CASE ClockTick
  <2>1. OnTurn(me) /\ me # IDLE /\ pc[me] = "clockTick"
    BY <1>3, RunsAt DEF ClockTick
  <2>2. CASE IsZapped(sys)
    BY <1>3, <2>1, <2>2, QuitsKeep DEF ClockTick, MutexPlaces, SleepPlaces
  <2>3. CASE ~IsZapped(sys)
    <3>1. sys' = Sent(sys, SleepLock) /\ Then("clockScan")
      BY <1>3, <2>3 DEF ClockTick
    <3>2. /\ SysOK' /\ OnlyBox(SleepLock)
          /\ SameButBox(sys', sys, SleepLock, SentBox(sys.box[SleepLock], me))
      BY <2>1, <3>1, Sends, BoxesOfDrivers DEF DriversInv
    <3>3. Moves(me, "clockScan") /\ GoesOn(me) /\ ProgramGoesOn(me, "clockScan")
      BY <1>3, <3>1
      DEF ClockTick, Then, Moves, Positions, GoesOn, ProgramGoesOn, ProgramFor, UserPlaces
    <3>4. TypesOK' /\ HasHead'
      BY <1>3, <2>1, <3>3, TypesKept, HeadKept DEF ClockTick, DriversInv
    <3>5. SleepOK'
      BY <1>3, <2>1, <3>2, <3>3, SleepTaken DEF ClockTick, DriversInv, SleepPlaces
    <3> QED
      BY <1>3, <2>1, <3>2, <3>3, <3>4, <3>5, BoxesApart, StepKeeps DEF ClockTick, MutexPlaces
  <2> QED
    BY <2>2, <2>3
<1>4. CASE ClockScan
  <2>1. OnTurn(me) /\ me # IDLE /\ pc[me] = "clockScan"
    BY <1>4, RunsAt DEF ClockScan
  <2>2. SysOK' /\ OnlyBox(NoBox)
    BY <1>4, <2>1, KinOnly DEF ClockScan, DriversInv
  <2>3. Moves(me, "clockWalk") /\ GoesOn(me) /\ ProgramGoesOn(me, "clockWalk")
    BY <1>4 DEF ClockScan, Then, Moves, Positions, GoesOn, ProgramGoesOn, ProgramFor, UserPlaces
  <2>4. TypesOK'
    BY <1>4, <2>3 DEF ClockScan, DriversInv, TypesOK, Moves, ProgNames, Test
  <2>5. HasHead'
    BY <1>4, <2>1, <2>3, HeadKept DEF ClockScan, DriversInv
  <2>6. SleepOK'
    <3>1. LockOK(sys, SleepLock, At(SleepPlaces))'
      BY <2>1, <2>2, <2>3, LockKept, BoxesOfDrivers, BoxesApart
      DEF DriversInv, SleepOK, SleepPlaces, NoBox
    <3>2. \A q \in Pids : pc'[q] # "clockNext"
      BY <2>1, <2>3, SleepHolder DEF DriversInv, SleepPlaces, TypesOK, Moves
    <3>3. Members(sys'.box[SleepLock].senders) \subseteq At({"sleepAdd", "clockScan"})'
      <4>1. sys' = sys /\ me \notin Members(sys.box[SleepLock].senders)
        BY <1>4, <2>1, BoxesOfDrivers DEF ClockScan, OnTurn
      <4> QED
        BY <2>3, <4>1 DEF DriversInv, SleepOK, At, TypesOK, Moves
    <3> QED
      BY <3>1, <3>2, <3>3 DEF SleepOK
  <2> QED
    BY <1>4, <2>1, <2>2, <2>3, <2>4, <2>5, <2>6, BoxesApart, StepKeeps
    DEF ClockScan, MutexPlaces, NoBox
<1>5. CASE ClockWake
  <2>1. OnTurn(me) /\ me # IDLE /\ pc[me] = "clockWalk"
    BY <1>5, RunsAt DEF ClockWake
  <2>2. ptr \in Slots
    BY <1>5 DEF ClockWake, DriversInv, TypesOK, Pointers
  <2>3. SysOK' /\ OnlyBox(<<"private", ptr>>)
    BY <1>5, <2>1, <2>2, Sends, BoxesOfDrivers DEF ClockWake, DriversInv
  <2>4. Moves(me, "clockNext") /\ GoesOn(me) /\ ProgramGoesOn(me, "clockNext")
    BY <1>5 DEF ClockWake, Then, Moves, Positions, GoesOn, ProgramGoesOn, ProgramFor, UserPlaces
  <2>5. processTable' \in [Slots -> ProcRec] /\ sleepQ' \in Pointers
    <3>1. processTable \in [Slots -> ProcRec] /\ processTable[ptr].nextSleeperProc \in Pointers
      BY <2>2 DEF DriversInv, TypesOK, ProcRec
    <3>2. CASE sleepQ = ptr
      BY <1>5, <3>1, <3>2 DEF ClockWake, RemoveFromSleepQ
    <3>3. CASE sleepQ # ptr
      <4>1. \A t \in Slots : [processTable[t] EXCEPT !.nextSleeperProc =
                                 processTable[ptr].nextSleeperProc] \in ProcRec
        BY <3>1 DEF ProcRec
      <4> DEFINE n == processTable[ptr].nextSleeperProc
                 In(t) == t \in Range(Sleepers) /\ processTable[t].nextSleeperProc = ptr
      <4>2. processTable' = [t \in Slots |-> IF In(t) THEN [processTable[t] EXCEPT !.nextSleeperProc = n]
                                             ELSE processTable[t]]
            /\ sleepQ' = sleepQ
        BY <1>5, <3>3 DEF ClockWake, RemoveFromSleepQ
      <4> HIDE DEF In
      <4>3. processTable' \in [Slots -> ProcRec]
        BY <3>1, <4>1, <4>2
      <4> QED
        BY <4>2, <4>3 DEF DriversInv, TypesOK
    <3> QED
      BY <3>2, <3>3
  <2>6. TypesOK'
    BY <1>5, <2>4, <2>5 DEF ClockWake, DriversInv, TypesOK, Moves, ProgNames, Test
  <2>7. HasHead'
    BY <1>5, <2>1, <2>4, HeadKept DEF ClockWake, DriversInv
  <2>8. SleepOK'
    <3>1. SleepLock # <<"private", ptr>> /\ UNCHANGED ptr /\ ptr # NULL
      BY <1>5, BoxesApart DEF ClockWake
    <3> QED
      BY <2>1, <2>3, <2>4, <3>1, SleepKept DEF DriversInv, SleepPlaces
  <2> QED
    BY <1>5, <2>1, <2>3, <2>4, <2>6, <2>7, <2>8, BoxesApart, StepKeeps DEF ClockWake, MutexPlaces
<1>6. CASE ClockNext
  <2>1. OnTurn(me) /\ me # IDLE /\ pc[me] \in {"clockWalk", "clockNext"}
    BY <1>6, RunsAt DEF ClockNext
  <2>2. SysOK' /\ OnlyBox(NoBox)
    BY <1>6, <2>1, KinOnly DEF ClockNext, DriversInv
  <2>3. Moves(me, "clockWalk") /\ GoesOn(me) /\ ProgramGoesOn(me, "clockWalk")
    BY <1>6 DEF ClockNext, Then, Moves, Positions, GoesOn, ProgramGoesOn, ProgramFor, UserPlaces
  <2>4. ptr \in Slots
    BY <1>6, <2>1 DEF ClockNext, Runs, DriversInv, SleepOK, OnTurn, TypesOK, Pointers
  <2>5. TypesOK'
    <3>1. ptr' \in Pointers
      BY <1>6, <2>4 DEF ClockNext, DriversInv, TypesOK, ProcRec
    <3> QED
      BY <1>6, <2>3, <3>1 DEF ClockNext, DriversInv, TypesOK, Moves, ProgNames, Test
  <2>6. HasHead'
    BY <1>6, <2>1, <2>3, HeadKept DEF ClockNext, DriversInv
  <2>7. SleepOK'
    <3>1. LockOK(sys, SleepLock, At(SleepPlaces))'
      BY <2>1, <2>2, <2>3, LockKept, BoxesOfDrivers, BoxesApart
      DEF DriversInv, SleepOK, SleepPlaces, NoBox
    <3>2. \A q \in Pids : pc'[q] # "clockNext"
      BY <2>1, <2>3, SleepHolder DEF DriversInv, SleepPlaces, TypesOK, Moves
    <3>3. Members(sys'.box[SleepLock].senders) \subseteq At({"sleepAdd", "clockScan"})'
      <4>1. sys' = sys /\ me \notin Members(sys.box[SleepLock].senders)
        BY <1>6, <2>1, BoxesOfDrivers DEF ClockNext, OnTurn
      <4> QED
        BY <2>3, <4>1 DEF DriversInv, SleepOK, At, TypesOK, Moves
    <3> QED
      BY <3>1, <3>2, <3>3 DEF SleepOK
  <2> QED
    BY <1>6, <2>1, <2>2, <2>3, <2>5, <2>6, <2>7, BoxesApart, StepKeeps
    DEF ClockNext, MutexPlaces, NoBox
<1>7. CASE ClockDone
  <2>1. OnTurn(me) /\ me # IDLE /\ pc[me] = "clockWalk"
    BY <1>7, RunsAt DEF ClockDone
  <2>2. /\ SysOK' /\ OnlyBox(SleepLock)
        /\ SameButBox(sys', sys, SleepLock, ReceivedBox(sys.box[SleepLock], me))
    BY <1>7, <2>1, Receives, BoxesOfDrivers DEF ClockDone, DriversInv
  <2>3. Moves(me, "clockLoop") /\ GoesOn(me) /\ ProgramGoesOn(me, "clockLoop")
    BY <1>7 DEF ClockDone, Then, Moves, Positions, GoesOn, ProgramGoesOn, ProgramFor, UserPlaces
  <2>4. TypesOK' /\ HasHead'
    BY <1>7, <2>1, <2>3, TypesKept, HeadKept DEF ClockDone, DriversInv
  <2>5. SleepOK'
    BY <1>7, <2>1, <2>2, <2>3, SleepLeft DEF ClockDone, DriversInv, SleepPlaces
  <2> QED
    BY <1>7, <2>1, <2>2, <2>3, <2>4, <2>5, BoxesApart, StepKeeps DEF ClockDone, MutexPlaces
<1> QED
  BY <1>1, <1>2, <1>3, <1>4, <1>5, <1>6, <1>7 DEF ClockDriver

-----------------------------------------------------------------------------
(***************************************************************************)
(* The steps of the disk drivers.                                          *)
(***************************************************************************)
\* A step, of whatever part.
LEMMA AnyStepKeeps ==
    ASSUME DriversInv, NEW p, OnTurn(p), NEW x, Moves(p, x), GoesOn(p),
           sys'.next = sys.next, UNCHANGED <<test, prog>>, ProgramGoesOn(p, x),
           TypesOK', SysOK', HasHead', SleepOK', MutexOK', DevicesOK'
    PROVE  DriversInv'
BY UnforkedKept, ProgramsKept DEF DriversInv

\* Whoever has the mutex uses a device and waits for it.
LEMMA DeviceUsed ==
    ASSUME DriversInv, NEW p, OnTurn(p), NEW x \in DevicePlaces, Moves(p, x),
           pc[p] \in MutexPlaces \ DevicePlaces, me # IDLE,
           NEW u \in Units, NEW request, Output(u, request), sys' = Received(sys, Device(u))
    PROVE  SysOK' /\ OnlyBox(Device(u)) /\ MutexOK' /\ DevicesOK' /\ DOMAIN device' = Units
<1>1. /\ SysOK' /\ OnlyBox(Device(u))
      /\ SameButBox(sys', sys, Device(u), ReceivedBox(sys.box[Device(u)], me))
  BY Receives, BoxesOfDrivers DEF DriversInv
<1>2. MutexOK'
  BY <1>1, LockKept, BoxesOfDrivers, BoxesApart
  DEF DriversInv, MutexOK, MutexPlaces, DevicePlaces
<1>3. DOMAIN device' = Units /\ \A v \in Units : v # u => device'[v] = device[v]
  BY DEF Output, DriversInv, TypesOK
<1>4. ASSUME NEW v \in Units, v # u PROVE DeviceOK(v)'
  <2>1. Device(v) \in Boxes /\ Device(v) # Device(u)
    BY <1>4, BoxesOfDrivers, BoxesApart
  <2>2. sys'.box[Device(v)] = sys.box[Device(v)] /\ p \notin Members(sys.box[Device(v)].receivers)
    BY <1>1, <2>1 DEF OnlyBox, OnTurn
  <2>3. DeviceOK(v) /\ device'[v] = device[v]
    BY <1>3, <1>4 DEF DriversInv, DevicesOK
  <2>4. ASSUME NEW q \in Members(sys.box[Device(v)].receivers) PROVE q \in At(DevicePlaces)'
    BY <2>2, <2>3, <2>4 DEF DriversInv, TypesOK, Moves, At, DeviceOK
  <2> QED
    BY <2>2, <2>3, <2>4 DEF DeviceOK
<1>5. DeviceOK(u)'
  <2> DEFINE old == sys.box[Device(u)]
             new == ReceivedBox(old, me)
  <2>1. old \in BoxRec /\ me \in Pids /\ sys.box \in [Boxes -> BoxRec]
    BY BoxesOfDrivers DEF DriversInv, SysOK, MachineOK, Machines, me
  <2>2. sys'.box[Device(u)] = new
    BY <1>1, <2>1, BoxesOfDrivers DEF SameButBox
  <2>3. /\ old.slots = 1 /\ old.held = 0 /\ old.senders = <<>>
        /\ Members(old.receivers) \subseteq At(DevicePlaces)
    BY DEF DriversInv, DevicesOK, DeviceOK
  <2> HIDE DEF old
  <2>4. /\ new.slots = 1 /\ new.held = 0 /\ new.senders = <<>>
        /\ new.receivers = Append(old.receivers, me)
    BY <2>1, <2>3, ReceivedBoxIs
  <2> HIDE DEF new
  <2>5. old.receivers \in Seq(Pids)
    BY <2>1 DEF BoxRec
  <2>6. Members(new.receivers) = Members(old.receivers) \cup {me} /\ new.receivers # <<>>
    BY <2>1, <2>4, <2>5, AppendMembers
  <2>7. At(DevicePlaces) \cup {me} \subseteq At(DevicePlaces)'
    BY DEF DriversInv, TypesOK, OnTurn, Moves, At
  <2>8. Members(new.receivers) \subseteq At(DevicePlaces)'
    BY <2>3, <2>6, <2>7
  <2> QED
    BY <2>2, <2>4, <2>6, <2>8 DEF DeviceOK
<1>6. DevicesOK'
  BY <1>4, <1>5 DEF DevicesOK
<1> QED
  BY <1>1, <1>2, <1>3, <1>6

\* The mutex is asked for, or given back.
LEMMA MutexTaken ==
    ASSUME DriversInv, NEW p, OnTurn(p), NEW x \in MutexPlaces, Moves(p, x),
           pc[p] \notin MutexPlaces, me # IDLE, sys' = Sent(sys, MUTEX), UNCHANGED device
    PROVE  SysOK' /\ OnlyBox(MUTEX) /\ MutexOK' /\ DevicesOK'
<1>1. SysOK' /\ OnlyBox(MUTEX) /\ SameButBox(sys', sys, MUTEX, SentBox(sys.box[MUTEX], me))
  BY Sends, BoxesOfDrivers DEF DriversInv
<1>2. MutexOK'
  BY <1>1, LockIsTaken, BoxesOfDrivers DEF DriversInv, MutexOK
<1>3. DevicesOK'
  BY <1>1, DevicesKept, BoxesApart DEF DriversInv
<1> QED
  BY <1>1, <1>2, <1>3

LEMMA MutexLeft ==
    ASSUME DriversInv, NEW p, OnTurn(p), NEW x, x \notin MutexPlaces, Moves(p, x),
           pc[p] \in MutexPlaces, me # IDLE, sys' = Received(sys, MUTEX), UNCHANGED device
    PROVE  SysOK' /\ OnlyBox(MUTEX) /\ MutexOK' /\ DevicesOK'
<1>1. SysOK' /\ OnlyBox(MUTEX) /\ SameButBox(sys', sys, MUTEX, ReceivedBox(sys.box[MUTEX], me))
  BY Receives, BoxesOfDrivers DEF DriversInv
<1>2. MutexOK'
  BY <1>1, LockIsLeft, BoxesOfDrivers DEF DriversInv, MutexOK
<1>3. DevicesOK'
  BY <1>1, DevicesKept, BoxesApart DEF DriversInv
<1> QED
  BY <1>1, <1>2, <1>3

LEMMA DiskRunsAt ==
    ASSUME DriversInv, NEW u \in Units, NEW where, DiskRuns(u, where)
    PROVE  /\ OnTurn(me) /\ me # IDLE /\ me \in Pids /\ pc[me] = where /\ ProgramFor(me, where)
           /\ me = Disk(u) /\ \A v \in Units : me = Disk(v) => v = u
<1>1. me = Disk(u) /\ me # IDLE /\ pc[me] = where
  BY PidsOfStart3 DEF DiskRuns
<1>2. \A v \in Units : Disk(v) = Disk(u) => v = u
  BY DEF Units, Disk
<1> QED
  BY <1>1, <1>2, RunsAt DEF Runs

\* Places of the disk drivers, where no program is.
DriverPlaces ==
    {"gone", "diskLoop", "diskWoken", "diskSeek", "diskSeekDone", "diskSector", "diskTransfer",
     "diskTransferred", "diskUnlink", "diskNotify", "diskNotified"}

LEMMA DriverMoves ==
    ASSUME NEW x \in DriverPlaces, Then(x), UNCHANGED line
    PROVE  Moves(me, x) /\ GoesOn(me) /\ ProgramGoesOn(me, x)
BY DEF DriverPlaces, Then, Moves, Positions, GoesOn, ProgramGoesOn, ProgramFor, UserPlaces

\* A step of a disk driver that has nothing to do with the mutex.
LEMMA DriverStepKeeps ==
    ASSUME DriversInv, NEW u \in Units, OnTurn(me), me = Disk(u),
           pc[me] \in DriverPlaces \ MutexPlaces,
           NEW x \in DriverPlaces \ MutexPlaces, Then(x), UNCHANGED <<test, prog, line, device, ptr>>,
           NEW b, Apart(b), b # SleepLock, OnlyBox(b), TypesOK', SysOK', HasHead'
    PROVE  DriversInv'
<1>1. Moves(me, x) /\ GoesOn(me) /\ ProgramGoesOn(me, x)
  BY DriverMoves
<1>2. SleepOK'
  BY <1>1, SleepKept DEF DriversInv, SleepPlaces, DriverPlaces
<1> QED
  BY <1>1, <1>2, StepKeeps

LEMMA DiskDriverKeeps ==
    ASSUME DriversInv, NEW u \in Units, DiskDriver(u)
    PROVE  DriversInv'
<1> USE DEF sleepVars, diskVars, userVars
<1>1. CASE DiskWait(u)
  <2>1. OnTurn(me) /\ me # IDLE /\ pc[me] = "diskLoop" /\ me = Disk(u)
    BY <1>1, DiskRunsAt DEF DiskWait
  <2>2. CASE IsZapped(sys)
    BY <1>1, <2>1, <2>2, QuitsKeep DEF DiskWait, MutexPlaces, SleepPlaces
  <2>3. CASE ~IsZapped(sys)
    <3>1. sys' = Received(sys, Door(u)) /\ Then("diskWoken")
      BY <1>1, <2>3 DEF DiskWait
    <3>2. SysOK' /\ OnlyBox(Door(u))
      BY <2>1, <3>1, Receives, BoxesOfDrivers DEF DriversInv
    <3>3. Moves(me, "diskWoken") /\ GoesOn(me) /\ ProgramGoesOn(me, "diskWoken")
      BY <1>1, <3>1, DriverMoves DEF DiskWait, DriverPlaces
    <3> QED
      BY <1>1, <2>1, <3>2, <3>3, BoxesApart, PlainKeeps
      DEF DiskWait, MutexPlaces, ServingPlaces, SleepPlaces
  <2> QED
    BY <2>2, <2>3
<1>2. CASE DiskTake(u)
  <2>1. OnTurn(me) /\ me # IDLE /\ pc[me] \in {"diskWoken", "diskNotified"} /\ me = Disk(u)
    BY <1>2, DiskRunsAt DEF DiskTake
  <2>2. CASE pc[me] = "diskWoken" /\ IsZapped(sys)
    BY <1>2, <2>1, <2>2, QuitsKeep DEF DiskTake, MutexPlaces, SleepPlaces
  <2>3. CASE ~(pc[me] = "diskWoken" /\ IsZapped(sys)) /\ diskQ[u] = NULL
    <3>1. sys' = sys /\ Then("diskLoop") /\ UNCHANGED job
      BY <1>2, <2>3 DEF DiskTake
    <3>2. SysOK' /\ OnlyBox(NoBox)
      BY <2>1, <3>1, KinOnly DEF DriversInv
    <3>3. Moves(me, "diskLoop") /\ GoesOn(me) /\ ProgramGoesOn(me, "diskLoop")
      BY <1>2, <3>1, DriverMoves DEF DiskTake, DriverPlaces
    <3> QED
      BY <1>2, <2>1, <3>1, <3>2, <3>3, BoxesApart, PlainKeeps
      DEF DiskTake, MutexPlaces, ServingPlaces, SleepPlaces, NoBox
  <2>4. CASE ~(pc[me] = "diskWoken" /\ IsZapped(sys)) /\ diskQ[u] # NULL
    <3> DEFINE e == processTable[diskQ[u]]
               j == [owner |-> e.pid, op |-> e.operation, track |-> e.track,
                     sector |-> e.first, sectors |-> e.sectors, done |-> 0, data |-> e.buffer]
    <3>1. job' = [job EXCEPT ![u] = j] /\ TakeMutex("diskSeek")
      BY <1>2, <2>4 DEF DiskTake
    <3>2. job' \in [Units -> JobRec]
      <4>1. e \in ProcRec
        BY <2>4 DEF DriversInv, TypesOK, Pointers
      <4> HIDE DEF e
      <4>2. j \in JobRec
        BY <4>1 DEF ProcRec, JobRec
      <4> HIDE DEF j
      <4> QED
        BY <3>1, <4>2 DEF DriversInv, TypesOK
    <3>3. Moves(me, "diskSeek") /\ GoesOn(me) /\ ProgramGoesOn(me, "diskSeek")
      BY <1>2, <3>1, DriverMoves DEF DiskTake, TakeMutex, DriverPlaces
    <3>4. SysOK' /\ OnlyBox(MUTEX) /\ MutexOK' /\ DevicesOK'
      BY <1>2, <2>1, <3>1, <3>3, MutexTaken DEF DiskTake, TakeMutex, MutexPlaces
    <3>5. TypesOK'
      BY <1>2, <3>2, <3>3 DEF DiskTake, DriversInv, TypesOK, Moves, ProgNames, Test
    <3>6. HasHead'
      BY <1>2, <2>1, <2>4, <3>3, HeadKept, DiskRunsAt DEF DiskTake, DriversInv
    <3>7. SleepOK'
      BY <1>2, <2>1, <3>3, <3>4, SleepKept, BoxesApart DEF DiskTake, DriversInv, SleepPlaces
    <3> QED
      BY <1>2, <2>1, <3>3, <3>4, <3>5, <3>6, <3>7, AnyStepKeeps DEF DiskTake, OnlyBox
  <2> QED
    BY <2>2, <2>3, <2>4
<1>3. CASE DiskSeek(u)
  <2>1. OnTurn(me) /\ me # IDLE /\ pc[me] = "diskSeek" /\ me = Disk(u)
        /\ \A v \in Units : me = Disk(v) => v = u
    BY <1>3, DiskRunsAt DEF DiskSeek
  <2>2. Moves(me, "diskSeekDone") /\ GoesOn(me) /\ ProgramGoesOn(me, "diskSeekDone")
    BY <1>3, DriverMoves DEF DiskSeek, DriverPlaces
  <2>3. SysOK' /\ OnlyBox(Device(u)) /\ MutexOK' /\ DevicesOK' /\ DOMAIN device' = Units
    BY <1>3, <2>1, <2>2, DeviceUsed DEF DiskSeek, MutexPlaces, DevicePlaces
  <2>4. TypesOK'
    BY <1>3, <2>2, <2>3 DEF DiskSeek, DriversInv, TypesOK, Moves, ProgNames, Test
  <2>5. HasHead'
    BY <1>3, <2>1, <2>2, HeadKept DEF DiskSeek, DriversInv, HasHead, Serving
  <2>6. SleepOK'
    BY <1>3, <2>1, <2>2, <2>3, SleepKept, BoxesApart DEF DiskSeek, DriversInv, SleepPlaces
  <2> QED
    BY <1>3, <2>1, <2>2, <2>3, <2>4, <2>5, <2>6, AnyStepKeeps DEF DiskSeek, OnlyBox
<1>4. CASE DiskSeekDone(u)
  <2>1. OnTurn(me) /\ me # IDLE /\ pc[me] = "diskSeekDone" /\ me = Disk(u)
        /\ \A v \in Units : me = Disk(v) => v = u
    BY <1>4, DiskRunsAt DEF DiskSeekDone
  <2>2. Moves(me, "diskSector") /\ GoesOn(me) /\ ProgramGoesOn(me, "diskSector")
    BY <1>4, DriverMoves DEF DiskSeekDone, DriverPlaces
  <2>3. SysOK' /\ OnlyBox(MUTEX) /\ MutexOK' /\ DevicesOK'
    BY <1>4, <2>1, <2>2, MutexLeft DEF DiskSeekDone, MutexPlaces
  <2>4. TypesOK'
    BY <1>4, <2>1, <2>2, TypesKept DEF DiskSeekDone, DriversInv
  <2>5. HasHead'
    BY <1>4, <2>1, <2>2, HeadKept DEF DiskSeekDone, DriversInv, HasHead, Serving
  <2>6. SleepOK'
    BY <1>4, <2>1, <2>2, <2>3, SleepKept, BoxesApart DEF DiskSeekDone, DriversInv, SleepPlaces
  <2> QED
    BY <1>4, <2>1, <2>2, <2>3, <2>4, <2>5, <2>6, AnyStepKeeps DEF DiskSeekDone, OnlyBox
<1>5. CASE DiskSector(u)
  <2>1. OnTurn(me) /\ me # IDLE /\ pc[me] = "diskSector" /\ me = Disk(u)
        /\ \A v \in Units : me = Disk(v) => v = u
    BY <1>5, DiskRunsAt DEF DiskSector
  <2>2. diskQ[u] # NULL
    BY <2>1 DEF DriversInv, HasHead, Serving
  <2>3. CASE job[u].done = job[u].sectors
    <3>1. sys' = Sent(sys, QueueLock(u)) /\ Then("diskUnlink") /\ UNCHANGED job
      BY <1>5, <2>3 DEF DiskSector
    <3>2. Moves(me, "diskUnlink") /\ GoesOn(me) /\ ProgramGoesOn(me, "diskUnlink")
      BY <1>5, <3>1, DriverMoves DEF DiskSector, DriverPlaces
    <3>3. SysOK' /\ OnlyBox(QueueLock(u))
      BY <2>1, <3>1, Sends, BoxesOfDrivers DEF DriversInv
    <3>4. TypesOK'
      BY <1>5, <2>1, <3>1, <3>2, TypesKept DEF DiskSector, DriversInv
    <3>5. HasHead'
      BY <1>5, <2>1, <2>2, <3>2, HeadKept DEF DiskSector, DriversInv
    <3> QED
      BY <1>5, <2>1, <3>1, <3>3, <3>4, <3>5, DriverStepKeeps, BoxesApart
      DEF DiskSector, DriverPlaces, MutexPlaces
  <2>4. CASE job[u].done # job[u].sectors
    <3>1. PICK x \in {"diskSeek", "diskTransfer"} : TakeMutex(x)
      BY <1>5, <2>4 DEF DiskSector
    <3>2. job' \in [Units -> JobRec]
      <4>1. job \in [Units -> JobRec] /\ job[u].track \in Int
        BY DEF DriversInv, TypesOK, JobRec
      <4>2. NextTrack(u) \in [Units -> JobRec]
        <5> DEFINE j == [job[u] EXCEPT !.track = job[u].track + 1]
                   k == [j EXCEPT !.sector = 0]
                   up == [job EXCEPT ![u] = j]
        <5>1. job[u] \in JobRec
          BY <4>1
        <5>2. j \in JobRec
          BY <4>1, <5>1 DEF JobRec
        <5>3. NextTrack(u) = [up EXCEPT ![u] = [up[u] EXCEPT !.sector = 0]]
          BY DEF NextTrack
        <5> HIDE DEF j
        <5>4. up[u] = j /\ k \in JobRec
          BY <4>1, <5>2 DEF JobRec
        <5>5. NextTrack(u) = [up EXCEPT ![u] = k]
          BY <5>3, <5>4
        <5> HIDE DEF k
        <5>6. up \in [Units -> JobRec]
          BY <4>1, <5>2
        <5> HIDE DEF up
        <5> QED
          BY <5>4, <5>5, <5>6
      <4> QED
        BY <1>5, <2>4, <4>1, <4>2 DEF DiskSector
    <3>3. Moves(me, x) /\ GoesOn(me) /\ ProgramGoesOn(me, x)
      BY <1>5, <3>1, DriverMoves DEF DiskSector, TakeMutex, DriverPlaces
    <3>4. SysOK' /\ OnlyBox(MUTEX) /\ MutexOK' /\ DevicesOK'
      BY <1>5, <2>1, <3>1, <3>3, MutexTaken DEF DiskSector, TakeMutex, MutexPlaces
    <3>5. TypesOK'
      BY <1>5, <3>2, <3>3 DEF DiskSector, DriversInv, TypesOK, Moves, ProgNames, Test
    <3>6. HasHead'
      BY <1>5, <2>1, <2>2, <3>3, HeadKept DEF DiskSector, DriversInv
    <3>7. SleepOK'
      BY <1>5, <2>1, <3>3, <3>4, SleepKept, BoxesApart DEF DiskSector, DriversInv, SleepPlaces
    <3> QED
      BY <1>5, <2>1, <3>3, <3>4, <3>5, <3>6, <3>7, AnyStepKeeps DEF DiskSector, OnlyBox
  <2> QED
    BY <2>3, <2>4
<1>6. CASE DiskTransfer(u)
  <2>1. OnTurn(me) /\ me # IDLE /\ pc[me] = "diskTransfer" /\ me = Disk(u)
        /\ \A v \in Units : me = Disk(v) => v = u
    BY <1>6, DiskRunsAt DEF DiskTransfer
  <2>2. Moves(me, "diskTransferred") /\ GoesOn(me) /\ ProgramGoesOn(me, "diskTransferred")
    BY <1>6, DriverMoves DEF DiskTransfer, DriverPlaces
  <2>3. SysOK' /\ OnlyBox(Device(u)) /\ MutexOK' /\ DevicesOK' /\ DOMAIN device' = Units
    BY <1>6, <2>1, <2>2, DeviceUsed DEF DiskTransfer, MutexPlaces, DevicePlaces
  <2>4. TypesOK'
    BY <1>6, <2>2, <2>3 DEF DiskTransfer, DriversInv, TypesOK, Moves, ProgNames, Test
  <2>5. HasHead'
    BY <1>6, <2>1, <2>2, HeadKept DEF DiskTransfer, DriversInv, HasHead, Serving
  <2>6. SleepOK'
    BY <1>6, <2>1, <2>2, <2>3, SleepKept, BoxesApart DEF DiskTransfer, DriversInv, SleepPlaces
  <2> QED
    BY <1>6, <2>1, <2>2, <2>3, <2>4, <2>5, <2>6, AnyStepKeeps DEF DiskTransfer, OnlyBox
<1>7. CASE DiskTransferred(u)
  <2>1. OnTurn(me) /\ me # IDLE /\ pc[me] = "diskTransferred" /\ me = Disk(u)
        /\ \A v \in Units : me = Disk(v) => v = u
    BY <1>7, DiskRunsAt DEF DiskTransferred
  <2>2. Moves(me, "diskSector") /\ GoesOn(me) /\ ProgramGoesOn(me, "diskSector")
    BY <1>7, DriverMoves DEF DiskTransferred, DriverPlaces
  <2>3. SysOK' /\ OnlyBox(MUTEX) /\ MutexOK' /\ DevicesOK'
    BY <1>7, <2>1, <2>2, MutexLeft DEF DiskTransferred, MutexPlaces
  <2>4. TypesOK'
    <3>1. job' \in [Units -> JobRec]
      BY <1>7 DEF DiskTransferred, DriversInv, TypesOK, JobRec
    <3> QED
      BY <1>7, <2>2, <3>1 DEF DiskTransferred, DriversInv, TypesOK, Moves, ProgNames, Test
  <2>5. HasHead'
    BY <1>7, <2>1, <2>2, HeadKept DEF DiskTransferred, DriversInv, HasHead, Serving
  <2>6. SleepOK'
    BY <1>7, <2>1, <2>2, <2>3, SleepKept, BoxesApart DEF DiskTransferred, DriversInv, SleepPlaces
  <2> QED
    BY <1>7, <2>1, <2>2, <2>3, <2>4, <2>5, <2>6, AnyStepKeeps DEF DiskTransferred, OnlyBox
<1>8. CASE DiskUnlink(u)
  <2>1. OnTurn(me) /\ me # IDLE /\ pc[me] = "diskUnlink" /\ me = Disk(u)
        /\ \A v \in Units : me = Disk(v) => v = u
    BY <1>8, DiskRunsAt DEF DiskUnlink
  <2>2. diskQ[u] \in Slots
    BY <2>1 DEF DriversInv, HasHead, Serving, TypesOK, Pointers
  <2>3. Then("diskNotify") /\ sys' = Received(sys, QueueLock(u))
    BY <1>8 DEF DiskUnlink
  <2>4. SysOK' /\ OnlyBox(QueueLock(u))
    BY <2>1, <2>3, Receives, BoxesOfDrivers DEF DriversInv
  <2>5. Moves(me, "diskNotify")
    BY <1>8, DriverMoves DEF DiskUnlink, DriverPlaces
  <2>6. TypesOK'
    <3>1. diskQ' \in [Units -> Pointers] /\ processTable' \in [Slots -> ProcRec]
      <4>1. processTable \in [Slots -> ProcRec] /\ processTable[diskQ[u]] \in ProcRec
        BY <2>2 DEF DriversInv, TypesOK
      <4>2. NextRequest(u) \in Pointers /\ NULL \in Pointers
        BY <4>1 DEF NextRequest, ProcRec, Pointers
      <4>3. [processTable[diskQ[u]] EXCEPT !.nextDiskProc = NULL] \in ProcRec
        BY <4>1, <4>2 DEF ProcRec
      <4> DEFINE e == [processTable[diskQ[u]] EXCEPT !.nextDiskProc = NULL]
      <4>4. processTable' = [processTable EXCEPT ![diskQ[u]] = e]
        BY <1>8 DEF DiskUnlink
      <4> HIDE DEF e
      <4> QED
        BY <1>8, <4>1, <4>2, <4>3, <4>4 DEF DiskUnlink, DriversInv, TypesOK, e
    <3> QED
      BY <1>8, <2>5, <3>1 DEF DiskUnlink, DriversInv, TypesOK, Moves, ProgNames, Test
  <2>7. HasHead'
    <3>1. ASSUME NEW v \in Units, Serving(v)' PROVE diskQ'[v] # NULL
      <4>1. Disk(v) \in Pids /\ pc \in [Pids -> Positions]
        BY PidsOfStart3 DEF DriversInv, TypesOK
      <4>2. v # u
        BY <2>1, <2>5, <3>1, <4>1 DEF Serving, Moves
      <4>3. Serving(v) /\ diskQ'[v] = diskQ[v]
        BY <1>8, <2>1, <2>5, <3>1, <4>1, <4>2
        DEF Serving, Moves, DiskUnlink, DriversInv, TypesOK
      <4> QED
        BY <4>3 DEF DriversInv, HasHead
    <3> QED
      BY <3>1 DEF HasHead
  <2> QED
    BY <1>8, <2>1, <2>3, <2>4, <2>6, <2>7, DriverStepKeeps, BoxesApart
    DEF DiskUnlink, DriverPlaces, MutexPlaces
<1>9. CASE DiskNotify(u)
  <2>1. OnTurn(me) /\ me # IDLE /\ pc[me] = "diskNotify" /\ me = Disk(u)
    BY <1>9, DiskRunsAt DEF DiskNotify
  <2>2. Private(job[u].owner) \in Boxes
    BY SlotIs DEF DriversInv, TypesOK, JobRec
  <2>3. Then("diskNotified") /\ sys' = Sent(sys, Private(job[u].owner))
    BY <1>9 DEF DiskNotify
  <2>4. SysOK' /\ OnlyBox(Private(job[u].owner))
    BY <2>1, <2>2, <2>3, Sends DEF DriversInv
  <2>5. Moves(me, "diskNotified") /\ GoesOn(me) /\ ProgramGoesOn(me, "diskNotified")
    BY <1>9, DriverMoves DEF DiskNotify, DriverPlaces
  <2> QED
    BY <1>9, <2>1, <2>4, <2>5, BoxesApart, PlainKeeps
    DEF DiskNotify, MutexPlaces, ServingPlaces, SleepPlaces, Private
<1> QED
  BY <1>1, <1>2, <1>3, <1>4, <1>5, <1>6, <1>7, <1>8, <1>9 DEF DiskDriver

-----------------------------------------------------------------------------
(***************************************************************************)
(* The steps of the programs.                                              *)
(***************************************************************************)
\* Who makes a call runs a program, and the call is one that there is.
LEMMA MakesIt ==
    ASSUME DriversInv, NEW name, MakesCall(name)
    PROVE  /\ OnTurn(me) /\ me # IDLE /\ me \in Pids /\ pc[me] = "user"
           /\ prog[me] \in {"start3"} \cup DOMAIN Test.code
           /\ Call = CallAt(me) /\ Call.call = name /\ Inside(me, {name}) /\ CallOK(Call)
<1>1. /\ OnTurn(me) /\ me # IDLE /\ me \in Pids /\ pc[me] = "user" /\ ProgramFor(me, "user")
  BY RunsAt DEF MakesCall
<1>2. prog[me] \in {"start3"} \cup DOMAIN Test.code
  BY <1>1 DEF ProgramFor, UserPlaces
<1>3. Call = CallAt(me) /\ Call.call = name /\ Inside(me, {name})
  BY DEF MakesCall, Call, CallAt, Inside
<1>4. CallOK(Call)
  BY <1>1, <1>2, <1>3, CallsAreOK DEF DriversInv, MakesCall
<1> QED
  BY <1>1, <1>2, <1>3, <1>4

\* So is the call somebody is in.
LEMMA InCallIs ==
    ASSUME DriversInv, NEW where \in UserPlaces \ {"user"}, Runs(where)
    PROVE  /\ OnTurn(me) /\ me # IDLE /\ me \in Pids /\ pc[me] = where
           /\ prog[me] \in {"start3"} \cup DOMAIN Test.code
           /\ Call = CallAt(me) /\ CallOK(Call) /\ ProgramFor(me, where)
<1>1. /\ OnTurn(me) /\ me # IDLE /\ me \in Pids /\ pc[me] = where /\ ProgramFor(me, where)
  BY RunsAt
<1>2. prog[me] \in {"start3"} \cup DOMAIN Test.code /\ line[me] <= Len(Calls(prog[me]))
  BY <1>1 DEF ProgramFor, UserPlaces, Inside
<1>3. Call = CallAt(me)
  BY DEF Call, CallAt
<1>4. CallOK(Call)
  BY <1>1, <1>2, <1>3, CallsAreOK DEF DriversInv
<1> QED
  BY <1>1, <1>2, <1>3, <1>4

\* A call is over, and the program goes on to the next.
LEMMA CallEnds ==
    ASSUME me \in Pids, prog[me] \in {"start3"} \cup DOMAIN Test.code, CallIsOver, Then("user")
    PROVE  Moves(me, "user") /\ GoesOn(me) /\ ProgramGoesOn(me, "user")
BY DEF Then, Moves, Positions, GoesOn, CallIsOver, ProgramGoesOn

LEMMA CallEndsAtOnce ==
    ASSUME DriversInv, me \in Pids, prog[me] \in {"start3"} \cup DOMAIN Test.code, CallIsOver,
           pc[me] = "user", UNCHANGED pc
    PROVE  Moves(me, "user") /\ GoesOn(me) /\ ProgramGoesOn(me, "user")
<1>1. Then("user")
  BY DEF Then, DriversInv, TypesOK
<1> QED
  BY <1>1, CallEnds

\* A step that has nothing to do with the mutex, the devices and the sleepers.
LEMMA UserStepKeeps ==
    ASSUME DriversInv, OnTurn(me), NEW x, Moves(me, x), GoesOn(me), ProgramGoesOn(me, x),
           x \notin MutexPlaces \cup SleepPlaces, pc[me] \notin MutexPlaces \cup SleepPlaces,
           UNCHANGED <<test, prog, device, ptr>>,
           NEW b, Apart(b), b # SleepLock, OnlyBox(b), TypesOK', SysOK', HasHead'
    PROVE  DriversInv'
<1>1. SleepOK'
  BY SleepKept DEF DriversInv, SleepPlaces
<1> QED
  BY <1>1, StepKeeps

LEMMA SpawnKeeps ==
    ASSUME DriversInv, UserSpawn
    PROVE  DriversInv'
<1> USE DEF sleepVars, diskVars, userVars
<1> DEFINE child == NextPid(sys)
           f == Call.f
           start == CASE f = "ClockDriver" -> "ClockDriver"
                      [] f \in {"DiskDriver0", "DiskDriver1"} -> "diskLoop"
                      [] OTHER -> "user"
<1>1. /\ OnTurn(me) /\ me # IDLE /\ me \in Pids /\ pc[me] = "user"
      /\ prog[me] \in {"start3"} \cup DOMAIN Test.code
      /\ Call.call = "Spawn" /\ CallOK(Call)
  BY MakesIt DEF UserSpawn
<1>2. f \in ProgNames /\ Call.prio \in Int
  BY <1>1 DEF CallOK
<1>3. /\ CanFork(sys) /\ sys' = Forked(sys, Call.prio)
      /\ prog' = [prog EXCEPT ![child] = f] /\ pc' = [pc EXCEPT ![child] = start]
      /\ line' = [line EXCEPT ![me] = @ + 1]
      /\ UNCHANGED <<test, processTable, sleepQ, ptr, currTime, now, diskQ, job, device, arm,
                     store, buffer, statuses>>
  BY DEF UserSpawn, CallIsOver
<1>4. child \in Pids /\ ~(child < sys.next) /\ child # me
  <2>1. child \in Pids /\ ~(child < sys.next)
    BY <1>3, NextPidIs DEF DriversInv, SysOK, MachineOK
  <2> HIDE DEF child
  <2> QED
    BY <2>1, <1>1 DEF OnTurn
<1>5. start \in {"ClockDriver", "diskLoop", "user"}
      /\ (start = "user" => f \in {"start3"} \cup DOMAIN Test.code)
  BY <1>2 DEF ProgNames
<1>6. SysOK' /\ sys'.box = sys.box /\ sys'.next = child + 1
  <2> DEFINE prio == Call.prio
  <2>1. prio \in Int /\ sys' = Forked(sys, prio) /\ CanFork(sys)
    BY <1>2, <1>3
  <2> HIDE DEF prio
  <2>2. MachineOK(sys, Boxes, {"running"})
    BY DEF DriversInv, SysOK
  <2>3. MachineOK(sys', Boxes, {"running"}) /\ Grown(sys', sys, child)
    BY <2>1, <2>2, ForkedKeeps
  <2> HIDE DEF child
  <2> QED
    BY <2>3 DEF SysOK, Grown
<1> HIDE DEF start, child, f
<1>7. pc[child] = "user" /\ pc' \in [Pids -> Positions]
      /\ \A q \in Pids : q # child => pc'[q] = pc[q] /\ prog'[q] = prog[q]
  BY <1>3, <1>4, <1>5 DEF DriversInv, TypesOK, Unforked, Positions
<1>8. pc'[child] = start /\ prog'[child] = f
  BY <1>3, <1>4 DEF DriversInv, TypesOK
<1>9. TypesOK'
  <2>1. prog' \in [Pids -> ProgNames]'
    BY <1>2, <1>3, <1>4 DEF DriversInv, TypesOK, ProgNames, Test
  <2>2. line' \in [Pids -> Nat \ {0}]
    BY <1>1, <1>3 DEF DriversInv, TypesOK
  <2> QED
    BY <1>3, <1>7, <2>1, <2>2 DEF DriversInv, TypesOK
<1>10. Unforked'
  <2>1. ASSUME NEW q \in Pids, ~(q < child + 1) PROVE pc'[q] = "user" /\ line'[q] = 1
    <3>1. q \in Nat /\ child \in Nat /\ sys.next \in Nat
      BY <1>4, PidsOfStart3 DEF DriversInv, SysOK, MachineOK, Machines
    <3>2. ~(q < sys.next) /\ q # child /\ q # me
      BY <1>1, <1>4, <2>1, <3>1 DEF OnTurn
    <3> QED
      BY <1>3, <1>7, <3>2 DEF DriversInv, Unforked, TypesOK
  <2> QED
    BY <1>6, <2>1 DEF Unforked
<1>11. Programs'
  <2>1. ASSUME NEW q \in Pids PROVE ProgramFor(q, pc[q])'
    <3>1. CASE q = child
      BY <3>1, <1>3, <1>5, <1>8 DEF ProgramFor, UserPlaces, Test
    <3>2. CASE q = me
      <4>1. pc'[q] = "user" /\ prog'[q] = prog[q] /\ test' = test
        BY <1>1, <1>3, <1>4, <1>7, <3>2
      <4> QED
        BY <1>1, <3>2, <4>1 DEF ProgramFor, Test
    <3>3. CASE q # child /\ q # me
      <4>1. pc'[q] = pc[q] /\ prog'[q] = prog[q] /\ line'[q] = line[q] /\ test' = test
        BY <1>3, <1>7, <3>3 DEF DriversInv, TypesOK
      <4>2. ProgramFor(q, pc[q])
        BY DEF DriversInv, Programs
      <4> QED
        BY <4>1, <4>2 DEF ProgramFor, Inside, CallAt, Calls, Test
    <3> QED
      BY <3>1, <3>2, <3>3
  <2> QED
    BY <2>1 DEF Programs
<1>12. HasHead'
  <2>1. ASSUME NEW u \in Units, Serving(u)' PROVE diskQ'[u] # NULL
    <3>1. Disk(u) \in Pids
      BY PidsOfStart3
    <3>2. Serving(u)
      BY <1>5, <1>7, <1>8, <2>1, <3>1 DEF Serving
    <3> QED
      BY <1>3, <3>2 DEF DriversInv, HasHead
  <2> QED
    BY <2>1 DEF HasHead
<1>13. \A places : places \cap {"ClockDriver", "diskLoop", "user"} = {} => At(places)' = At(places)
  BY <1>4, <1>5, <1>7, <1>8 DEF At
<1>14. MutexOK'
  <2>1. At(MutexPlaces)' = At(MutexPlaces)
    BY <1>13 DEF MutexPlaces
  <2> QED
    BY <1>6, <2>1 DEF DriversInv, MutexOK, LockOK
<1>15. SleepOK'
  <2>1. At(SleepPlaces)' = At(SleepPlaces)
        /\ At({"sleepAdd", "clockScan"})' = At({"sleepAdd", "clockScan"})
    BY <1>13 DEF SleepPlaces
  <2>2. \A q \in Pids : pc'[q] = "clockNext" => pc[q] = "clockNext"
    BY <1>5, <1>7, <1>8
  <2> QED
    BY <1>3, <1>6, <2>1, <2>2 DEF DriversInv, SleepOK, LockOK
<1>16. DevicesOK'
  <2>1. At(DevicePlaces)' = At(DevicePlaces)
    BY <1>13 DEF DevicePlaces
  <2> QED
    BY <1>3, <1>6, <2>1 DEF DriversInv, DevicesOK, DeviceOK
<1> QED
  BY <1>6, <1>9, <1>10, <1>11, <1>12, <1>14, <1>15, <1>16 DEF DriversInv

\* The calls that are those of phases 1 and 3.
LEMMA KernelCallsKeep ==
    ASSUME DriversInv, UserWait \/ UserWaited \/ UserTerminate \/ UserCallsPhase1
    PROVE  DriversInv'
<1> USE DEF sleepVars, diskVars, userVars
<1>1. CASE UserWait
  <2>1. OnTurn(me) /\ me # IDLE /\ pc[me] = "user" /\ Inside(me, {"Wait"})
        /\ prog[me] \in {"start3"} \cup DOMAIN Test.code
    BY <1>1, MakesIt DEF UserWait
  <2>2. SysOK' /\ OnlyBox(NoBox)
    BY <1>1, <2>1, KinOnly DEF UserWait, DriversInv
  <2>3. Moves(me, "waited") /\ GoesOn(me) /\ ProgramGoesOn(me, "waited")
    BY <1>1, <2>1 DEF UserWait, Then, Moves, Positions, GoesOn, ProgramGoesOn, ProgramFor
  <2> QED
    BY <1>1, <2>1, <2>2, <2>3, BoxesApart, PlainKeeps
    DEF UserWait, MutexPlaces, ServingPlaces, SleepPlaces, NoBox
<1>2. CASE UserWaited
  <2>1. OnTurn(me) /\ me # IDLE /\ me \in Pids /\ pc[me] = "waited"
        /\ prog[me] \in {"start3"} \cup DOMAIN Test.code
    BY <1>2, InCallIs DEF UserWaited, UserPlaces
  <2>2. SysOK' /\ OnlyBox(NoBox)
    BY <1>2, <2>1, KinOnly DEF UserWaited, DriversInv
  <2>3. Moves(me, "user") /\ GoesOn(me) /\ ProgramGoesOn(me, "user")
    BY <1>2, <2>1, CallEnds DEF UserWaited
  <2> QED
    BY <1>2, <2>1, <2>2, <2>3, BoxesApart, PlainKeeps
    DEF UserWaited, MutexPlaces, ServingPlaces, SleepPlaces, NoBox
<1>3. CASE UserTerminate
  <2>1. OnTurn(me) /\ me # IDLE /\ pc[me] = "user" /\ Call.call = "Terminate" /\ CallOK(Call)
    BY <1>3, MakesIt DEF UserTerminate
  <2>2. Call.status \in Int
    BY <2>1 DEF CallOK
  <2>3. Then("gone") /\ sys' = Quit(sys, Call.status)
    BY <1>3 DEF UserTerminate
  <2> DEFINE status == Call.status
  <2>4. status \in Int /\ sys' = Quit(sys, status)
    BY <2>2, <2>3
  <2> HIDE DEF status
  <2> QED
    BY <1>3, <2>1, <2>3, <2>4, QuitsKeep DEF UserTerminate, MutexPlaces, SleepPlaces
<1>4. CASE UserCallsPhase1
  <2>1. /\ OnTurn(me) /\ me # IDLE /\ me \in Pids /\ pc[me] = "user" /\ CallOK(Call)
        /\ prog[me] \in {"start3"} \cup DOMAIN Test.code
    BY <1>4, MakesIt DEF UserCallsPhase1
  <2>2. Moves(me, "user") /\ GoesOn(me) /\ ProgramGoesOn(me, "user")
    <3>1. CallIsOver /\ pc' = pc
      BY <1>4 DEF UserCallsPhase1
    <3> QED
      BY <2>1, <3>1, CallEndsAtOnce
  <2>3. CASE MakesCall("Ring") /\ sys' = Sent(sys, Door(Call.unit))
    <3>1. Call.unit \in Units
      BY <2>1, <2>3 DEF MakesCall, CallOK
    <3>2. SysOK' /\ OnlyBox(Door(Call.unit))
      BY <2>1, <2>3, <3>1, Sends, BoxesOfDrivers DEF DriversInv
    <3> QED
      BY <1>4, <2>1, <2>2, <3>1, <3>2, BoxesApart, PlainKeeps
      DEF UserCallsPhase1, MutexPlaces, ServingPlaces, SleepPlaces
  <2>4. CASE \/ MakesCall("SemP") /\ sys' = SemPed(sys, Call.sem)
             \/ MakesCall("Zap") /\ sys' = Zapped(sys, Call.pid)
    <3>1. SysOK' /\ OnlyBox(NoBox)
      <4>1. CASE MakesCall("SemP") /\ sys' = SemPed(sys, Call.sem)
        <5>1. sys' = SemPed(sys, "running")
          BY <2>1, <4>1 DEF MakesCall, CallOK
        <5> QED
          BY <2>1, <5>1, KinOnly DEF DriversInv
      <4>2. CASE MakesCall("Zap") /\ sys' = Zapped(sys, Call.pid)
        <5>1. Call.pid \in Pids
          BY <2>1, <4>2 DEF MakesCall, CallOK
        <5> QED
          BY <2>1, <4>2, <5>1, KinOnly DEF DriversInv
      <4> QED
        BY <2>4, <4>1, <4>2
    <3> QED
      BY <1>4, <2>1, <2>2, <3>1, BoxesApart, PlainKeeps
      DEF UserCallsPhase1, MutexPlaces, ServingPlaces, SleepPlaces, NoBox
  <2> QED
    BY <1>4, <2>3, <2>4 DEF UserCallsPhase1
<1> QED
  BY <1>1, <1>2, <1>3, <1>4

LEMMA SleepCallsKeep ==
    ASSUME DriversInv, SleepCall \/ SleepAdd
    PROVE  DriversInv'
<1> USE DEF sleepVars, diskVars, userVars
<1>1. CASE SleepCall
  <2>1. /\ OnTurn(me) /\ me # IDLE /\ me \in Pids /\ pc[me] = "user" /\ CallOK(Call)
        /\ prog[me] \in {"start3"} \cup DOMAIN Test.code /\ Call.call = "Sleep"
        /\ Inside(me, {"Sleep"})
    BY <1>1, MakesIt DEF SleepCall
  <2>2. CASE Call.seconds < 0
    <3>1. CallIsOver /\ UNCHANGED <<sys, pc, processTable>>
      BY <1>1, <2>2 DEF SleepCall
    <3>2. SysOK' /\ OnlyBox(NoBox)
      BY <2>1, <3>1, KinOnly DEF DriversInv
    <3>3. Moves(me, "user") /\ GoesOn(me) /\ ProgramGoesOn(me, "user")
      BY <2>1, <3>1, CallEndsAtOnce
    <3> QED
      BY <1>1, <2>1, <3>1, <3>2, <3>3, BoxesApart, PlainKeeps
      DEF SleepCall, MutexPlaces, ServingPlaces, SleepPlaces, NoBox
  <2>3. CASE ~(Call.seconds < 0)
    <3> DEFINE s == Slot(me)
               end == Int32(now + Call.seconds)
               e == [processTable[s] EXCEPT !.pid = me, !.startTime = now, !.sleepEndTime = end]
    <3>1. /\ processTable' = [processTable EXCEPT ![s].pid = me, ![s].startTime = now,
                                                  ![s].sleepEndTime = end]
          /\ sys' = Sent(sys, SleepLock) /\ Then("sleepAdd") /\ UNCHANGED line
      BY <1>1, <2>3 DEF SleepCall
    <3>2. /\ SysOK' /\ OnlyBox(SleepLock)
          /\ SameButBox(sys', sys, SleepLock, SentBox(sys.box[SleepLock], me))
      BY <2>1, <3>1, Sends, BoxesOfDrivers DEF DriversInv
    <3>3. Moves(me, "sleepAdd") /\ GoesOn(me) /\ ProgramGoesOn(me, "sleepAdd")
      BY <1>1, <2>1, <3>1 DEF Then, Moves, Positions, GoesOn, ProgramGoesOn, ProgramFor
    <3>4. processTable' \in [Slots -> ProcRec]
      <4>1. s \in Slots /\ processTable \in [Slots -> ProcRec] /\ processTable[s] \in ProcRec
        BY <2>1, SlotIs, PidsOfStart3 DEF DriversInv, TypesOK
      <4>2. end \in Int
        <5>1. Call.seconds \in Int /\ now \in Nat /\ INTLIMIT \in Nat \ {0}
          BY <2>1, DriversAssumption DEF CallOK, DriversInv, TypesOK
        <5>2. \A n \in Int : Int32(n) \in Int
          BY <5>1 DEF Int32
        <5> QED
          BY <5>1, <5>2
      <4> HIDE DEF s, end
      <4>3. me \in Nat /\ now \in Int
        BY <2>1, PidsOfStart3 DEF DriversInv, TypesOK
      <4>4. e \in ProcRec
        BY <4>1, <4>2, <4>3 DEF ProcRec
      <4>5. processTable' = [processTable EXCEPT ![s] = e]
        <5> DEFINE a == [processTable EXCEPT ![s].pid = me]
                   b == [a EXCEPT ![s].startTime = now]
        <5>1. processTable' = [b EXCEPT ![s].sleepEndTime = end]
          BY <3>1
        <5>2. a[s] = [processTable[s] EXCEPT !.pid = me]
          BY <4>1
        <5>3. b[s] = [a[s] EXCEPT !.startTime = now]
          BY <4>1
        <5>4. e = [b[s] EXCEPT !.sleepEndTime = end]
          BY <5>2, <5>3
        <5> HIDE DEF e
        <5> QED
          BY <4>1, <5>1, <5>4
      <4> HIDE DEF e
      <4> QED
        BY <4>1, <4>4, <4>5
    <3>5. TypesOK'
      BY <1>1, <3>1, <3>3, <3>4 DEF SleepCall, DriversInv, TypesOK, Moves, ProgNames, Test
    <3>6. HasHead'
      BY <1>1, <2>1, <3>3, HeadKept DEF SleepCall, DriversInv
    <3>7. SleepOK'
      BY <1>1, <2>1, <3>2, <3>3, SleepTaken DEF SleepCall, DriversInv, SleepPlaces
    <3> QED
      BY <1>1, <2>1, <3>2, <3>3, <3>5, <3>6, <3>7, BoxesApart, StepKeeps
      DEF SleepCall, MutexPlaces
  <2> QED
    BY <2>2, <2>3
<1>2. CASE SleepAdd
  <2>1. /\ OnTurn(me) /\ me # IDLE /\ me \in Pids /\ pc[me] = "sleepAdd"
        /\ ProgramFor(me, "sleepAdd") /\ prog[me] \in {"start3"} \cup DOMAIN Test.code
    BY <1>2, InCallIs DEF SleepAdd, UserPlaces
  <2>2. CASE Endless(Sleepers)
    <3>1. Then("spins") /\ UNCHANGED <<sys, processTable, sleepQ>>
      BY <1>2, <2>2 DEF SleepAdd
    <3>2. SysOK' /\ OnlyBox(NoBox)
      BY <2>1, <3>1, KinOnly DEF DriversInv
    <3>3. Moves(me, "spins") /\ GoesOn(me) /\ ProgramGoesOn(me, "spins")
      BY <1>2, <3>1
      DEF SleepAdd, Then, Moves, Positions, GoesOn, ProgramGoesOn, ProgramFor, UserPlaces
    <3>4. TypesOK'
      BY <1>2, <2>1, <3>1, <3>3, TypesKept DEF SleepAdd, DriversInv
    <3>5. HasHead'
      BY <1>2, <2>1, <3>3, HeadKept DEF SleepAdd, DriversInv
    <3>6. SleepOK'
      BY <1>2, <2>1, <3>2, <3>3, SleepKept, BoxesApart DEF SleepAdd, DriversInv, SleepPlaces, NoBox
    <3> QED
      BY <1>2, <2>1, <3>2, <3>3, <3>4, <3>5, <3>6, BoxesApart, StepKeeps
      DEF SleepAdd, MutexPlaces, NoBox
  <2>3. CASE ~Endless(Sleepers)
    <3>1. AddToSleepQ(Slot(me)) /\ sys' = Received(sys, SleepLock) /\ Then("block")
      BY <1>2, <2>3 DEF SleepAdd
    <3>2. /\ SysOK' /\ OnlyBox(SleepLock)
          /\ SameButBox(sys', sys, SleepLock, ReceivedBox(sys.box[SleepLock], me))
      BY <2>1, <3>1, Receives, BoxesOfDrivers DEF DriversInv
    <3>3. Moves(me, "block") /\ GoesOn(me) /\ ProgramGoesOn(me, "block")
      BY <1>2, <2>1, <3>1
      DEF SleepAdd, Then, Moves, Positions, GoesOn, ProgramGoesOn, ProgramFor, UserPlaces, Inside
    <3>4. processTable' \in [Slots -> ProcRec] /\ sleepQ' \in Pointers
      <4> DEFINE s == Slot(me)
      <4>1. s \in Slots /\ s \in Pointers /\ processTable \in [Slots -> ProcRec]
        BY <2>1, SlotIs, PidsOfStart3 DEF DriversInv, TypesOK, Pointers
      <4> HIDE DEF s
      <4>2. CASE sleepQ = NULL
        BY <3>1, <4>1, <4>2 DEF AddToSleepQ, s
      <4>3. CASE sleepQ # NULL
        <5> DEFINE l == Last(Sleepers)
        <5>1. l \in Slots
          <6>1. Sleepers \in Seq(Slots) /\ Len(Sleepers) > 0
            BY <4>3, LinksAreLinks, ChainIsSlots DEF DriversInv, TypesOK, Sleepers
          <6>2. Len(Sleepers) \in 1 .. Len(Sleepers)
            BY <6>1, LenProperties
          <6> QED
            BY <6>1, <6>2, ElementOfSeq DEF Last
        <5>2. /\ processTable' = [processTable EXCEPT ![l].nextSleeperProc = s]
              /\ sleepQ' = sleepQ
          BY <3>1, <4>3 DEF AddToSleepQ, s
        <5> HIDE DEF l
        <5> DEFINE e == [processTable[l] EXCEPT !.nextSleeperProc = s]
        <5>3. processTable[l] \in ProcRec
          BY <4>1, <5>1
        <5>4. e \in ProcRec /\ processTable' = [processTable EXCEPT ![l] = e]
          BY <4>1, <5>2, <5>3 DEF ProcRec
        <5> HIDE DEF e
        <5> QED
          BY <4>1, <5>1, <5>2, <5>4 DEF DriversInv, TypesOK
      <4> QED
        BY <4>2, <4>3
    <3>5. TypesOK'
      BY <1>2, <3>1, <3>3, <3>4 DEF SleepAdd, DriversInv, TypesOK, Moves, ProgNames, Test
    <3>6. HasHead'
      BY <1>2, <2>1, <3>3, HeadKept DEF SleepAdd, DriversInv
    <3>7. SleepOK'
      BY <1>2, <2>1, <3>2, <3>3, SleepLeft DEF SleepAdd, DriversInv, SleepPlaces
    <3> QED
      BY <1>2, <2>1, <3>2, <3>3, <3>5, <3>6, <3>7, BoxesApart, StepKeeps
      DEF SleepAdd, MutexPlaces
  <2> QED
    BY <2>2, <2>3
<1> QED
  BY <1>1, <1>2

LEMMA RequestKeeps ==
    ASSUME DriversInv, me \in Pids, NEW c, c.track \in Int, c.first \in Int, c.sectors \in Int,
           NEW op \in {"read", "write"}, NEW data \in Datas, Request(c, op, data)
    PROVE  processTable' \in [Slots -> ProcRec] /\ DOMAIN buffer' = Pids
<1> DEFINE s == Slot(me)
           e == [processTable[s] EXCEPT !.pid = me, !.track = c.track, !.first = c.first,
                     !.sectors = c.sectors, !.operation = op, !.buffer = data]
<1>1. s \in Slots /\ processTable \in [Slots -> ProcRec] /\ processTable[s] \in ProcRec
      /\ me \in Nat
  BY SlotIs, PidsOfStart3 DEF DriversInv, TypesOK
<1>2. processTable' = [processTable EXCEPT ![s] = e]
  BY DEF Request
<1> HIDE DEF s
<1>3. e \in ProcRec
  BY <1>1 DEF ProcRec
<1> HIDE DEF e
<1>4. DOMAIN buffer' = Pids
  BY DEF Request, DriversInv, TypesOK
<1> QED
  BY <1>1, <1>2, <1>3, <1>4

LEMMA UnitIs == \A c : UnitOf(c) \in Units
BY DEF UnitOf, Units

LEMMA DiskCallsKeep ==
    ASSUME DriversInv, DiskReadCall \/ DiskWriteCall \/ DiskAdd \/ DiskRing
    PROVE  DriversInv'
<1> USE DEF sleepVars, diskVars, userVars
<1>1. CASE DiskReadCall \/ DiskWriteCall
  <2> DEFINE c == Call
  <2>1. /\ OnTurn(me) /\ me # IDLE /\ me \in Pids /\ pc[me] \in {"user", "diskWrite"}
        /\ prog[me] \in {"start3"} \cup DOMAIN Test.code
        /\ Inside(me, {"DiskRead", "DiskWrite"})
        /\ CallOK(c) /\ c.call \in {"DiskRead", "DiskWrite"}
        /\ (DiskWriteCall => c.call = "DiskWrite")
    <3>1. CASE DiskReadCall
      BY <3>1, MakesIt DEF DiskReadCall, Inside, DiskWriteCall, Runs
    <3>2. CASE DiskWriteCall
      BY <3>2, InCallIs DEF DiskWriteCall, UserPlaces, ProgramFor, Inside
    <3> QED
      BY <1>1, <3>1, <3>2
  <2>2. PICK op \in {"read", "write"}, data \in Datas : Request(c, op, data)
    <3>1. CASE DiskReadCall
      <4>1. BLANK \in Datas
        BY DEF Datas
      <4> QED
        BY <3>1, <4>1 DEF DiskReadCall
    <3>2. CASE DiskWriteCall
      <4>1. c.data \in Datas
        BY <2>1, <3>2 DEF CallOK
      <4> QED
        BY <3>2, <4>1 DEF DiskWriteCall
    <3> QED
      BY <1>1, <3>1, <3>2
  <2>3. c.track \in Int /\ c.first \in Int /\ c.sectors \in Int
    BY <2>1 DEF CallOK
  <2>4. UNCHANGED <<sleepQ, ptr, currTime, now, diskQ, job, device, arm, store, test, prog, line,
                    statuses>>
    BY <1>1 DEF DiskReadCall, DiskWriteCall
  <2> DEFINE u == UnitOf(c)
  <2>5. u \in Units
    BY UnitIs
  <2>6. sys' = Sent(sys, QueueLock(u)) /\ Then("diskAdd")
    BY <2>2 DEF Request
  <2> HIDE DEF u, c
  <2>7. processTable' \in [Slots -> ProcRec] /\ DOMAIN buffer' = Pids
    BY <2>1, <2>2, <2>3, RequestKeeps
  <2>8. SysOK' /\ OnlyBox(QueueLock(u))
    BY <2>1, <2>5, <2>6, Sends, BoxesOfDrivers DEF DriversInv
  <2>9. Moves(me, "diskAdd") /\ GoesOn(me) /\ ProgramGoesOn(me, "diskAdd")
    BY <2>1, <2>4, <2>6 DEF Then, Moves, Positions, GoesOn, ProgramGoesOn, ProgramFor
  <2>10. TypesOK'
    BY <2>4, <2>7, <2>9 DEF DriversInv, TypesOK, Moves, ProgNames, Test
  <2>11. HasHead'
    BY <2>1, <2>4, <2>9, HeadKept DEF DriversInv
  <2> QED
    BY <2>1, <2>4, <2>5, <2>8, <2>9, <2>10, <2>11, BoxesApart, UserStepKeeps
    DEF MutexPlaces, SleepPlaces
<1>2. CASE DiskAdd
  <2>1. /\ OnTurn(me) /\ me # IDLE /\ me \in Pids /\ pc[me] = "diskAdd"
        /\ prog[me] \in {"start3"} \cup DOMAIN Test.code /\ ProgramFor(me, "diskAdd")
    BY <1>2, InCallIs DEF DiskAdd, UserPlaces
  <2> DEFINE u == UnitOf(Call)
             s == Slot(me)
  <2>2. u \in Units /\ s \in Slots /\ s \in Pointers
    BY <2>1, UnitIs, SlotIs, PidsOfStart3 DEF Pointers
  <2>3. /\ AddToDiskQ(u, s) /\ sys' = Received(sys, QueueLock(u)) /\ Then("diskRing")
        /\ UNCHANGED <<sleepQ, ptr, currTime, now, job, device, arm, store, buffer, test, prog,
                       line, statuses>>
    BY <1>2 DEF DiskAdd
  <2> HIDE DEF u, s
  <2>4. SysOK' /\ OnlyBox(QueueLock(u))
    BY <2>1, <2>2, <2>3, Receives, BoxesOfDrivers DEF DriversInv
  <2>5. Moves(me, "diskRing") /\ GoesOn(me) /\ ProgramGoesOn(me, "diskRing")
    BY <2>1, <2>3 DEF Then, Moves, Positions, GoesOn, ProgramGoesOn, ProgramFor, UserPlaces
  <2>6. /\ processTable' \in [Slots -> ProcRec] /\ diskQ' \in [Units -> Pointers]
        /\ \A v \in Units : diskQ[v] # NULL => diskQ'[v] # NULL
    <3>1. processTable \in [Slots -> ProcRec] /\ diskQ \in [Units -> Pointers] /\ NULL \notin Slots
      BY DriversAssumption DEF DriversInv, TypesOK
    <3>2. CASE diskQ[u] = NULL
      <4>1. diskQ' = [diskQ EXCEPT ![u] = s] /\ processTable' = processTable
        BY <2>3, <3>2 DEF AddToDiskQ
      <4> QED
        BY <2>2, <3>1, <4>1
    <3>3. CASE diskQ[u] # NULL
      <4> DEFINE f == RequestList(u)[Position(u, RequestList(u), processTable[s].track)]
                 n == processTable[f].nextDiskProc
                 a == [processTable[s] EXCEPT !.nextDiskProc = n]
                 mid == [processTable EXCEPT ![s] = a]
                 b == [mid[f] EXCEPT !.nextDiskProc = s]
      <4>1. f \in Slots
        BY <2>2, <3>3, FrontIs DEF DriversInv
      <4>2. /\ processTable' = [processTable EXCEPT ![s].nextDiskProc = processTable[f].nextDiskProc,
                                                    ![f].nextDiskProc = s]
            /\ diskQ' = diskQ
        BY <2>3, <3>3 DEF AddToDiskQ
      <4> HIDE DEF f
      <4>3. processTable' = [mid EXCEPT ![f] = b]
        BY <4>2
      <4>4. processTable[f] \in ProcRec /\ processTable[s] \in ProcRec
        BY <2>2, <3>1, <4>1
      <4>5. a \in ProcRec
        BY <4>4 DEF ProcRec
      <4> HIDE DEF a
      <4>6. mid \in [Slots -> ProcRec] /\ mid[f] \in ProcRec
        BY <3>1, <4>1, <4>5
      <4> HIDE DEF mid
      <4>7. b \in ProcRec
        BY <2>2, <4>6 DEF ProcRec
      <4> HIDE DEF b
      <4> QED
        BY <3>1, <4>2, <4>3, <4>6, <4>7
    <3> QED
      BY <3>2, <3>3
  <2>7. TypesOK'
    BY <2>3, <2>5, <2>6 DEF DriversInv, TypesOK, Moves, ProgNames, Test
  <2>8. HasHead'
    <3>1. ASSUME NEW v \in Units, Serving(v)' PROVE diskQ'[v] # NULL
      <4>1. Disk(v) \in Pids
        BY PidsOfStart3
      <4>2. Serving(v)
        BY <2>1, <2>5, <3>1, <4>1 DEF Serving, Moves, DriversInv, TypesOK
      <4> QED
        BY <2>6, <4>2 DEF DriversInv, HasHead
    <3> QED
      BY <3>1 DEF HasHead
  <2> QED
    BY <2>1, <2>2, <2>3, <2>4, <2>5, <2>7, <2>8, BoxesApart, UserStepKeeps
    DEF MutexPlaces, SleepPlaces
<1>3. CASE DiskRing
  <2>1. /\ OnTurn(me) /\ me # IDLE /\ me \in Pids /\ pc[me] = "diskRing"
        /\ prog[me] \in {"start3"} \cup DOMAIN Test.code /\ ProgramFor(me, "diskRing")
    BY <1>3, InCallIs DEF DiskRing, UserPlaces
  <2> DEFINE u == UnitOf(Call)
  <2>2. u \in Units
    BY UnitIs
  <2>3. sys' = CondSent(sys, Door(u)) /\ Then("block")
    BY <1>3 DEF DiskRing, RingDoor
  <2> HIDE DEF u
  <2>4. SysOK' /\ OnlyBox(Door(u))
    BY <2>2, <2>3, CondSends, BoxesOfDrivers DEF DriversInv
  <2>5. Moves(me, "block") /\ GoesOn(me) /\ ProgramGoesOn(me, "block")
    BY <1>3, <2>1, <2>3
    DEF DiskRing, Then, Moves, Positions, GoesOn, ProgramGoesOn, ProgramFor, UserPlaces, Inside
  <2> QED
    BY <1>3, <2>1, <2>2, <2>4, <2>5, BoxesApart, PlainKeeps
    DEF DiskRing, MutexPlaces, ServingPlaces, SleepPlaces
<1> QED
  BY <1>1, <1>2, <1>3

LEMMA BlocksKeep ==
    ASSUME DriversInv, Block \/ Return \/ DiskWriteInvalid
    PROVE  DriversInv'
<1> USE DEF sleepVars, diskVars, userVars
<1>1. CASE Block
  <2>1. /\ OnTurn(me) /\ me # IDLE /\ me \in Pids /\ pc[me] = "block"
        /\ prog[me] \in {"start3"} \cup DOMAIN Test.code /\ ProgramFor(me, "block")
    BY <1>1, InCallIs DEF Block, UserPlaces
  <2>2. Private(me) \in Boxes /\ sys' = Received(sys, Private(me)) /\ Then("return")
    BY <1>1, <2>1, SlotIs, PidsOfStart3 DEF Block
  <2>3. SysOK' /\ OnlyBox(Private(me))
    BY <2>1, <2>2, Receives DEF DriversInv
  <2>4. Moves(me, "return") /\ GoesOn(me) /\ ProgramGoesOn(me, "return")
    BY <1>1, <2>1, <2>2
    DEF Block, Then, Moves, Positions, GoesOn, ProgramGoesOn, ProgramFor, UserPlaces, Inside
  <2> QED
    BY <1>1, <2>1, <2>3, <2>4, BoxesApart, PlainKeeps
    DEF Block, MutexPlaces, ServingPlaces, SleepPlaces, Private
<1>2. CASE Return \/ DiskWriteInvalid
  <2>1. /\ OnTurn(me) /\ me # IDLE /\ me \in Pids /\ pc[me] \in {"user", "return", "diskWrite"}
        /\ prog[me] \in {"start3"} \cup DOMAIN Test.code
    <3>1. CASE Return
      BY <3>1, InCallIs DEF Return, UserPlaces
    <3>2. CASE DiskWriteInvalid
      BY <3>2, InCallIs, MakesIt DEF DiskWriteInvalid, UserPlaces
    <3> QED
      BY <1>2, <3>1, <3>2
  <2>2. Then("user") /\ CallIsOver /\ sys' = sys
        /\ UNCHANGED <<test, prog, statuses, sys, processTable, sleepQ, ptr, currTime, now, diskQ,
                       job, device, arm, store, buffer>>
    BY <1>2 DEF Return, DiskWriteInvalid
  <2>3. SysOK' /\ OnlyBox(NoBox)
    BY <2>1, <2>2, KinOnly DEF DriversInv
  <2>4. Moves(me, "user") /\ GoesOn(me) /\ ProgramGoesOn(me, "user")
    BY <2>1, <2>2, CallEnds
  <2> QED
    BY <2>1, <2>2, <2>3, <2>4, BoxesApart, PlainKeeps
    DEF MutexPlaces, ServingPlaces, SleepPlaces, NoBox
<1> QED
  BY <1>1, <1>2

LEMMA SizeKeeps ==
    ASSUME DriversInv, SizeCall \/ SizeOutput \/ SizeDone
    PROVE  DriversInv'
<1> USE DEF sleepVars, diskVars, userVars
<1>1. CASE SizeCall
  <2>1. /\ OnTurn(me) /\ me # IDLE /\ me \in Pids /\ pc[me] = "user"
        /\ prog[me] \in {"start3"} \cup DOMAIN Test.code
        /\ Inside(me, {"DiskSize", "DiskWrite"}) /\ CallAt(me).unit \in Units
    <3>1. CASE MakesCall("DiskSize")
      BY <3>1, MakesIt DEF Inside, CallOK
    <3>2. CASE MakesCall("DiskWrite") /\ Call.unit \in Units
      BY <3>2, MakesIt DEF Inside
    <3> QED
      BY <1>1, <3>1, <3>2 DEF SizeCall
  <2>2. sys' = Sent(sys, MUTEX) /\ Then("size")
    BY <1>1 DEF SizeCall, TakeMutex
  <2>3. Moves(me, "size") /\ GoesOn(me) /\ ProgramGoesOn(me, "size")
    BY <1>1, <2>1, <2>2
    DEF SizeCall, Then, Moves, Positions, GoesOn, ProgramGoesOn, ProgramFor, UserPlaces
  <2>4. SysOK' /\ OnlyBox(MUTEX) /\ MutexOK' /\ DevicesOK'
    BY <1>1, <2>1, <2>2, <2>3, MutexTaken DEF SizeCall, MutexPlaces
  <2>5. TypesOK'
    BY <1>1, <2>1, <2>3, TypesKept DEF SizeCall, DriversInv
  <2>6. HasHead'
    BY <1>1, <2>1, <2>3, HeadKept DEF SizeCall, DriversInv
  <2>7. SleepOK'
    BY <1>1, <2>1, <2>3, <2>4, SleepKept, BoxesApart DEF SizeCall, DriversInv, SleepPlaces
  <2> QED
    BY <1>1, <2>1, <2>3, <2>4, <2>5, <2>6, <2>7, AnyStepKeeps DEF SizeCall, OnlyBox
<1>2. CASE SizeOutput
  <2>1. /\ OnTurn(me) /\ me # IDLE /\ me \in Pids /\ pc[me] = "size"
        /\ prog[me] \in {"start3"} \cup DOMAIN Test.code /\ ProgramFor(me, "size")
        /\ Call = CallAt(me)
    BY <1>2, InCallIs DEF SizeOutput, UserPlaces
  <2>2. Then("sizeDone")
    BY <1>2 DEF SizeOutput
  <2>3. Moves(me, "sizeDone") /\ GoesOn(me) /\ ProgramGoesOn(me, "sizeDone")
    BY <1>2, <2>1, <2>2
    DEF SizeOutput, Then, Moves, Positions, GoesOn, ProgramGoesOn, ProgramFor, UserPlaces
  <2> DEFINE u == Call.unit
             request == [op |-> "tracks", sector |-> 0]
  <2>4. u \in Units
    BY <2>1 DEF ProgramFor
  <2>5. Output(u, request) /\ sys' = Received(sys, Device(u))
    BY <1>2 DEF SizeOutput
  <2> HIDE DEF u, request
  <2>6. SysOK' /\ OnlyBox(Device(u)) /\ MutexOK' /\ DevicesOK' /\ DOMAIN device' = Units
    BY <2>1, <2>3, <2>4, <2>5, DeviceUsed DEF MutexPlaces, DevicePlaces
  <2>7. TypesOK'
    BY <1>2, <2>3, <2>6 DEF SizeOutput, DriversInv, TypesOK, Moves, ProgNames, Test
  <2>8. HasHead'
    BY <1>2, <2>1, <2>3, HeadKept DEF SizeOutput, DriversInv
  <2>9. SleepOK'
    BY <1>2, <2>1, <2>3, <2>4, <2>6, SleepKept, BoxesApart DEF SizeOutput, DriversInv, SleepPlaces
  <2> QED
    BY <1>2, <2>1, <2>3, <2>6, <2>7, <2>8, <2>9, AnyStepKeeps DEF SizeOutput, OnlyBox
<1>3. CASE SizeDone
  <2>1. /\ OnTurn(me) /\ me # IDLE /\ me \in Pids /\ pc[me] = "sizeDone"
        /\ prog[me] \in {"start3"} \cup DOMAIN Test.code /\ ProgramFor(me, "sizeDone")
        /\ Call = CallAt(me)
    BY <1>3, InCallIs DEF SizeDone, UserPlaces
  <2>2. PICK x \in {"user", "diskWrite"} : Moves(me, x) /\ GoesOn(me) /\ ProgramGoesOn(me, x)
    <3>1. CASE Call.call = "DiskSize"
      <4>1. Then("user") /\ CallIsOver
        BY <1>3, <3>1 DEF SizeDone
      <4> QED
        BY <2>1, <4>1, CallEnds
    <3>2. CASE Call.call # "DiskSize"
      <4>1. Then("diskWrite") /\ UNCHANGED <<line, prog, test>>
        BY <1>3, <3>2 DEF SizeDone
      <4>2. ProgramFor(me, "diskWrite")
        BY <2>1, <3>2 DEF ProgramFor, Inside, UserPlaces
      <4> QED
        BY <4>1, <4>2 DEF Then, Moves, Positions, GoesOn, ProgramGoesOn
    <3> QED
      BY <3>1, <3>2
  <2>3. SysOK' /\ OnlyBox(MUTEX) /\ MutexOK' /\ DevicesOK'
    BY <1>3, <2>1, <2>2, MutexLeft DEF SizeDone, MutexPlaces
  <2>4. TypesOK'
    BY <1>3, <2>1, <2>2, TypesKept DEF SizeDone, DriversInv
  <2>5. HasHead'
    BY <1>3, <2>1, <2>2, HeadKept DEF SizeDone, DriversInv
  <2>6. SleepOK'
    BY <1>3, <2>1, <2>2, <2>3, SleepKept, BoxesApart DEF SizeDone, DriversInv, SleepPlaces
  <2> QED
    BY <1>3, <2>1, <2>2, <2>3, <2>4, <2>5, <2>6, AnyStepKeeps DEF SizeDone, OnlyBox
<1> QED
  BY <1>1, <1>2, <1>3

LEMMA UserKeeps ==
    ASSUME DriversInv, User
    PROVE  DriversInv'
BY SpawnKeeps, KernelCallsKeep, SleepCallsKeep, DiskCallsKeep, BlocksKeep, SizeKeeps DEF User

-----------------------------------------------------------------------------
(***************************************************************************)
(* The interrupts, and the invariant.                                      *)
(***************************************************************************)
\* Nobody goes on anywhere: a step of the machine and of a device.
LEMMA InterruptKeeps ==
    ASSUME DriversInv, SysOK', TypesOK', sys'.next = sys.next,
           UNCHANGED <<pc, test, prog, line, diskQ, ptr>>,
           sys'.box[MUTEX] = sys.box[MUTEX], sys'.box[SleepLock] = sys.box[SleepLock],
           \A u \in Units : DeviceOK(u)'
    PROVE  DriversInv'
<1>1. Unforked' /\ Programs' /\ HasHead'
  <2>1. Unforked'
    BY DEF DriversInv, Unforked
  <2>2. Test' = Test
    BY DEF Test
  <2>3. \A q, names : Inside(q, names)' = Inside(q, names) /\ CallAt(q)' = CallAt(q)
    BY <2>2 DEF Inside, CallAt, Calls
  <2>4. ASSUME NEW q \in Pids
        PROVE  ProgramFor(q, pc[q])'
    <3>1. ProgramFor(q, pc[q])
      BY DEF DriversInv, Programs
    <3> QED
      BY <3>1, <2>2, <2>3, Zenon DEF ProgramFor
  <2>5. Programs'
    BY <2>4 DEF Programs
  <2>6. HasHead'
    BY DEF DriversInv, HasHead, Serving
  <2> QED
    BY <2>1, <2>5, <2>6
<1>2. \A places : At(places)' = At(places)
  BY DEF At
<1>3. MutexOK' /\ SleepOK'
  <2>1. /\ At(MutexPlaces)' = At(MutexPlaces) /\ At(SleepPlaces)' = At(SleepPlaces)
        /\ At({"sleepAdd", "clockScan"})' = At({"sleepAdd", "clockScan"})
    BY <1>2
  <2> QED
    BY <2>1 DEF DriversInv, MutexOK, SleepOK, LockOK
<1>4. DevicesOK'
  BY DEF DevicesOK
<1> QED
  BY <1>1, <1>3, <1>4 DEF DriversInv

LEMMA DeviceKept ==
    ASSUME DriversInv, NEW u \in Units, UNCHANGED pc, device'[u] = device[u],
           sys'.box[Device(u)] = sys.box[Device(u)]
    PROVE  DeviceOK(u)'
<1>1. At(DevicePlaces)' = At(DevicePlaces)
  BY DEF At
<1> QED
  BY <1>1 DEF DriversInv, DevicesOK, DeviceOK

LEMMA TimeSliceKeeps ==
    ASSUME DriversInv, TimeSlice
    PROVE  DriversInv'
<1> USE DEF sleepVars, diskVars, userVars
<1>1. MachineOK(sys', Boxes, {"running"}) /\ SameButQueue(sys', sys)
  BY SlicedIsOK DEF TimeSlice, DriversInv, SysOK
<1>2. SysOK' /\ sys'.next = sys.next /\ sys'.box = sys.box
  BY <1>1 DEF SysOK, SameButQueue
<1>3. TypesOK'
  BY DEF TimeSlice, DriversInv, TypesOK, ProgNames, Test
<1>4. \A u \in Units : DeviceOK(u)'
  BY <1>2, DeviceKept DEF TimeSlice
<1> QED
  BY <1>2, <1>3, <1>4, InterruptKeeps DEF TimeSlice

LEMMA ClockInterruptKeeps ==
    ASSUME DriversInv, ClockInterrupt
    PROVE  DriversInv'
<1> USE DEF sleepVars, diskVars, userVars
<1>1. SysOK' /\ OnlyBox(ClockDevice)
  BY CondSends, BoxesOfDrivers DEF ClockInterrupt, DriversInv
<1>2. TypesOK'
  BY DEF ClockInterrupt, DriversInv, TypesOK, ProgNames, Test
<1>3. \A u \in Units : Device(u) \in Boxes /\ Device(u) # ClockDevice
  BY BoxesOfDrivers, BoxesApart DEF Apart
<1>4. ASSUME NEW u \in Units PROVE DeviceOK(u)'
  BY <1>1, <1>3, DeviceKept DEF ClockInterrupt, OnlyBox
<1>5. sys'.box[MUTEX] = sys.box[MUTEX] /\ sys'.box[SleepLock] = sys.box[SleepLock]
  BY <1>1, BoxesOfDrivers, BoxesApart DEF OnlyBox, Apart
<1> QED
  BY <1>1, <1>2, <1>4, <1>5, InterruptKeeps DEF ClockInterrupt, OnlyBox

LEMMA DiskInterruptKeeps ==
    ASSUME DriversInv, NEW u \in Units, DiskInterrupt(u)
    PROVE  DriversInv'
<1> USE DEF sleepVars, diskVars, userVars
<1>1. /\ device[u] # Idle /\ device' = [device EXCEPT ![u] = Idle]
      /\ sys' = CondSent(sys, Device(u)) /\ DOMAIN buffer' = DOMAIN buffer
      /\ UNCHANGED <<pc, processTable, diskQ, job, sleepQ, ptr, currTime, now, test, prog, line,
                     statuses>>
  BY DEF DiskInterrupt
<1>2. /\ SysOK' /\ OnlyBox(Device(u))
      /\ SameButBox(sys', sys, Device(u), CondSentBox(sys.box[Device(u)]))
  BY <1>1, CondSends, BoxesOfDrivers DEF DriversInv
<1>3. TypesOK'
  BY <1>1 DEF DriversInv, TypesOK, ProgNames, Test
<1>4. ASSUME NEW v \in Units PROVE DeviceOK(v)'
  <2>1. CASE v # u
    <3>1. Device(v) \in Boxes /\ Device(v) # Device(u)
      BY <2>1, BoxesOfDrivers, BoxesApart
    <3>2. device'[v] = device[v]
      BY <1>1, <2>1 DEF DriversInv, TypesOK
    <3> QED
      BY <1>1, <1>2, <3>1, <3>2, DeviceKept DEF OnlyBox
  <2>2. CASE v = u
    <3> DEFINE old == sys.box[Device(u)]
               new == CondSentBox(old)
    <3>1. old \in BoxRec /\ sys.box \in [Boxes -> BoxRec]
      BY BoxesOfDrivers DEF DriversInv, SysOK, MachineOK, Machines
    <3>2. sys'.box[Device(u)] = new
      BY <1>2, <3>1, BoxesOfDrivers DEF SameButBox
    <3>3. /\ old.slots = 1 /\ old.held = 0 /\ old.senders = <<>> /\ old.receivers # <<>>
          /\ Members(old.receivers) \subseteq At(DevicePlaces)
      BY <1>1 DEF DriversInv, DevicesOK, DeviceOK
    <3> HIDE DEF old
    <3>4. /\ new.slots = 1 /\ new.held = 0 /\ new.senders = <<>>
          /\ new.receivers = Tail(old.receivers)
      BY <3>1, <3>3, CondSentBoxIs
    <3> HIDE DEF new
    <3>5. Members(new.receivers) \subseteq Members(old.receivers)
      <4>1. old.receivers \in Seq(Pids)
        BY <3>1 DEF BoxRec
      <4> QED
        BY <3>3, <3>4, <4>1, TailMembers
    <3>6. At(DevicePlaces)' = At(DevicePlaces) /\ device'[u] = Idle
      BY <1>1 DEF At, DriversInv, TypesOK
    <3> QED
      BY <2>2, <3>2, <3>3, <3>4, <3>5, <3>6 DEF DeviceOK
  <2> QED
    BY <2>1, <2>2
<1>5. sys'.box[MUTEX] = sys.box[MUTEX] /\ sys'.box[SleepLock] = sys.box[SleepLock]
  BY <1>2, BoxesOfDrivers, BoxesApart DEF OnlyBox
<1> QED
  BY <1>1, <1>2, <1>3, <1>4, <1>5, InterruptKeeps DEF OnlyBox

LEMMA InitDrivers ==
    ASSUME Init
    PROVE  DriversInv
<1> DEFINE boxes == [b \in Boxes |-> Box(1)]
           sems == [s \in {"running"} |-> Semaphore(0)]
<1>1. SysOK
  <2>1. boxes \in [Boxes -> BoxRec] /\ sems \in [{"running"} -> SemRec]
    BY DEF BoxRec, SemRec, Box, Semaphore
  <2>2. /\ \A b \in Boxes : boxes[b].senders = <<>> /\ boxes[b].receivers = <<>>
        /\ \A s \in {"running"} : sems[s].waiting = <<>>
    BY DEF Box, Semaphore
  <2>3. sys = Machine(START3, 3, CLOCK, boxes, sems)
    BY DEF Init
  <2>4. START3 \in Pids /\ 3 \in Int /\ CLOCK \in Nat /\ START3 < CLOCK
    BY PidsOfStart3 DEF START3, CLOCK
  <2> HIDE DEF boxes, sems
  <2> QED
    BY <2>1, <2>2, <2>3, <2>4, MachineIsOK DEF SysOK
<1>2. sys.box = boxes /\ \A b \in Boxes : sys.box[b] = Box(1)
  BY DEF Init, Machine
<1>3. TypesOK
  <2>1. BLANK \in Datas /\ NULL \in Pointers
    BY DEF Datas, Pointers
  <2>2. NoProc \in ProcRec /\ NoJob \in JobRec
    BY <2>1 DEF NoProc, NoJob, ProcRec, JobRec, IDLE
  <2> QED
    BY <2>1, <2>2 DEF Init, TypesOK, Positions, ProgNames
<1>4. Unforked /\ Programs /\ HasHead
  BY PidsOfStart3
  DEF Init, Unforked, Programs, ProgramFor, UserPlaces, HasHead, Serving
<1>5. Members(<<>>) = {}
  BY DEF Members
<1>6. \A places : "user" \notin places => At(places) = {}
  BY DEF Init, At
<1>7. MutexOK /\ SleepOK
  <2>1. At(MutexPlaces) = {} /\ At(SleepPlaces) = {}
    BY <1>6 DEF MutexPlaces, SleepPlaces
  <2>2. \A p \in Pids : pc[p] # "clockNext"
    BY DEF Init
  <2> QED
    BY <1>2, <1>5, <2>1, <2>2, BoxesOfDrivers DEF MutexOK, SleepOK, LockOK, Box
<1>8. DevicesOK
  BY <1>2, <1>5, BoxesOfDrivers DEF DevicesOK, DeviceOK, Box, Init
<1> QED
  BY <1>1, <1>3, <1>4, <1>7, <1>8 DEF DriversInv

LEMMA NextKeeps ==
    ASSUME DriversInv, [Next]_vars
    PROVE  DriversInv'
<1>1. CASE UNCHANGED vars
  <2>1. UNCHANGED <<pc, test, prog, line, diskQ, ptr, sys, device>>
    BY <1>1 DEF vars
  <2>2. SysOK' /\ TypesOK'
    BY <1>1 DEF vars, DriversInv, SysOK, TypesOK, ProgNames, Test
  <2>3. \A u \in Units : DeviceOK(u)'
    BY <2>1, DeviceKept
  <2> QED
    BY <2>1, <2>2, <2>3, InterruptKeeps
<1>2. CASE Next
  BY <1>2, DiskInterruptKeeps, ClockInterruptKeeps, TimeSliceKeeps, ClockDriverKeeps,
     DiskDriverKeeps, UserKeeps DEF Next
<1> QED
  BY <1>1, <1>2

\* The tables are typed, the locks of the disks and of the sleepers' list are held by one
\* process at most, and whoever waits for a device holds the mutex of the disks.
THEOREM DriversInvariant == Spec => []DriversInv
<1>1. Init => DriversInv
  BY InitDrivers
<1>2. DriversInv /\ [Next]_vars => DriversInv'
  BY NextKeeps
<1> QED
  BY <1>1, <1>2, PTL DEF Spec

LEMMA MutexHolder ==
    ASSUME DriversInv
    PROVE  DiskTakesRequest
<1>1. SUFFICES ASSUME Runs("diskSeek") \/ Runs("diskTransfer") \/ Runs("size"), NEW u \in Units
               PROVE  device[u] = Idle /\ Waiting(sys, Device(u)) = {}
  BY DEF DiskTakesRequest
<1> DEFINE box == sys.box[Device(u)]
<1>2. OnTurn(me) /\ me \in Pids /\ pc[me] \in MutexPlaces \ DevicePlaces
  BY <1>1, RunsAt DEF MutexPlaces, DevicePlaces
<1>3. me \in At(MutexPlaces) \ Members(sys.box[MUTEX].senders)
  BY <1>2, BoxesOfDrivers DEF At, OnTurn
<1>4. ASSUME NEW q \in Members(box.receivers) PROVE FALSE
  <2>1. q \in Pids /\ pc[q] \in DevicePlaces
    BY <1>4 DEF DriversInv, DevicesOK, DeviceOK, At
  <2>2. q \notin Members(sys.box[MUTEX].senders)
    <3>1. /\ <<"receivers", Device(u)>> \in Index(Boxes, {"running"})
          /\ <<"senders", MUTEX>> \in Index(Boxes, {"running"})
          /\ <<"receivers", Device(u)>> # <<"senders", MUTEX>>
      BY BoxesOfDrivers DEF Index
    <3>2. /\ List(sys, <<"receivers", Device(u)>>) = box.receivers
          /\ List(sys, <<"senders", MUTEX>>) = sys.box[MUTEX].senders
      BY DEF List
    <3> QED
      BY <1>4, <3>1, <3>2 DEF DriversInv, SysOK, MachineOK, Seated
  <2>3. q \in At(MutexPlaces)
    BY <2>1 DEF At, MutexPlaces, DevicePlaces
  <2>4. q = me
    BY <1>3, <2>2, <2>3 DEF DriversInv, MutexOK, LockOK
  <2> QED
    BY <1>2, <2>1, <2>4
<1>5. Members(box.receivers) = {} /\ box.senders = <<>> /\ (device[u] # Idle => box.receivers # <<>>)
  BY <1>4 DEF DriversInv, DevicesOK, DeviceOK
<1>6. box.receivers = <<>>
  <2>1. box.receivers \in Seq(Pids)
    BY BoxesOfDrivers DEF DriversInv, SysOK, MachineOK, Machines, BoxRec
  <2> HIDE DEF box
  <2>2. Len(box.receivers) = 0
    <3>1. Len(box.receivers) \in Nat
      BY <2>1, LenProperties
    <3>2. Len(box.receivers) > 0 => 1 \in 1 .. Len(box.receivers)
      BY <3>1
    <3>3. ASSUME 1 \in 1 .. Len(box.receivers) PROVE box.receivers[1] \in Members(box.receivers)
      BY <3>3 DEF Members
    <3> QED
      BY <1>5, <3>1, <3>2, <3>3
  <2> QED
    BY <2>1, <2>2, EmptySeq
<1>7. Waiting(sys, Device(u)) = {}
  BY <1>5, <1>6 DEF Waiting
<1> QED
  BY <1>5, <1>6, <1>7

\* DiskTakesRequest, for every test, disk and number of processes: no request of changeTrack,
\* getNumTracksOnDisk or the sector loop is given to a busy disk.
THEOREM RequestsAreTaken == Spec => []DiskTakesRequest
<1>1. DriversInv => DiskTakesRequest
  BY MutexHolder
<1> QED
  BY <1>1, DriversInvariant, PTL

-----------------------------------------------------------------------------
(***************************************************************************)
(* The lists of the drivers.                                               *)
(***************************************************************************)
\* p's own mailbox: one message, for which nobody but p waits.
PrivateOK(p) ==
    LET box == sys.box[Private(p)]
    IN  /\ box.slots = 1 /\ box.held \in {0, 1} /\ box.senders = <<>>
        /\ box.held = 1 => pc[p] \in {"diskRing", "block"}
        /\ \/ box.receivers = <<>>
           \/ box.receivers = <<p>> /\ pc[p] = "return" /\ box.held = 0
PrivatesOK == \A p \in Pids : PrivateOK(p)

\* Who waits for a driver.
Asleep == {q \in Pids : Unanswered(q) /\ CallAt(q).call = "Sleep"}
Requesters(u) ==
    {q \in Pids : /\ Unanswered(q) /\ CallAt(q).call \in {"DiskRead", "DiskWrite"}
                  /\ UnitOf(CallAt(q)) = u}
SlotsOf(P) == {Slot(p) : p \in P}

\* The clock driver's list is that of the sleepers, and it stands at one of them.
SleepersOK ==
    /\ IsList(Slots, NULL, Sleepers, sleepQ, NextSleeper)
    /\ Members(Sleepers) = SlotsOf(Asleep)
WalkOK ==
    /\ \A p \in Pids : pc[p] = "clockWalk" => ptr \in SlotsOf(Asleep) \cup {NULL}
    /\ \A p \in Pids : pc[p] = "clockNext" => NextSleeper[ptr] \in SlotsOf(Asleep) \cup {NULL}
\* Whoever has a link has slept, or sleeps.
LinkOK(p) ==
    NextSleeper[Slot(p)] # NULL =>
        \E i \in 1 .. line[p] :
            /\ i <= Len(Calls(prog[p])) /\ Sleeps(Calls(prog[p])[i])
            /\ i = line[p] => pc[p] \in {"block", "return"}
LinksOK == \A p \in Pids : LinkOK(p)
NapOK(p) ==
    LET e == processTable[Slot(p)]
    IN  pc[p] \in {"sleepAdd", "block", "return"} /\ CallAt(p).call = "Sleep" =>
            /\ Sleeps(CallAt(p))
            /\ e.startTime \in Nat /\ e.startTime <= now
            /\ e.sleepEndTime = Int32(e.startTime + CallAt(p).seconds)
            /\ pc[p] = "sleepAdd" \/ Unanswered(p) \/ e.sleepEndTime < now
NapsOK == currTime <= now /\ \A p \in Pids : NapOK(p)

Notified(u) == IF pc[Disk(u)] = "diskNotify" THEN {job[u].owner} ELSE {}
RequestsOK(u) ==
    /\ IsList(Slots, NULL, RequestList(u), diskQ[u], NextDisk)
    /\ Members(RequestList(u)) = SlotsOf(Requesters(u) \ Notified(u))
    /\ Serving(u) => job[u].owner \in Pids /\ diskQ[u] = Slot(job[u].owner)
    /\ pc[Disk(u)] = "diskNotify" => job[u].owner \in Requesters(u)
FreeLinks == \A s \in Slots : NextDisk[s] # NULL => \E u \in Units : s \in Members(RequestList(u))
EntriesOK ==
    \A p \in Pids : pc[p] = "diskAdd" \/ p \in Requesters(0) \cup Requesters(1)
                        => processTable[Slot(p)].pid = p

DoorOK(u) ==
    LET box == sys.box[Door(u)]
    IN  /\ box.slots = 1 /\ box.held \in {0, 1}
        /\ box.senders # <<>> => box.held = 1
        /\ \/ box.receivers = <<>>
           \/ box.receivers = <<Disk(u)>> /\ pc[Disk(u)] = "diskWoken" /\ box.held = 0
Rings(u) == \E p \in Pids : pc[p] = "diskRing" /\ UnitOf(CallAt(p)) = u
AtWork(u) ==
    \/ pc[Disk(u)] \in ServingPlaces \cup {"diskNotify", "diskNotified", "gone"}
    \/ pc[Disk(u)] = "diskWoken" /\ sys.box[Door(u)].receivers = <<>>
BellOK(u) == diskQ[u] # NULL => AtWork(u) \/ sys.box[Door(u)].held = 1 \/ Rings(u)

ListsInv ==
    /\ PrivatesOK /\ SleepersOK /\ WalkOK /\ LinksOK /\ NapsOK
    /\ (\A u \in Units : RequestsOK(u)) /\ FreeLinks /\ EntriesOK
    /\ (\A u \in Units : DoorOK(u) /\ BellOK(u))

-----------------------------------------------------------------------------
(***************************************************************************)
(* Slots, mailboxes of their own, and integers.                            *)
(***************************************************************************)
LEMMA SmallModulo ==
    ASSUME NEW m \in Nat \ {0}, NEW n \in 0 .. m-1
    PROVE  n % m = n /\ m % m = 0 /\ ((n + m) % (2 * m)) - m = n
OBVIOUS

LEMMA SlotsApart ==
    /\ \A p \in Pids : p \in Nat /\ Slot(p) \in Slots /\ Private(p) \in Boxes
                       /\ Private(p) = <<"private", Slot(p)>>
    /\ \A p, q \in Pids : Slot(p) = Slot(q) => p = q
<1>1. MAXPROC \in Nat \ {0} /\ MaxPid \in Nat /\ MaxPid <= MAXPROC
  BY LowerPhasesAssumption, DriversAssumption
<1>2. ASSUME NEW p \in Pids PROVE p \in Nat /\ Slot(p) = IF p = MAXPROC THEN 0 ELSE p
  <2>1. p \in 1 .. MAXPROC /\ p \in Nat
    BY <1>1 DEF Pids
  <2>2. p # MAXPROC => p \in 0 .. MAXPROC-1
    BY <1>1, <2>1
  <2>3. 0 \in 0 .. MAXPROC-1
    BY <1>1
  <2> QED
    BY <1>1, <2>1, <2>2, <2>3, SmallModulo DEF Slot
<1>3. \A p \in Pids : p # 0
  BY DEF Pids
<1>4. \A p, q \in Pids : Slot(p) = Slot(q) => p = q
  BY <1>2, <1>3
<1>5. \A p \in Pids : p \in Nat /\ Slot(p) \in Slots /\ Private(p) \in Boxes
                       /\ Private(p) = <<"private", Slot(p)>>
  BY <1>2, SlotIs DEF Private
<1> QED
  BY <1>4, <1>5

LEMMA SmallInt ==
    ASSUME NEW n \in Nat, n < INTLIMIT
    PROVE  Int32(n) = n
<1>1. INTLIMIT \in Nat \ {0} /\ n \in 0 .. INTLIMIT-1
  BY DriversAssumption
<1>2. ((n + INTLIMIT) % (2 * INTLIMIT)) - INTLIMIT = n
  BY <1>1, SmallModulo
<1> QED
  BY <1>2 DEF Int32

\* A mailbox that is nobody's own, and no door.
Common(b) == b \in {SleepLock, MUTEX, ClockDevice, NoBox} \/ \E u \in Units : b \in {QueueLock(u), Device(u)}
Public(b) == \A p \in Pids : b # Private(p)
NoDoor(b) == \A u \in Units : b # Door(u)

LEMMA BoxesPublic ==
    /\ \A b : Common(b) => Public(b) /\ NoDoor(b)
    /\ \A u \in Units : Public(Door(u))
    /\ \A s : NoDoor(<<"private", s>>)
    /\ \A u, v \in Units : u # v => Door(u) # Door(v)
    /\ \A p, q \in Pids : Private(p) = Private(q) => p = q
<1>1. \A p, q \in Pids : Private(p) = Private(q) => p = q
  BY SlotsApart DEF Private
<1>2. /\ Public(SleepLock) /\ Public(MUTEX) /\ Public(ClockDevice) /\ Public(NoBox)
      /\ \A u \in Units : Public(QueueLock(u)) /\ Public(Device(u)) /\ Public(Door(u))
  BY DEF Public, Private, SleepLock, MUTEX, ClockDevice, NoBox, QueueLock, Device, Door
<1>3. /\ NoDoor(SleepLock) /\ NoDoor(MUTEX) /\ NoDoor(ClockDevice) /\ NoDoor(NoBox)
      /\ \A u \in Units : NoDoor(QueueLock(u)) /\ NoDoor(Device(u))
      /\ \A s : NoDoor(<<"private", s>>)
  BY DEF NoDoor, SleepLock, MUTEX, ClockDevice, NoBox, QueueLock, Device, Door
<1>4. \A u, v \in Units : u # v => Door(u) # Door(v)
  BY DEF Door
<1>5. \A b : Common(b) => Public(b) /\ NoDoor(b)
  BY <1>2, <1>3 DEF Common
<1> QED
  BY <1>1, <1>2, <1>3, <1>4, <1>5

-----------------------------------------------------------------------------
(***************************************************************************)
(* Who waits for a driver, and what leaves them waiting.                   *)
(***************************************************************************)
AnswerPlaces == {"diskRing", "block", "return"}

LEMMA ReceiverWaits ==
    ASSUME NEW m, NEW p, NEW b, m.box[b].senders = <<>>,
           m.box[b].receivers = <<>> \/ m.box[b].receivers = <<p>>
    PROVE  p \in Waiting(m, b) <=> m.box[b].receivers # <<>>
<1> DEFINE box == m.box[b]
<1>1. box.senders = <<>> /\ (box.receivers = <<>> \/ box.receivers = <<p>>)
  OBVIOUS
<1>2. Waiting(m, b) = {box.senders[i] : i \in DOMAIN box.senders}
                      \cup {box.receivers[i] : i \in DOMAIN box.receivers}
  BY DEF Waiting
<1>3. DOMAIN <<>> = {} /\ DOMAIN <<p>> = {1} /\ <<p>>[1] = p /\ <<p>> # <<>>
  OBVIOUS
<1> HIDE DEF box
<1>4. CASE box.receivers = <<>>
  BY <1>1, <1>2, <1>3, <1>4 DEF box
<1>5. CASE box.receivers = <<p>>
  BY <1>1, <1>2, <1>3, <1>5 DEF box
<1> QED
  BY <1>1, <1>4, <1>5

LEMMA AnswerIs ==
    ASSUME NEW p, PrivateOK(p)
    PROVE  Unanswered(p) <=> /\ sys.box[Private(p)].held = 0
                             /\ \/ pc[p] \in {"diskRing", "block"}
                                \/ pc[p] = "return" /\ sys.box[Private(p)].receivers # <<>>
<1>1. /\ sys.box[Private(p)].senders = <<>>
      /\ sys.box[Private(p)].receivers = <<>> \/ sys.box[Private(p)].receivers = <<p>>
  BY DEF PrivateOK
<1>2. p \in Waiting(sys, Private(p)) <=> sys.box[Private(p)].receivers # <<>>
  BY <1>1, ReceiverWaits
<1> QED
  BY <1>2 DEF Unanswered

\* The same after a step.
LEMMA AnswerIsNow ==
    ASSUME NEW p, PrivateOK(p)'
    PROVE  Unanswered(p)' <=> /\ sys'.box[Private(p)].held = 0
                              /\ \/ pc'[p] \in {"diskRing", "block"}
                                 \/ pc'[p] = "return" /\ sys'.box[Private(p)].receivers # <<>>
<1>1. /\ sys'.box[Private(p)].senders = <<>>
      /\ sys'.box[Private(p)].receivers = <<>> \/ sys'.box[Private(p)].receivers = <<p>>
  BY DEF PrivateOK, Private, Slot
<1>2. p \in Waiting(sys', Private(p)) <=> sys'.box[Private(p)].receivers # <<>>
  BY <1>1, ReceiverWaits
<1> QED
  BY <1>2 DEF Unanswered, Waiting, Private, Slot

LEMMA AnswerPlace ==
    ASSUME NEW p, Unanswered(p)
    PROVE  pc[p] \in AnswerPlaces /\ sys.box[Private(p)].held = 0
BY DEF Unanswered, AnswerPlaces

\* A step that leaves everybody's own mailbox alone.
LEMMA PrivatesKept ==
    ASSUME TypesOK, PrivatesOK, NEW p, OnTurn(p), NEW x, Moves(p, x),
           NEW b, Public(b), OnlyBox(b),
           pc[p] \in AnswerPlaces \/ x \in AnswerPlaces =>
               pc[p] # "return" /\ x \in {"diskRing", "block"}
                 /\ (x = "block" \/ pc[p] \notin AnswerPlaces)
    PROVE  PrivatesOK'
<1>1. ASSUME NEW q \in Pids PROVE PrivateOK(q)'
  <2>1. sys'.box[Private(q)] = sys.box[Private(q)]
    BY SlotsApart DEF OnlyBox, Public
  <2>2. PrivateOK(q)
    BY DEF PrivatesOK
  <2>3. q # p => pc'[q] = pc[q]
    BY DEF Moves, TypesOK
  <2>4. pc'[p] = x
    BY DEF Moves, TypesOK, OnTurn
  <2> QED
    BY <2>1, <2>2, <2>3, <2>4 DEF PrivateOK, Private, AnswerPlaces
<1> QED
  BY <1>1 DEF PrivatesOK

\* Who waits after a step, when those of W do.
SleepersOf(W) == {q \in W : CallAt(q).call = "Sleep"}
RequestersOf(W, u) ==
    {q \in W : CallAt(q).call \in {"DiskRead", "DiskWrite"} /\ UnitOf(CallAt(q)) = u}
Waiters == {q \in Pids : Unanswered(q)}

LEMMA WaitersAre ==
    /\ Asleep = SleepersOf(Waiters) /\ \A u \in Units : Requesters(u) = RequestersOf(Waiters, u)
    /\ Waiters \subseteq Pids
BY DEF Asleep, SleepersOf, Requesters, RequestersOf, Waiters

LEMMA WaitersChange ==
    ASSUME NEW W \in SUBSET Pids, \A q \in Pids : Unanswered(q)' <=> q \in W,
           \A q \in W : CallAt(q)' = CallAt(q)
    PROVE  /\ Asleep' = SleepersOf(W) /\ \A u \in Units : Requesters(u)' = RequestersOf(W, u)
           /\ Waiters' = W
<1>1. Waiters' = W
  BY DEF Waiters
<1>2. Asleep' = {q \in Pids : Unanswered(q)' /\ CallAt(q)'.call = "Sleep"}
  BY DEF Asleep
<1>3. Asleep' = SleepersOf(W)
  BY <1>2 DEF SleepersOf
<1>4. ASSUME NEW u \in Units PROVE Requesters(u)' = RequestersOf(W, u)
  <2>1. Requesters(u)' = {q \in Pids : Unanswered(q)' /\ CallAt(q)'.call \in {"DiskRead", "DiskWrite"}
                                       /\ UnitOf(CallAt(q)') = u}
    BY DEF Requesters, UnitOf
  <2> HIDE DEF CallAt
  <2> QED
    BY <2>1 DEF RequestersOf
<1> QED
  BY <1>1, <1>3, <1>4

LEMMA OthersWait ==
    ASSUME TypesOK, NEW p \in Pids, NEW x, Moves(p, x), GoesOn(p), UNCHANGED <<test, prog>>,
           NEW q \in Pids, q # p
    PROVE  /\ pc'[q] = pc[q] /\ line'[q] = line[q] /\ CallAt(q)' = CallAt(q)
           /\ sys'.box[Private(q)] = sys.box[Private(q)] => (Unanswered(q)' <=> Unanswered(q))
<1>1. pc'[q] = pc[q]
  BY DEF Moves, TypesOK
<1>2. line'[q] = line[q]
  BY DEF GoesOn, TypesOK
<1>3. CallAt(q)' = CallAt(q)
  BY <1>2 DEF CallAt, Calls, Test
<1>4. ASSUME sys'.box[Private(q)] = sys.box[Private(q)]
      PROVE  Unanswered(q)' <=> Unanswered(q)
  BY <1>1, <1>4 DEF Unanswered, Waiting, Private, Slot
<1> QED
  BY <1>1, <1>2, <1>3, <1>4

\* p's own place, after a step.
LEMMA MoverIs ==
    ASSUME TypesOK, NEW p \in Pids, NEW x, Moves(p, x)
    PROVE  /\ pc'[p] = x
           /\ UNCHANGED <<test, prog, line>> => CallAt(p)' = CallAt(p)
BY DEF Moves, TypesOK, CallAt, Calls, Test

LEMMA WaitersKept ==
    ASSUME TypesOK, NEW p, OnTurn(p), NEW x, Moves(p, x), GoesOn(p), UNCHANGED <<test, prog>>,
           NEW b, Public(b), OnlyBox(b), pc[p] \notin AnswerPlaces, x \notin AnswerPlaces
    PROVE  Asleep' = Asleep /\ (\A u \in Units : Requesters(u)' = Requesters(u)) /\ Waiters' = Waiters
<1>1. p \in Pids /\ pc'[p] = x
  BY MoverIs DEF OnTurn
<1>2. ASSUME NEW q \in Pids PROVE Unanswered(q)' <=> q \in Waiters
  <2>1. sys'.box[Private(q)] = sys.box[Private(q)]
    BY SlotsApart DEF OnlyBox, Public
  <2>2. CASE q = p
    BY <1>1, <2>2 DEF Unanswered, AnswerPlaces, Waiters
  <2>3. CASE q # p
    BY <1>1, <2>1, <2>3, OthersWait DEF Waiters
  <2> QED
    BY <2>2, <2>3
<1>3. \A q \in Waiters : CallAt(q)' = CallAt(q)
  <2>1. ASSUME NEW q \in Waiters PROVE CallAt(q)' = CallAt(q)
    <3>1. q \in Pids /\ q # p
      BY AnswerPlace DEF Waiters
    <3> QED
      BY <1>1, <3>1, OthersWait
  <2> QED
    BY <2>1
<1> QED
  BY <1>2, <1>3, WaitersChange, WaitersAre

\* p comes to wait: it has put itself on a list.
LEMMA WaiterComes ==
    ASSUME TypesOK, PrivatesOK, NEW p, OnTurn(p), NEW x \in {"block", "diskRing"}, Moves(p, x),
           UNCHANGED <<test, prog, line>>, NEW b, Public(b), OnlyBox(b), pc[p] # "return"
    PROVE  /\ pc[p] \in {"diskRing", "block"} => Waiters' = Waiters
           /\ pc[p] \notin {"diskRing", "block"} => p \notin Waiters /\ Waiters' = Waiters \cup {p}
           /\ Asleep' = SleepersOf(Waiters') /\ \A u \in Units : Requesters(u)' = RequestersOf(Waiters', u)
<1>1. p \in Pids /\ pc'[p] = x /\ CallAt(p)' = CallAt(p) /\ GoesOn(p)
  BY MoverIs DEF OnTurn, GoesOn
<1> DEFINE W == IF pc[p] \in {"diskRing", "block"} THEN Waiters ELSE Waiters \cup {p}
<1>2. ASSUME NEW q \in Pids PROVE Unanswered(q)' <=> q \in W
  <2>1. sys'.box[Private(q)] = sys.box[Private(q)]
    BY SlotsApart DEF OnlyBox, Public
  <2>2. CASE q = p
    <3>1. PrivateOK(p)
      BY <1>1 DEF PrivatesOK
    <3>2. sys'.box[Private(p)].held = sys.box[Private(p)].held
      BY <2>1, <2>2
    <3>3. Unanswered(p)' <=> sys'.box[Private(p)].held = 0
      BY <1>1 DEF Unanswered, Private, Slot
    <3>4. pc[p] \in {"diskRing", "block"} => (Unanswered(p) <=> sys.box[Private(p)].held = 0)
      BY <3>1, AnswerIs
    <3>5. pc[p] \notin {"diskRing", "block"} => sys.box[Private(p)].held = 0
      BY <3>1 DEF PrivateOK
    <3> QED
      BY <1>1, <2>2, <3>2, <3>3, <3>4, <3>5 DEF Waiters
  <2>3. CASE q # p
    BY <1>1, <2>1, <2>3, OthersWait DEF Waiters
  <2> QED
    BY <2>2, <2>3
<1>3. \A q \in W : CallAt(q)' = CallAt(q)
  BY <1>1, OthersWait DEF Waiters
<1>4. W \in SUBSET Pids
  BY <1>1 DEF Waiters
<1>5. pc[p] \notin {"diskRing", "block"} => p \notin Waiters
  BY AnswerPlace DEF Waiters, AnswerPlaces
<1> HIDE DEF W
<1>6. Waiters' = W /\ Asleep' = SleepersOf(W) /\ \A u \in Units : Requesters(u)' = RequestersOf(W, u)
  BY <1>2, <1>3, <1>4, WaitersChange
<1> QED
  BY <1>5, <1>6 DEF W

\* Block: p waits in its mailbox, or takes its answer from there.
LEMMA WaiterBlocks ==
    ASSUME TypesOK, SysOK, PrivatesOK, NEW p, OnTurn(p), pc[p] = "block", Moves(p, "return"), me # IDLE,
           UNCHANGED <<test, prog, line>>, sys' = Received(sys, Private(p))
    PROVE  /\ PrivatesOK' /\ Waiters' = Waiters /\ OnlyBox(Private(p))
           /\ Asleep' = Asleep /\ \A u \in Units : Requesters(u)' = Requesters(u)
<1>1. p \in Pids /\ pc'[p] = "return" /\ CallAt(p)' = CallAt(p) /\ GoesOn(p) /\ p = me
  BY MoverIs DEF OnTurn, GoesOn
<1> DEFINE b == Private(p)
           box == sys.box[b]
           new == ReceivedBox(box, p)
<1>2. b \in Boxes /\ PrivateOK(p)
  BY <1>1, SlotsApart DEF PrivatesOK
<1>3. OnlyBox(b) /\ sys'.box[b] = new
  BY <1>1, <1>2, Receives, OnlyBoxIs
<1>4. box \in BoxRec
  BY <1>2 DEF SysOK, MachineOK, Machines
<1>5. /\ new.slots = box.slots
      /\ new.senders = IF box.held = 0 \/ box.senders = <<>> THEN box.senders ELSE Tail(box.senders)
      /\ new.held = IF box.held = 0 \/ box.senders # <<>> THEN box.held ELSE box.held - 1
      /\ new.receivers = IF box.held = 0 THEN Append(box.receivers, p) ELSE box.receivers
  BY <1>1, <1>4, ReceivedBoxIs
<1>6. /\ box.slots = 1 /\ box.held \in {0, 1} /\ box.senders = <<>> /\ box.receivers = <<>>
  BY <1>1, <1>2 DEF PrivateOK
<1>7. Append(<<>>, p) = <<p>> /\ <<p>> # <<>>
  OBVIOUS
<1> HIDE DEF new, box
<1>8. new.slots = 1 /\ new.senders = <<>> /\ new.held = 0
      /\ new.receivers = IF box.held = 0 THEN <<p>> ELSE <<>>
  BY <1>5, <1>6, <1>7
<1>9. b' = b
  BY DEF Private, Slot
<1>10. ASSUME NEW q \in Pids PROVE PrivateOK(q)' /\ (Unanswered(q)' <=> q \in Waiters)
  <2>1. CASE q = p
    <3>1. sys'.box[Private(p)].held = 0 /\ sys'.box[Private(p)].receivers = new.receivers
          /\ sys'.box[Private(p)].slots = 1 /\ sys'.box[Private(p)].senders = <<>>
      BY <1>3, <1>8, <1>9
    <3>2. PrivateOK(p)'
      BY <1>1, <1>8, <3>1 DEF PrivateOK
    <3>3. Unanswered(p)' <=> box.held = 0
      <4>1. Unanswered(p)' <=> /\ sys'.box[Private(p)].held = 0
                             /\ \/ pc'[p] \in {"diskRing", "block"}
                                \/ pc'[p] = "return" /\ sys'.box[Private(p)].receivers # <<>>
        BY <3>2, AnswerIsNow DEF Private, Slot
      <4> QED
        BY <1>1, <1>7, <1>8, <3>1, <4>1
    <3>4. p \in Waiters <=> box.held = 0
      BY <1>1, <1>2, AnswerIs DEF Waiters, box
    <3> QED
      BY <2>1, <3>2, <3>3, <3>4
  <2>2. CASE q # p
    <3>1. b # Private(q) /\ Private(q) \in Boxes
      BY <1>1, <2>2, SlotsApart, BoxesPublic
    <3>2. sys'.box[Private(q)] = sys.box[Private(q)]
      BY <1>3, <3>1 DEF OnlyBox
    <3>3. PrivateOK(q)
      BY DEF PrivatesOK
    <3>4. PrivateOK(q)'
      BY <3>2, <3>3, <1>1, <2>2, OthersWait DEF PrivateOK, Private, Slot
    <3> QED
      BY <3>2, <3>4, <1>1, <2>2, OthersWait DEF Waiters
  <2> QED
    BY <2>1, <2>2
<1>11. \A q \in Waiters : CallAt(q)' = CallAt(q)
  BY <1>1, OthersWait DEF Waiters
<1>12. PrivatesOK'
  BY <1>10 DEF PrivatesOK
<1> QED
  BY <1>3, <1>10, <1>11, <1>12, WaitersChange, WaitersAre DEF b

\* Return: p has its answer.
LEMMA WaiterReturns ==
    ASSUME TypesOK, SysOK, PrivatesOK, NEW p, OnTurn(p), pc[p] = "return", Moves(p, "user"),
           GoesOn(p), UNCHANGED <<test, prog, sys>>
    PROVE  /\ PrivatesOK' /\ Waiters' = Waiters /\ p \notin Waiters
           /\ Asleep' = Asleep /\ \A u \in Units : Requesters(u)' = Requesters(u)
<1>1. p \in Pids /\ pc'[p] = "user"
  BY MoverIs DEF OnTurn
<1>2. PrivateOK(p) /\ Private(p) \in Boxes
  BY <1>1, SlotsApart DEF PrivatesOK
<1>3. sys.box[Private(p)].receivers = <<>>
  <2>1. p \notin Members(sys.box[Private(p)].receivers)
    BY <1>2 DEF OnTurn
  <2>2. p \in Members(<<p>>)
    BY DEF Members
  <2> QED
    BY <1>2, <2>1, <2>2 DEF PrivateOK
<1>4. p \notin Waiters
  BY <1>1, <1>2, <1>3, AnswerIs DEF Waiters
<1>5. ASSUME NEW q \in Pids PROVE PrivateOK(q)' /\ (Unanswered(q)' <=> q \in Waiters)
  <2>1. PrivateOK(q) /\ sys'.box[Private(q)] = sys.box[Private(q)]
    BY DEF PrivatesOK
  <2>2. CASE q = p
    <3>1. PrivateOK(p)'
      BY <1>1, <1>2, <1>3, <2>2 DEF PrivateOK, Private, Slot
    <3>2. ~Unanswered(p)'
      BY <1>1 DEF Unanswered
    <3> QED
      BY <1>4, <2>2, <3>1, <3>2
  <2>3. CASE q # p
    <3>1. PrivateOK(q)'
      BY <2>1, <1>1, <2>3, OthersWait DEF PrivateOK, Private, Slot
    <3> QED
      BY <2>1, <3>1, <1>1, <2>3, OthersWait DEF Waiters
  <2> QED
    BY <2>2, <2>3
<1>6. \A q \in Waiters : CallAt(q)' = CallAt(q)
  BY <1>1, <1>4, OthersWait DEF Waiters
<1>7. PrivatesOK'
  BY <1>5 DEF PrivatesOK
<1> QED
  BY <1>4, <1>5, <1>6, <1>7, WaitersChange, WaitersAre

\* p answers r, which waits.
LEMMA WaiterAnswered ==
    ASSUME TypesOK, SysOK, PrivatesOK, NEW p, OnTurn(p), NEW x, Moves(p, x), me # IDLE,
           pc[p] \notin AnswerPlaces, x \notin AnswerPlaces,
           UNCHANGED <<test, prog, line>>, NEW r \in Waiters, sys' = Sent(sys, Private(r))
    PROVE  /\ PrivatesOK' /\ Waiters' = Waiters \ {r} /\ OnlyBox(Private(r)) /\ SysOK'
           /\ Asleep' = SleepersOf(Waiters') /\ \A u \in Units : Requesters(u)' = RequestersOf(Waiters', u)
<1>1. p \in Pids /\ pc'[p] = x /\ CallAt(p)' = CallAt(p) /\ GoesOn(p) /\ p = me
  BY MoverIs DEF OnTurn, GoesOn
<1>2. r \in Pids /\ Unanswered(r) /\ r # p
  BY AnswerPlace DEF Waiters
<1> DEFINE b == Private(r)
           box == sys.box[b]
           new == SentBox(box, p)
<1>3. b \in Boxes /\ PrivateOK(r)
  BY <1>2, SlotsApart DEF PrivatesOK
<1>4. SysOK' /\ OnlyBox(b) /\ sys'.box[b] = new
  BY <1>1, <1>3, Sends, OnlyBoxIs
<1>5. box \in BoxRec
  BY <1>3 DEF SysOK, MachineOK, Machines
<1>6. /\ box.slots = 1 /\ box.held = 0 /\ box.senders = <<>>
      /\ \/ box.receivers = <<>> /\ pc[r] \in {"diskRing", "block"}
         \/ box.receivers = <<r>> /\ pc[r] = "return"
  BY <1>2, <1>3, AnswerIs DEF PrivateOK
<1>7. /\ new.slots = box.slots
      /\ new.senders = IF box.receivers = <<>> /\ ~(box.held < box.slots)
                       THEN Append(box.senders, p) ELSE box.senders
      /\ new.held = IF box.receivers = <<>> /\ box.held < box.slots THEN box.held + 1 ELSE box.held
      /\ new.receivers = IF box.receivers = <<>> THEN <<>> ELSE Tail(box.receivers)
  BY <1>1, <1>5, SentBoxIs
<1>8. Tail(<<r>>) = <<>> /\ <<r>> # <<>>
  OBVIOUS
<1> HIDE DEF new, box
<1>9. new.slots = 1 /\ new.senders = <<>> /\ new.receivers = <<>>
      /\ new.held = IF pc[r] \in {"diskRing", "block"} THEN 1 ELSE 0
  <2>1. box.held = 0 /\ box.slots = 1 /\ box.held < box.slots /\ box.held + 1 = 1 /\ box.senders = <<>>
    BY <1>6
  <2>2. CASE box.receivers = <<>> /\ pc[r] \in {"diskRing", "block"}
    BY <1>7, <2>1, <2>2
  <2>3. CASE box.receivers = <<r>> /\ pc[r] = "return"
    BY <1>7, <1>8, <2>1, <2>3
  <2> QED
    BY <1>6, <2>2, <2>3
<1>10. b' = b
  BY DEF Private, Slot
<1>11. ASSUME NEW q \in Pids PROVE PrivateOK(q)' /\ (Unanswered(q)' <=> q \in Waiters \ {r})
  <2>1. CASE q = r
    <3>1. sys'.box[Private(r)].held = new.held /\ sys'.box[Private(r)].receivers = <<>>
          /\ sys'.box[Private(r)].slots = 1 /\ sys'.box[Private(r)].senders = <<>>
      BY <1>4, <1>9, <1>10
    <3>2. pc'[r] = pc[r]
      BY <1>1, <1>2, OthersWait
    <3>3. PrivateOK(r)'
      BY <1>6, <1>9, <3>1, <3>2 DEF PrivateOK
    <3>4. Unanswered(r)' <=> /\ sys'.box[Private(r)].held = 0
                             /\ \/ pc'[r] \in {"diskRing", "block"}
                                \/ pc'[r] = "return" /\ sys'.box[Private(r)].receivers # <<>>
      BY <3>3, AnswerIsNow DEF Private, Slot
    <3> QED
      BY <1>9, <2>1, <3>1, <3>2, <3>3, <3>4
  <2>2. CASE q # r
    <3>1. b # Private(q) /\ Private(q) \in Boxes
      BY <1>2, <2>2, SlotsApart, BoxesPublic
    <3>2. sys'.box[Private(q)] = sys.box[Private(q)]
      BY <1>4, <3>1 DEF OnlyBox
    <3>3. PrivateOK(q)
      BY DEF PrivatesOK
    <3>4. CASE q = p
      <4>1. PrivateOK(p)'
        BY <3>2, <3>3, <1>1, <3>4 DEF PrivateOK, Private, Slot, AnswerPlaces
      <4>2. ~Unanswered(p)' /\ ~Unanswered(p)
        BY <1>1 DEF Unanswered, AnswerPlaces
      <4> QED
        BY <3>4, <4>1, <4>2 DEF Waiters
    <3>5. CASE q # p
      <4>1. PrivateOK(q)'
        BY <3>2, <3>3, <1>1, <3>5, OthersWait DEF PrivateOK, Private, Slot
      <4> QED
        BY <3>2, <4>1, <1>1, <2>2, <3>5, OthersWait DEF Waiters
    <3> QED
      BY <3>4, <3>5
  <2> QED
    BY <2>1, <2>2
<1>12. \A q \in Waiters \ {r} : CallAt(q)' = CallAt(q)
  BY <1>1, OthersWait DEF Waiters
<1>13. PrivatesOK'
  BY <1>11 DEF PrivatesOK
<1>14. Waiters \ {r} \in SUBSET Pids
  BY DEF Waiters
<1>15. /\ Waiters' = Waiters \ {r} /\ Asleep' = SleepersOf(Waiters \ {r})
       /\ \A u \in Units : Requesters(u)' = RequestersOf(Waiters \ {r}, u)
  BY <1>11, <1>12, <1>14, WaitersChange
<1> QED
  BY <1>4, <1>13, <1>15 DEF b

-----------------------------------------------------------------------------
(***************************************************************************)
(* What leaves the lists as they are.                                      *)
(***************************************************************************)
LEMMA SleepersKept ==
    ASSUME SleepersOK, Asleep' = Asleep, NextSleeper' = NextSleeper, UNCHANGED sleepQ
    PROVE  SleepersOK' /\ Sleepers' = Sleepers
<1>1. Sleepers' = Sleepers
  BY DEF Sleepers
<1>2. SlotsOf(Asleep)' = SlotsOf(Asleep)
  BY DEF SlotsOf, Slot
<1> QED
  BY <1>1, <1>2 DEF SleepersOK

LEMMA WalkKept ==
    ASSUME TypesOK, WalkOK, NEW p \in Pids, NEW x, Moves(p, x), x \notin {"clockWalk", "clockNext"},
           Asleep' = Asleep, NextSleeper' = NextSleeper, UNCHANGED ptr
    PROVE  WalkOK'
<1>1. SlotsOf(Asleep)' = SlotsOf(Asleep)
  BY DEF SlotsOf, Slot
<1>2. \A q \in Pids : pc'[q] = IF q = p THEN x ELSE pc[q]
  BY DEF Moves, TypesOK
<1>3. NextSleeper'[ptr'] = NextSleeper[ptr]
  OBVIOUS
<1> QED
  BY <1>1, <1>2, <1>3 DEF WalkOK

LEMMA LinksKept ==
    ASSUME TypesOK, LinksOK, NEW p \in Pids, NEW x, Moves(p, x), GoesOn(p), UNCHANGED <<test, prog>>,
           \A q \in Pids : NextSleeper'[Slot(q)] # NULL => NextSleeper[Slot(q)] # NULL,
           pc[p] \in {"block", "return"} =>
               x \in {"block", "return"} \/ line' = [line EXCEPT ![p] = @ + 1]
    PROVE  LinksOK'
<1>1. ASSUME NEW q \in Pids, NextSleeper'[Slot(q)] # NULL
      PROVE  \E i \in 1 .. line'[q] : /\ i <= Len(Calls(prog[q])) /\ Sleeps(Calls(prog[q])[i])
                                      /\ i = line'[q] => pc'[q] \in {"block", "return"}
  <2>1. PICK i \in 1 .. line[q] : /\ i <= Len(Calls(prog[q])) /\ Sleeps(Calls(prog[q])[i])
                                  /\ i = line[q] => pc[q] \in {"block", "return"}
    BY <1>1 DEF LinksOK, LinkOK
  <2>2. line[q] \in Nat /\ pc'[q] = IF q = p THEN x ELSE pc[q]
    BY DEF TypesOK, Moves
  <2>3. \/ line'[q] = line[q] /\ (q # p \/ line' # [line EXCEPT ![p] = @ + 1])
        \/ line'[q] = line[q] + 1
    BY DEF TypesOK, GoesOn
  <2> QED
    BY <2>1, <2>2, <2>3
<1>2. \A q \in Pids : LinkOK(q)'
  BY <1>1 DEF LinkOK, Slot, Sleeps, Calls, Test
<1> QED
  BY <1>2 DEF LinksOK

\* The entries of the sleepers' list that belong to processes at rest.
SameNaps(q) ==
    /\ processTable'[Slot(q)].startTime = processTable[Slot(q)].startTime
    /\ processTable'[Slot(q)].sleepEndTime = processTable[Slot(q)].sleepEndTime

LEMMA NapKept ==
    ASSUME TypesOK, NEW q \in Pids, NapOK(q), CallAt(q)' = CallAt(q), pc'[q] = pc[q],
           Unanswered(q) => Unanswered(q)' \/ processTable[Slot(q)].sleepEndTime < now,
           SameNaps(q), now' \in Nat, now <= now'
    PROVE  NapOK(q)'
<1> DEFINE c == CallAt(q)
           a == processTable[Slot(q)].startTime
           z == processTable[Slot(q)].sleepEndTime
<1>1. /\ CallAt(q)' = c /\ processTable'[Slot(q)].startTime = a
      /\ processTable'[Slot(q)].sleepEndTime = z
  BY DEF SameNaps
<1>2. now \in Nat /\ z \in Int
  BY SlotsApart DEF TypesOK, ProcRec
<1>3. pc[q] \in {"sleepAdd", "block", "return"} /\ c.call = "Sleep" =>
         /\ Sleeps(c) /\ a \in Nat /\ a <= now /\ z = Int32(a + c.seconds)
         /\ pc[q] = "sleepAdd" \/ Unanswered(q) \/ z < now
  BY DEF NapOK
<1>4. NapOK(q)' <=>
         (pc'[q] \in {"sleepAdd", "block", "return"} /\ CallAt(q)'.call = "Sleep" =>
            /\ Sleeps(CallAt(q)') /\ processTable'[Slot(q)].startTime \in Nat
            /\ processTable'[Slot(q)].startTime <= now'
            /\ processTable'[Slot(q)].sleepEndTime =
                  Int32(processTable'[Slot(q)].startTime + CallAt(q)'.seconds)
            /\ pc'[q] = "sleepAdd" \/ Unanswered(q)' \/ processTable'[Slot(q)].sleepEndTime < now')
  BY DEF NapOK, Slot, Sleeps, Int32
<1>7. Unanswered(q) => Unanswered(q)' \/ z < now
  OBVIOUS
<1> HIDE DEF c, a, z
<1>5. a \in Nat /\ a <= now => a <= now'
  BY <1>2
<1>6. z < now => z < now'
  BY <1>2
<1> QED
  BY <1>1, <1>3, <1>4, <1>5, <1>6, <1>7

LEMMA NapsKept ==
    ASSUME TypesOK, NapsOK, NEW p \in Pids, NEW x, Moves(p, x), GoesOn(p), UNCHANGED <<test, prog>>,
           pc[p] \in {"sleepAdd", "block", "return"} => x \notin {"sleepAdd", "block", "return"},
           x \notin {"sleepAdd", "block", "return"},
           Waiters' = Waiters, UNCHANGED now, currTime' <= now,
           \A q \in Pids : SameNaps(q)
    PROVE  NapsOK'
<1>1. ASSUME NEW q \in Pids PROVE NapOK(q)'
  <2>1. CASE q = p
    <3>1. pc'[q] = x
      BY <2>1, MoverIs
    <3> QED
      BY <3>1 DEF NapOK
  <2>2. CASE q # p
    <3>1. pc'[q] = pc[q] /\ CallAt(q)' = CallAt(q)
      BY <2>2, OthersWait
    <3>2. Unanswered(q)' <=> Unanswered(q)
      BY DEF Waiters
    <3>3. NapOK(q) /\ now \in Nat /\ now' \in Nat /\ now <= now'
      BY DEF NapsOK, TypesOK
    <3> QED
      BY <3>1, <3>2, <3>3, NapKept
  <2> QED
    BY <2>1, <2>2
<1> QED
  BY <1>1 DEF NapsOK

LEMMA RequestsKept ==
    ASSUME TypesOK, NEW p \in Pids, NEW x, Moves(p, x), NEW u \in Units, RequestsOK(u),
           Requesters(u)' = Requesters(u), NextDisk' = NextDisk, diskQ'[u] = diskQ[u],
           job'[u].owner = job[u].owner,
           p = Disk(u) => /\ (x \in ServingPlaces => pc[p] \in ServingPlaces)
                          /\ (x = "diskNotify" <=> pc[p] = "diskNotify")
    PROVE  RequestsOK(u)' /\ RequestList(u)' = RequestList(u)
<1>1. RequestList(u)' = RequestList(u)
  BY DEF RequestList
<1>2. pc'[Disk(u)] = IF Disk(u) = p THEN x ELSE pc[Disk(u)]
  BY PidsOfStart3 DEF Moves, TypesOK
<1>3. Notified(u)' = Notified(u) /\ (Serving(u)' => Serving(u))
      /\ (pc'[Disk(u)] = "diskNotify" <=> pc[Disk(u)] = "diskNotify")
  BY <1>2 DEF Notified, Serving, ServingPlaces, Disk
<1>4. SlotsOf(Requesters(u) \ Notified(u))' = SlotsOf(Requesters(u) \ Notified(u))
  BY <1>3 DEF SlotsOf, Slot
<1> QED
  BY <1>1, <1>3, <1>4 DEF RequestsOK, Disk, Slot

LEMMA FreeKept ==
    ASSUME FreeLinks, NextDisk' = NextDisk, \A u \in Units : RequestList(u)' = RequestList(u)
    PROVE  FreeLinks'
BY DEF FreeLinks

LEMMA EntriesKept ==
    ASSUME TypesOK, EntriesOK, NEW p \in Pids, NEW x, Moves(p, x), x # "diskAdd",
           \A u \in Units : Requesters(u)' \subseteq Requesters(u),
           \A q \in Pids : processTable'[Slot(q)].pid = processTable[Slot(q)].pid
    PROVE  EntriesOK'
<1>1. \A q \in Pids : pc'[q] = "diskAdd" => pc[q] = "diskAdd"
  BY DEF Moves, TypesOK
<1>2. Requesters(0)' \subseteq Requesters(0) /\ Requesters(1)' \subseteq Requesters(1)
  BY DEF Units
<1> QED
  BY <1>1, <1>2 DEF EntriesOK, Slot

LEMMA DoorKept ==
    ASSUME TypesOK, NEW p, OnTurn(p), NEW x, Moves(p, x), NEW u \in Units, DoorOK(u), UNCHANGED sys
                \/ \E b : OnlyBox(b) /\ b # Door(u)
    PROVE  DoorOK(u)' /\ sys'.box[Door(u)] = sys.box[Door(u)]
<1>1. sys'.box[Door(u)] = sys.box[Door(u)]
  BY BoxesOfDrivers DEF OnlyBox
<1>2. p \in Pids /\ p \notin Members(sys.box[Door(u)].receivers)
  BY BoxesOfDrivers DEF OnTurn
<1>3. sys.box[Door(u)].receivers = <<Disk(u)>> => p # Disk(u)
  <2>1. Disk(u) \in Members(<<Disk(u)>>)
    BY DEF Members
  <2> QED
    BY <1>2, <2>1
<1>4. p # Disk(u) => pc'[Disk(u)] = pc[Disk(u)]
  BY PidsOfStart3 DEF Moves, TypesOK
<1> QED
  BY <1>1, <1>3, <1>4 DEF DoorOK, Door, Disk

\* Where a driver is at work on its list.
WorkPlaces == ServingPlaces \cup {"diskNotify", "diskNotified", "gone"}

LEMMA BellKept ==
    ASSUME TypesOK, NEW p \in Pids, NEW x, Moves(p, x), GoesOn(p), UNCHANGED <<test, prog>>,
           NEW u \in Units, BellOK(u),
           sys'.box[Door(u)] = sys.box[Door(u)], diskQ'[u] = NULL \/ diskQ'[u] = diskQ[u],
           p = Disk(u) /\ pc[p] \in WorkPlaces \cup {"diskWoken"} =>
               x \in WorkPlaces \/ diskQ'[u] = NULL,
           ~(pc[p] = "diskRing" /\ UnitOf(CallAt(p)) = u)
    PROVE  BellOK(u)'
<1>1. ASSUME diskQ'[u] # NULL PROVE AtWork(u)' \/ sys'.box[Door(u)].held = 1 \/ Rings(u)'
  <2>1. AtWork(u) \/ sys.box[Door(u)].held = 1 \/ Rings(u)
    BY <1>1 DEF BellOK
  <2>2. CASE AtWork(u)
    <3>1. Disk(u) \in Pids
      BY PidsOfStart3
    <3>2. pc'[Disk(u)] = IF Disk(u) = p THEN x ELSE pc[Disk(u)]
      BY <3>1 DEF Moves, TypesOK
    <3>3. AtWork(u)' <=> \/ pc'[Disk(u)] \in WorkPlaces
                         \/ pc'[Disk(u)] = "diskWoken" /\ sys'.box[Door(u)].receivers = <<>>
      BY DEF AtWork, WorkPlaces, ServingPlaces, Disk, Door
    <3>4. AtWork(u) <=> \/ pc[Disk(u)] \in WorkPlaces
                        \/ pc[Disk(u)] = "diskWoken" /\ sys.box[Door(u)].receivers = <<>>
      BY DEF AtWork, WorkPlaces
    <3> QED
      BY <1>1, <2>2, <3>2, <3>3, <3>4
  <2>3. CASE Rings(u)
    <3>1. PICK q \in Pids : pc[q] = "diskRing" /\ UnitOf(CallAt(q)) = u
      BY <2>3 DEF Rings
    <3>2. q # p
      BY <3>1
    <3>3. pc'[q] = "diskRing" /\ CallAt(q)' = CallAt(q)
      BY <3>1, <3>2, OthersWait
    <3>4. Rings(u)'
      BY <3>1, <3>3 DEF Rings, UnitOf
    <3> QED
      BY <3>4
  <2> QED
    BY <2>1, <2>2, <2>3
<1> QED
  BY <1>1 DEF BellOK, Door

\* A step that has nothing to do with the lists.
PlainFrom == AnswerPlaces \cup WorkPlaces \cup {"sleepAdd", "diskAdd", "diskWoken"}
PlainTo ==
    AnswerPlaces \cup ServingPlaces
    \cup {"sleepAdd", "diskAdd", "diskWoken", "diskNotify", "diskNotified", "clockWalk", "clockNext"}
Plain(y, x) ==
    \/ y \notin PlainFrom /\ x \notin PlainTo
    \/ y \in ServingPlaces /\ x \in ServingPlaces

LEMMA StepLists ==
    ASSUME DriversInv, ListsInv, NEW p, OnTurn(p), NEW x, Moves(p, x), GoesOn(p),
           NEW b, Public(b), NoDoor(b), OnlyBox(b), Plain(pc[p], x) \/ x = "clockWalk",
           pc[p] \notin PlainFrom \/ Plain(pc[p], x),
           UNCHANGED <<test, prog, processTable, sleepQ, now, diskQ>>,
           \A u \in Units : job'[u].owner = job[u].owner,
           WalkOK', currTime' <= now
    PROVE  ListsInv'
<1>1. TypesOK /\ p \in Pids
  BY DEF DriversInv, OnTurn
<1>2. /\ pc[p] \notin AnswerPlaces /\ x \notin AnswerPlaces
      /\ pc[p] \notin {"sleepAdd", "block", "return", "diskRing"} /\ x \notin {"sleepAdd", "block", "return"}
      /\ x # "diskAdd"
      /\ x \in ServingPlaces => pc[p] \in ServingPlaces
      /\ x # "diskNotify" /\ pc[p] # "diskNotify"
      /\ pc[p] \in WorkPlaces \cup {"diskWoken"} => x \in WorkPlaces
  BY DEF Plain, PlainFrom, PlainTo, AnswerPlaces, WorkPlaces, ServingPlaces
<1>3. /\ Asleep' = Asleep /\ (\A u \in Units : Requesters(u)' = Requesters(u)) /\ Waiters' = Waiters
  BY <1>1, <1>2, WaitersKept
<1>4. NextSleeper' = NextSleeper /\ NextDisk' = NextDisk
  BY DEF NextSleeper, NextDisk
<1>5. PrivatesOK'
  BY <1>1, <1>2, PrivatesKept DEF ListsInv
<1>6. SleepersOK'
  BY <1>3, <1>4, SleepersKept DEF ListsInv
<1>7. LinksOK'
  BY <1>1, <1>2, <1>4, LinksKept DEF ListsInv
<1>8. NapsOK'
  <2>1. \A q \in Pids : SameNaps(q)
    BY DEF SameNaps
  <2> QED
    BY <1>1, <1>2, <1>3, <2>1, NapsKept DEF ListsInv
<1>9. ASSUME NEW u \in Units
      PROVE  RequestsOK(u)' /\ RequestList(u)' = RequestList(u) /\ DoorOK(u)' /\ BellOK(u)'
  <2>1. RequestsOK(u)' /\ RequestList(u)' = RequestList(u)
    BY <1>1, <1>2, <1>3, <1>4, RequestsKept DEF ListsInv
  <2>2. DoorOK(u)' /\ sys'.box[Door(u)] = sys.box[Door(u)]
    <3>1. b # Door(u) /\ DoorOK(u)
      BY DEF NoDoor, ListsInv
    <3> QED
      BY <1>1, <3>1, DoorKept
  <2>3. BellOK(u)'
    BY <1>1, <1>2, <2>2, BellKept DEF ListsInv
  <2> QED
    BY <2>1, <2>2, <2>3
<1>10. FreeLinks' /\ EntriesOK'
  BY <1>1, <1>2, <1>3, <1>4, <1>9, FreeKept, EntriesKept DEF ListsInv
<1> QED
  BY <1>5, <1>6, <1>7, <1>8, <1>9, <1>10 DEF ListsInv

LEMMA PlainLists ==
    ASSUME DriversInv, ListsInv, NEW p, OnTurn(p), NEW x, Moves(p, x), GoesOn(p),
           NEW b, Public(b), NoDoor(b), OnlyBox(b), Plain(pc[p], x),
           UNCHANGED <<test, prog, processTable, sleepQ, ptr, currTime, now, diskQ>>,
           \A u \in Units : job'[u].owner = job[u].owner
    PROVE  ListsInv'
<1>1. TypesOK /\ p \in Pids /\ x \notin {"clockWalk", "clockNext"}
      /\ pc[p] \notin AnswerPlaces /\ x \notin AnswerPlaces
  BY DEF DriversInv, OnTurn, Plain, PlainFrom, PlainTo, ServingPlaces, AnswerPlaces
<1>2. Asleep' = Asleep
  BY <1>1, WaitersKept
<1>3. NextSleeper' = NextSleeper
  BY DEF NextSleeper
<1>4. WalkOK'
  BY <1>1, <1>2, <1>3, WalkKept DEF ListsInv
<1>5. currTime' <= now
  BY DEF ListsInv, NapsOK
<1> QED
  BY <1>4, <1>5, StepLists

-----------------------------------------------------------------------------
(***************************************************************************)
(* The interrupts.                                                         *)
(***************************************************************************)
LEMMA StillLists ==
    ASSUME DriversInv, ListsInv, now' \in Nat, now <= now',
           UNCHANGED <<pc, test, prog, line, processTable, sleepQ, ptr, currTime, diskQ, job>>,
           \A p \in Pids : sys'.box[Private(p)] = sys.box[Private(p)],
           \A u \in Units : sys'.box[Door(u)] = sys.box[Door(u)]
    PROVE  ListsInv'
<1>1. TypesOK
  BY DEF DriversInv
<1>2. ASSUME NEW q \in Pids
      PROVE  /\ PrivateOK(q)' /\ (Unanswered(q)' <=> Unanswered(q)) /\ CallAt(q)' = CallAt(q)
             /\ NapOK(q)' /\ LinkOK(q)'
  <2>1. PrivateOK(q) /\ NapOK(q) /\ LinkOK(q) /\ sys'.box[Private(q)] = sys.box[Private(q)]
    BY DEF ListsInv, PrivatesOK, NapsOK, LinksOK
  <2>2. PrivateOK(q)' /\ (Unanswered(q)' <=> Unanswered(q))
    BY <2>1 DEF PrivateOK, Unanswered, Waiting, Private, Slot
  <2>3. CallAt(q)' = CallAt(q)
    BY DEF CallAt, Calls, Test
  <2>4. NapOK(q)'
    BY <1>1, <2>1, <2>2, <2>3, NapKept DEF SameNaps
  <2>5. LinkOK(q)'
    BY <2>1 DEF LinkOK, Sleeps, Calls, Test, NextSleeper, Slot
  <2> QED
    BY <2>2, <2>3, <2>4, <2>5
<1>3. /\ \A q \in Pids : Unanswered(q)' <=> q \in Waiters
      /\ \A q \in Waiters : CallAt(q)' = CallAt(q)
  BY <1>2 DEF Waiters
<1>4. /\ Asleep' = Asleep /\ (\A u \in Units : Requesters(u)' = Requesters(u))
  BY <1>3, WaitersChange, WaitersAre
<1>5. NextSleeper' = NextSleeper /\ NextDisk' = NextDisk
  BY DEF NextSleeper, NextDisk
<1>6. PrivatesOK' /\ LinksOK'
  BY <1>2 DEF PrivatesOK, LinksOK
<1>7. NapsOK'
  <2>1. currTime' <= now'
    BY <1>1 DEF ListsInv, NapsOK, TypesOK
  <2> QED
    BY <1>2, <2>1 DEF NapsOK
<1>8. SleepersOK'
  BY <1>4, <1>5, SleepersKept DEF ListsInv
<1>9. WalkOK'
  <2>1. SlotsOf(Asleep)' = SlotsOf(Asleep)
    BY <1>4 DEF SlotsOf, Slot
  <2> QED
    BY <1>5, <2>1 DEF ListsInv, WalkOK
<1>10. ASSUME NEW u \in Units
       PROVE  RequestsOK(u)' /\ RequestList(u)' = RequestList(u) /\ DoorOK(u)' /\ BellOK(u)'
  <2>1. RequestList(u)' = RequestList(u)
    BY <1>5 DEF RequestList
  <2>2. (Serving(u)' <=> Serving(u)) /\ Notified(u)' = Notified(u)
    BY DEF Serving, Notified, Disk
  <2>3. SlotsOf(Requesters(u) \ Notified(u))' = SlotsOf(Requesters(u) \ Notified(u))
    BY <1>4, <2>2 DEF SlotsOf, Slot
  <2>4. RequestsOK(u)'
    BY <1>4, <1>5, <2>1, <2>2, <2>3 DEF ListsInv, RequestsOK, Disk, Slot
  <2>5. DoorOK(u)'
    BY DEF ListsInv, DoorOK, Disk, Door
  <2>6. Rings(u)' <=> Rings(u)
    BY <1>2 DEF Rings, UnitOf
  <2>7. BellOK(u)'
    BY <2>6 DEF ListsInv, BellOK, AtWork, Disk, Door
  <2> QED
    BY <2>1, <2>4, <2>5, <2>7
<1>11. FreeLinks'
  BY <1>5, <1>10, FreeKept DEF ListsInv
<1>12. EntriesOK'
  BY <1>4 DEF ListsInv, EntriesOK, Units, Slot
<1> QED
  BY <1>6, <1>7, <1>8, <1>9, <1>10, <1>11, <1>12 DEF ListsInv

LEMMA InterruptsKeepLists ==
    ASSUME DriversInv, ListsInv, TimeSlice \/ ClockInterrupt \/ \E u \in Units : DiskInterrupt(u)
    PROVE  ListsInv'
<1> USE DEF sleepVars, diskVars, userVars
<1>1. SysOK /\ TypesOK /\ now \in Nat
  BY DEF DriversInv, TypesOK
<1>2. CASE TimeSlice
  <2>1. sys'.box = sys.box
    <3>1. MachineOK(sys, Boxes, {"running"}) /\ HasEqual(sys) /\ sys' = Sliced(sys)
      BY <1>1, <1>2 DEF TimeSlice, SysOK
    <3> QED
      BY <3>1, SlicedIsOK DEF SameButQueue
  <2>2. UNCHANGED <<pc, test, prog, line, processTable, sleepQ, ptr, currTime, diskQ, job, now>>
    BY <1>2 DEF TimeSlice
  <2> QED
    BY <1>1, <2>1, <2>2, StillLists
<1>3. ASSUME NEW b \in Boxes, Common(b), sys' = CondSent(sys, b)
      PROVE  /\ \A p \in Pids : sys'.box[Private(p)] = sys.box[Private(p)]
             /\ \A u \in Units : sys'.box[Door(u)] = sys.box[Door(u)]
  <2>1. OnlyBox(b)
    BY <1>1, <1>3, CondSends
  <2> QED
    BY <1>3, <2>1, BoxesPublic, SlotsApart, BoxesOfDrivers DEF OnlyBox, Public, NoDoor
<1>4. CASE ClockInterrupt
  <2>1. ClockDevice \in Boxes /\ Common(ClockDevice) /\ sys' = CondSent(sys, ClockDevice)
    BY <1>4, BoxesOfDrivers DEF ClockInterrupt, Common
  <2>2. UNCHANGED <<pc, test, prog, line, processTable, sleepQ, ptr, currTime, diskQ, job>>
        /\ now' = now + 1
    BY <1>4 DEF ClockInterrupt
  <2>3. now' \in Nat /\ now <= now'
    BY <1>1, <2>2
  <2> QED
    BY <1>3, <2>1, <2>2, <2>3, StillLists
<1>5. CASE \E u \in Units : DiskInterrupt(u)
  <2>1. PICK u \in Units : DiskInterrupt(u)
    BY <1>5
  <2>2. Device(u) \in Boxes /\ Common(Device(u)) /\ sys' = CondSent(sys, Device(u))
    BY <2>1, BoxesOfDrivers DEF DiskInterrupt, Common
  <2>3. UNCHANGED <<pc, test, prog, line, processTable, sleepQ, ptr, currTime, diskQ, job, now>>
    BY <2>1 DEF DiskInterrupt
  <2> QED
    BY <1>1, <1>3, <2>2, <2>3, StillLists
<1> QED
  BY <1>2, <1>4, <1>5

-----------------------------------------------------------------------------
(***************************************************************************)
(* The clock driver.                                                       *)
(***************************************************************************)
\* Entries change in the links of the sleepers only.
SleepLinksOnly ==
    \A s \in Slots :
        LET new == processTable'[s]
            old == processTable[s]
        IN  /\ new.pid = old.pid /\ new.nextDiskProc = old.nextDiskProc
            /\ new.startTime = old.startTime /\ new.sleepEndTime = old.sleepEndTime
            /\ new.track = old.track /\ new.first = old.first /\ new.sectors = old.sectors

LEMMA SleepLinksIs ==
    ASSUME TypesOK, SleepLinksOnly
    PROVE  /\ NextDisk' = NextDisk /\ \A q \in Pids : SameNaps(q)
           /\ \A q \in Pids : processTable'[Slot(q)].pid = processTable[Slot(q)].pid
<1>1. NextDisk' = NextDisk
  BY DEF SleepLinksOnly, NextDisk
<1> QED
  BY <1>1, SlotsApart DEF SleepLinksOnly, SameNaps

LEMMA RangeIsMembers ==
    ASSUME NEW S, NEW q \in Seq(S)
    PROVE  Range(q) = Members(q)
<1>1. DOMAIN q = 1 .. Len(q)
  BY LenProperties
<1> QED
  BY <1>1 DEF Range, Members

LEMMA SleeperRemoved ==
    ASSUME TypesOK, SleepersOK, NEW s \in Members(Sleepers), RemoveFromSleepQ(s)
    PROVE  /\ IsList(Slots, NULL, Sleepers', sleepQ', NextSleeper')
           /\ Members(Sleepers') = Members(Sleepers) \ {s}
           /\ NextSleeper'[s] = NextSleeper[s]
           /\ \A t \in Slots : NextSleeper'[t] # NULL => NextSleeper[t] # NULL
           /\ SleepLinksOnly /\ sleepQ' \in Pointers /\ NextSleeper' \in [Slots -> Pointers]
<1> DEFINE q == Sleepers
           next == NextSleeper
           links == NextSleeper'
<1>1. /\ IsList(Slots, NULL, q, sleepQ, next) /\ q \in Seq(Slots) /\ next \in [Slots -> Pointers]
      /\ NULL \notin Slots /\ sleepQ \in Pointers /\ s \in Members(q)
  BY LinksAreLinks, DriversAssumption DEF SleepersOK, TypesOK
<1>2. /\ next = [t \in Slots |-> processTable[t].nextSleeperProc]
      /\ links = [t \in Slots |-> processTable'[t].nextSleeperProc]
      /\ Sleepers' = Chain(links, sleepQ')
  BY DEF NextSleeper, Sleepers
<1>3. Range(q) = Members(q)
  BY <1>1, RangeIsMembers
<1>4. PICK i \in 1 .. Len(q) : s = q[i]
  BY <1>1 DEF Members
<1>5. s \in Slots /\ processTable \in [Slots -> ProcRec] /\ Len(q) \in Nat
  BY <1>1, <1>4, ElementOfSeq, LenProperties DEF TypesOK
<1>a. next[s] = processTable[s].nextSleeperProc
  BY <1>2, <1>5
<1> HIDE DEF q, next, links
<1>6. CASE sleepQ = s
  <2>1. sleepQ' = next[s] /\ processTable' = processTable
    BY <1>6, <1>a DEF RemoveFromSleepQ
  <2>2. links = next
    BY <1>2, <2>1
  <2>3. /\ q # <<>> /\ IsList(Slots, NULL, Tail(q), next[s], next)
        /\ Members(Tail(q)) = Members(q) \ {s}
    <3>1. sleepQ # NULL
      BY <1>1, <1>5, <1>6
    <3> QED
      BY <1>1, <1>6, <3>1, ListTail
  <2>4. next[s] \in Pointers
    BY <1>1, <1>5
  <2>5. Sleepers' = Tail(q)
    <3> DEFINE t == Tail(q)
    <3>1. IsList(Slots, NULL, t, next[s], next)
      BY <2>3
    <3> HIDE DEF t
    <3>2. Chain(next, next[s]) = t
      BY <1>1, <2>4, <3>1, ChainIsList
    <3> QED
      BY <1>2, <2>1, <2>2, <3>2 DEF t
  <2>6. SleepLinksOnly
    BY <2>1 DEF SleepLinksOnly
  <2> QED
    BY <1>1, <2>1, <2>2, <2>3, <2>4, <2>5, <2>6 DEF q, next, links
<1>7. CASE sleepQ # s
  <2>1. sleepQ' = sleepQ
        /\ processTable' = [t \in Slots |->
              IF t \in Range(q) /\ processTable[t].nextSleeperProc = s
              THEN [processTable[t] EXCEPT !.nextSleeperProc = processTable[s].nextSleeperProc]
              ELSE processTable[t]]
    BY <1>7 DEF RemoveFromSleepQ, q
  <2>2. i \in 2 .. Len(q) /\ i-1 \in 1 .. Len(q) /\ (i-1)+1 = i /\ i-1 # Len(q)
    <3>1. i # 1
      BY <1>1, <1>4, <1>5, <1>7 DEF IsList
    <3> QED
      BY <1>5, <3>1
  <2>3. next[q[i-1]] = s /\ q[i-1] \in Members(q) /\ s # NULL
    BY <1>1, <1>4, <1>5, <2>2 DEF IsList, Members
  <2>4. \A t \in Slots : t \in Range(q) /\ next[t] = s <=> t = q[i-1]
    <3>1. \A x, y \in Members(q) : next[x] = next[y] => x = y \/ next[x] = NULL
      BY <1>1, NextInList
    <3> QED
      BY <1>3, <2>3, <3>1
  <2>5. \A t \in Slots : processTable'[t] =
              IF t = q[i-1] THEN [processTable[t] EXCEPT !.nextSleeperProc = next[s]]
              ELSE processTable[t]
    <3>1. \A t \in Slots : processTable[t].nextSleeperProc = next[t]
      BY <1>2
    <3> QED
      BY <2>1, <2>4, <3>1, <1>a
  <2>6. \A t \in Slots : links[t] = IF t = q[i-1] THEN next[q[i]] ELSE next[t]
    <3>1. ASSUME NEW t \in Slots PROVE links[t] = IF t = q[i-1] THEN next[q[i]] ELSE next[t]
      <4>1. processTable[t] \in ProcRec
        BY <1>5
      <4>2. links[t] = processTable'[t].nextSleeperProc /\ next[t] = processTable[t].nextSleeperProc
        BY <1>2
      <4>3. CASE t = q[i-1]
        <5>1. processTable'[t] = [processTable[t] EXCEPT !.nextSleeperProc = next[s]]
          BY <2>5, <4>3
        <5>2. processTable'[t].nextSleeperProc = next[s]
          BY <4>1, <5>1 DEF ProcRec
        <5> QED
          BY <1>4, <4>2, <4>3, <5>2
      <4>4. CASE t # q[i-1]
        BY <2>5, <4>2, <4>4
      <4> QED
        BY <4>3, <4>4
    <3> QED
      BY <3>1
  <2>7. /\ IsList(Slots, NULL, RemoveAt(q, i), sleepQ, links)
        /\ Members(RemoveAt(q, i)) = Members(q) \ {q[i]}
    BY <1>1, <2>2, <2>6, ListRemoveAt
  <2>8. next[s] \in Pointers /\ links \in [Slots -> Pointers]
    <3>1. next[s] \in Pointers
      BY <1>1, <1>5
    <3>2. \A t \in Slots : links[t] \in Pointers
      BY <1>1, <1>4, <2>6, <3>1
    <3>3. links = [t \in Slots |-> links[t]]
      BY <1>2
    <3> QED
      BY <3>1, <3>2, <3>3
  <2>9. Sleepers' = RemoveAt(q, i)
    <3> DEFINE r == RemoveAt(q, i)
    <3>1. IsList(Slots, NULL, r, sleepQ, links)
      BY <2>7
    <3> HIDE DEF r
    <3>2. Chain(links, sleepQ) = r
      BY <1>1, <2>8, <3>1, ChainIsList
    <3> QED
      BY <1>2, <2>1, <3>2 DEF r
  <2>10. s # q[i-1]
    <3>1. next[s] # s \/ next[s] = NULL
      BY <1>1, NextInList
    <3> QED
      BY <2>3, <3>1
  <2>11. SleepLinksOnly
    <3>1. ASSUME NEW t \in Slots
          PROVE  /\ processTable'[t].pid = processTable[t].pid
                 /\ processTable'[t].nextDiskProc = processTable[t].nextDiskProc
                 /\ processTable'[t].startTime = processTable[t].startTime
                 /\ processTable'[t].sleepEndTime = processTable[t].sleepEndTime
                 /\ processTable'[t].track = processTable[t].track
                 /\ processTable'[t].first = processTable[t].first
                 /\ processTable'[t].sectors = processTable[t].sectors
      <4>1. processTable[t] \in ProcRec
        BY <1>5
      <4> QED
        BY <2>5, <4>1 DEF ProcRec
    <3> QED
      BY <3>1 DEF SleepLinksOnly
  <2>12. \A t \in Slots : links[t] # NULL => next[t] # NULL
    BY <1>4, <2>3, <2>6
  <2>13. links[s] = next[s]
    BY <1>5, <2>6, <2>10
  <2>14. sleepQ' \in Pointers
    BY <1>1, <2>1
  <2>15. IsList(Slots, NULL, Sleepers', sleepQ', links) /\ Members(Sleepers') = Members(q) \ {s}
    BY <1>4, <2>1, <2>7, <2>9
  <2> QED
    BY <2>8, <2>11, <2>12, <2>13, <2>14, <2>15 DEF q, next, links
<1> QED
  BY <1>6, <1>7

\* Neither walk is on, but for the process on turn.
LEMMA NobodyElseWalks ==
    ASSUME DriversInv, NEW p, OnTurn(p), pc[p] \in SleepPlaces, NEW x, Moves(p, x),
           NEW q \in Pids, pc'[q] \in {"clockWalk", "clockNext"}
    PROVE  q = p
<1>1. TypesOK /\ SleepOK /\ p \in Pids
  BY DEF DriversInv, OnTurn
<1>2. q # p => pc'[q] = pc[q]
  BY <1>1 DEF Moves, TypesOK
<1> QED
  BY <1>1, <1>2, SleepHolder

LEMMA ClockWakeLists ==
    ASSUME DriversInv, ListsInv, ClockWake
    PROVE  ListsInv'
<1> USE DEF sleepVars, diskVars, userVars
<1>1. /\ TypesOK /\ SysOK /\ OnTurn(me) /\ me # IDLE /\ me \in Pids /\ pc[me] = "clockWalk"
      /\ SleepersOK /\ WalkOK /\ PrivatesOK /\ NapsOK
  BY RunsAt DEF ClockWake, DriversInv, ListsInv
<1>2. /\ ptr # NULL /\ Due(ptr) /\ RemoveFromSleepQ(ptr) /\ sys' = Sent(sys, <<"private", ptr>>)
      /\ Then("clockNext") /\ UNCHANGED <<ptr, currTime, now, diskQ, job, test, prog, line>>
  BY DEF ClockWake
<1>3. Moves(me, "clockNext") /\ GoesOn(me)
  BY <1>2 DEF Moves, Positions, Then, GoesOn
<1>4. PICK r \in Asleep : ptr = Slot(r)
  BY <1>1, <1>2 DEF WalkOK, SlotsOf
<1>5. r \in Waiters /\ r \in Pids /\ Unanswered(r) /\ CallAt(r).call = "Sleep" /\ Private(r) = <<"private", ptr>>
  BY <1>4, SlotsApart DEF Asleep, Waiters
<1>6. ptr \in Members(Sleepers) /\ ptr \in Slots
  BY <1>1, <1>4, <1>5, SlotsApart DEF SleepersOK, SlotsOf
<1>7. /\ IsList(Slots, NULL, Sleepers', sleepQ', NextSleeper')
      /\ Members(Sleepers') = Members(Sleepers) \ {ptr}
      /\ NextSleeper'[ptr] = NextSleeper[ptr]
      /\ \A t \in Slots : NextSleeper'[t] # NULL => NextSleeper[t] # NULL
      /\ SleepLinksOnly
  BY <1>1, <1>2, <1>6, SleeperRemoved
<1>8. NextDisk' = NextDisk /\ (\A q \in Pids : SameNaps(q))
      /\ \A q \in Pids : processTable'[Slot(q)].pid = processTable[Slot(q)].pid
  BY <1>1, <1>7, SleepLinksIs
<1>9. /\ PrivatesOK' /\ Waiters' = Waiters \ {r} /\ OnlyBox(Private(r))
      /\ Asleep' = SleepersOf(Waiters') /\ \A u \in Units : Requesters(u)' = RequestersOf(Waiters', u)
  <2>1. "clockNext" \notin AnswerPlaces /\ pc[me] \notin AnswerPlaces
    BY <1>1 DEF AnswerPlaces
  <2> QED
    BY <1>1, <1>2, <1>3, <1>5, <2>1, WaiterAnswered
<1>10. Asleep' = Asleep \ {r} /\ \A u \in Units : Requesters(u)' = Requesters(u)
  <2>1. Asleep' = Asleep \ {r}
    BY <1>9, WaitersAre DEF SleepersOf
  <2>2. ASSUME NEW u \in Units PROVE Requesters(u)' = Requesters(u)
    <3>1. Requesters(u)' = RequestersOf(Waiters', u) /\ Requesters(u) = RequestersOf(Waiters, u)
      BY <1>9, WaitersAre
    <3> QED
      BY <1>5, <1>9, <3>1 DEF RequestersOf
  <2> QED
    BY <2>1, <2>2
<1>11. SlotsOf(Asleep)' = SlotsOf(Asleep) \ {ptr}
  <2>1. Asleep \subseteq Pids
    BY DEF Asleep
  <2>2. SlotsOf(Asleep') = SlotsOf(Asleep) \ {ptr}
    BY <1>4, <1>10, <2>1, SlotsApart DEF SlotsOf
  <2> QED
    BY <2>2 DEF SlotsOf, Slot
<1>12. SleepersOK'
  BY <1>1, <1>7, <1>11 DEF SleepersOK
<1>13. WalkOK'
  <2>1. ASSUME NEW q \in Pids, pc'[q] \in {"clockWalk", "clockNext"}
        PROVE  pc'[q] = "clockNext"
    BY <1>1, <1>3, <2>1, NobodyElseWalks, MoverIs DEF SleepPlaces
  <2>2. NextSleeper[ptr] \in Members(Sleepers) \cup {NULL}
        /\ (NextSleeper[ptr] # ptr \/ NextSleeper[ptr] = NULL)
    BY <1>1, <1>6, NextInList DEF SleepersOK
  <2>3. NextSleeper'[ptr'] \in SlotsOf(Asleep)' \cup {NULL}
    BY <1>1, <1>2, <1>7, <1>11, <2>2 DEF SleepersOK
  <2> QED
    BY <2>1, <2>3 DEF WalkOK
<1>14. LinksOK'
  <2>1. \A q \in Pids : NextSleeper'[Slot(q)] # NULL => NextSleeper[Slot(q)] # NULL
    BY <1>7, SlotsApart
  <2> QED
    BY <1>1, <1>2, <1>3, <2>1, LinksKept DEF ListsInv
<1>15. NapsOK'
  <2>1. currTime <= now /\ now \in Nat /\ currTime \in Nat
    BY <1>1 DEF NapsOK, TypesOK
  <2>2. ASSUME NEW q \in Pids PROVE NapOK(q)'
    <3>1. CASE q = me
      BY <1>1, <1>3, <3>1, MoverIs DEF NapOK
    <3>2. CASE q # me
      <4>1. pc'[q] = pc[q] /\ CallAt(q)' = CallAt(q)
        BY <1>1, <1>2, <1>3, <3>2, OthersWait
      <4>2. Unanswered(q) => Unanswered(q)' \/ processTable[Slot(q)].sleepEndTime < now
        <5>1. CASE q = r
          <6>1. processTable[Slot(q)].sleepEndTime < currTime
            BY <1>2, <1>4, <5>1 DEF Due
          <6>2. processTable[Slot(q)].sleepEndTime \in Int
            BY <1>1, SlotsApart DEF TypesOK, ProcRec
          <6> QED
            BY <2>1, <6>1, <6>2
        <5>2. CASE q # r
          BY <1>9, <5>2 DEF Waiters
        <5> QED
          BY <5>1, <5>2
      <4>3. NapOK(q) /\ SameNaps(q)
        BY <1>1, <1>8 DEF NapsOK
      <4>4. now' \in Nat /\ now <= now'
        BY <1>2, <2>1
      <4> QED
        BY <1>1, <4>1, <4>2, <4>3, <4>4, NapKept
    <3> QED
      BY <3>1, <3>2
  <2> QED
    BY <1>2, <2>1, <2>2 DEF NapsOK
<1>16. ASSUME NEW u \in Units
       PROVE  RequestsOK(u)' /\ RequestList(u)' = RequestList(u) /\ DoorOK(u)' /\ BellOK(u)'
  <2>1. RequestsOK(u) /\ DoorOK(u) /\ BellOK(u)
    BY DEF ListsInv
  <2>2. RequestsOK(u)' /\ RequestList(u)' = RequestList(u)
    BY <1>1, <1>2, <1>3, <1>8, <1>10, <2>1, RequestsKept DEF ServingPlaces
  <2>3. DoorOK(u)' /\ sys'.box[Door(u)] = sys.box[Door(u)]
    <3>1. Private(r) # Door(u)
      BY <1>5, BoxesPublic DEF Public
    <3> QED
      BY <1>1, <1>3, <1>9, <2>1, <3>1, DoorKept
  <2>4. BellOK(u)'
    BY <1>1, <1>2, <1>3, <2>1, <2>3, BellKept DEF WorkPlaces, ServingPlaces
  <2> QED
    BY <2>2, <2>3, <2>4
<1>17. FreeLinks' /\ EntriesOK'
  BY <1>1, <1>3, <1>8, <1>10, <1>16, FreeKept, EntriesKept DEF ListsInv
<1> QED
  BY <1>9, <1>12, <1>13, <1>14, <1>15, <1>16, <1>17 DEF ListsInv
\* A step that has nothing to do with the lists: mailbox b changes, if any.
LEMMA PlainStep ==
    ASSUME DriversInv, ListsInv, OnTurn(me), NEW x \in Positions, Then(x), GoesOn(me),
           NEW b, Common(b), OnlyBox(b), Plain(pc[me], x),
           UNCHANGED <<test, prog, processTable, sleepQ, ptr, currTime, now, diskQ>>,
           \A u \in Units : job'[u].owner = job[u].owner
    PROVE  ListsInv'
<1>1. Moves(me, x) /\ Public(b) /\ NoDoor(b)
  BY BoxesPublic DEF Moves, Then
<1> QED
  BY <1>1, PlainLists

LEMMA QuitLists ==
    ASSUME DriversInv, ListsInv, OnTurn(me), me # IDLE, Then("gone"), NEW status \in Int,
           sys' = Quit(sys, status), pc[me] \notin PlainFrom,
           UNCHANGED <<test, prog, line, processTable, sleepQ, ptr, currTime, now, diskQ, job>>
    PROVE  ListsInv'
<1>1. OnlyBox(NoBox)
  BY KinOnly DEF DriversInv
<1>2. GoesOn(me) /\ "gone" \in Positions /\ Common(NoBox) /\ "gone" \notin PlainTo
  BY DEF GoesOn, Positions, Common, PlainTo, AnswerPlaces, ServingPlaces
<1> QED
  BY <1>1, <1>2, PlainStep DEF Plain

\* The places of the clock driver.
ClockPlaces == {"ClockDriver", "clockLoop", "clockTick", "clockScan", "clockWalk", "clockNext"}

LEMMA ClockPlain ==
    ASSUME DriversInv, ListsInv, OnTurn(me), pc[me] \in ClockPlaces,
           NEW x \in {"clockLoop", "clockTick", "clockScan"}, Then(x), UNCHANGED line,
           NEW b, Common(b), OnlyBox(b),
           UNCHANGED <<test, prog, processTable, sleepQ, ptr, currTime, now, diskQ, job>>
    PROVE  ListsInv'
<1>1. x \in Positions /\ GoesOn(me) /\ Plain(pc[me], x)
  BY DEF Positions, GoesOn, Plain, PlainFrom, PlainTo, AnswerPlaces, WorkPlaces, ServingPlaces, ClockPlaces
<1> QED
  BY <1>1, PlainStep

\* The clock driver goes on to a sleeper, or to the end of the list.
LEMMA ClockGoes ==
    ASSUME DriversInv, ListsInv, OnTurn(me), me # IDLE, pc[me] \in {"clockScan", "clockWalk", "clockNext"},
           Then("clockWalk"), ptr' \in SlotsOf(Asleep) \cup {NULL}, currTime' <= now,
           UNCHANGED <<test, prog, line, sys, processTable, sleepQ, now, diskQ, job>>
    PROVE  ListsInv'
<1>1. Moves(me, "clockWalk") /\ GoesOn(me) /\ me \in Pids /\ pc[me] \in SleepPlaces
  BY DEF Moves, Then, Positions, GoesOn, OnTurn, SleepPlaces
<1>2. OnlyBox(NoBox) /\ Public(NoBox) /\ NoDoor(NoBox)
  BY BoxesPublic DEF OnlyBox, Common
<1>3. pc[me] \notin PlainFrom /\ pc[me] \notin AnswerPlaces /\ "clockWalk" \notin AnswerPlaces
  BY DEF PlainFrom, AnswerPlaces, WorkPlaces, ServingPlaces
<1>4. Asleep' = Asleep
  BY <1>1, <1>2, <1>3, WaitersKept DEF DriversInv
<1>5. WalkOK'
  <2>1. ASSUME NEW q \in Pids PROVE pc'[q] # "clockNext"
    BY <1>1, <2>1, NobodyElseWalks, MoverIs DEF DriversInv
  <2>2. SlotsOf(Asleep)' = SlotsOf(Asleep)
    BY <1>4 DEF SlotsOf, Slot
  <2> QED
    BY <2>1, <2>2 DEF WalkOK
<1> QED
  BY <1>1, <1>2, <1>3, <1>5, StepLists

LEMMA ClockLists ==
    ASSUME DriversInv, ListsInv, ClockDriver
    PROVE  ListsInv'
<1> USE DEF sleepVars, diskVars, userVars
<1>0. Common(NoBox) /\ Common(ClockDevice) /\ Common(SleepLock)
  BY DEF Common
<1>1. CASE ClockStart
  <2>1. OnTurn(me) /\ me # IDLE /\ pc[me] \in ClockPlaces
    BY <1>1, RunsAt DEF ClockStart, ClockPlaces
  <2>2. OnlyBox(NoBox)
    BY <1>1, <2>1, KinOnly DEF ClockStart, DriversInv
  <2> QED
    BY <1>0, <1>1, <2>1, <2>2, ClockPlain DEF ClockStart
<1>2. CASE ClockLoop
  <2>1. OnTurn(me) /\ me # IDLE /\ pc[me] = "clockLoop" /\ pc[me] \in ClockPlaces
    BY <1>2, RunsAt DEF ClockLoop, ClockPlaces
  <2>2. CASE IsZapped(sys)
    BY <1>2, <2>1, <2>2, QuitLists
    DEF ClockLoop, PlainFrom, AnswerPlaces, WorkPlaces, ServingPlaces
  <2>3. CASE ~IsZapped(sys)
    <3>1. sys' = Received(sys, ClockDevice) /\ Then("clockTick")
      BY <1>2, <2>3 DEF ClockLoop
    <3>2. OnlyBox(ClockDevice)
      BY <2>1, <3>1, Receives, BoxesOfDrivers DEF DriversInv
    <3> QED
      BY <1>0, <1>2, <2>1, <3>1, <3>2, ClockPlain DEF ClockLoop
  <2> QED
    BY <2>2, <2>3
<1>3. CASE ClockTick
  <2>1. OnTurn(me) /\ me # IDLE /\ pc[me] = "clockTick" /\ pc[me] \in ClockPlaces
    BY <1>3, RunsAt DEF ClockTick, ClockPlaces
  <2>2. CASE IsZapped(sys)
    BY <1>3, <2>1, <2>2, QuitLists
    DEF ClockTick, PlainFrom, AnswerPlaces, WorkPlaces, ServingPlaces
  <2>3. CASE ~IsZapped(sys)
    <3>1. sys' = Sent(sys, SleepLock) /\ Then("clockScan")
      BY <1>3, <2>3 DEF ClockTick
    <3>2. OnlyBox(SleepLock)
      BY <2>1, <3>1, Sends, BoxesOfDrivers DEF DriversInv
    <3> QED
      BY <1>0, <1>3, <2>1, <3>1, <3>2, ClockPlain DEF ClockTick
  <2> QED
    BY <2>2, <2>3
<1>4. CASE ClockScan
  <2>1. OnTurn(me) /\ me # IDLE /\ pc[me] = "clockScan"
    BY <1>4, RunsAt DEF ClockScan
  <2>2. sleepQ \in SlotsOf(Asleep) \cup {NULL}
    BY ListFirst, DriversAssumption DEF ListsInv, SleepersOK
  <2>3. now <= now
    BY DEF DriversInv, TypesOK
  <2> QED
    BY <1>4, <2>1, <2>2, <2>3, ClockGoes DEF ClockScan
<1>5. CASE ClockWake
  BY <1>5, ClockWakeLists
<1>6. CASE ClockNext
  <2>1. OnTurn(me) /\ me # IDLE /\ me \in Pids /\ pc[me] \in {"clockWalk", "clockNext"}
    BY <1>6, RunsAt DEF ClockNext
  <2>2. ptr' = NextSleeper[ptr] /\ ptr # NULL
    <3>1. ptr # NULL
      BY <1>6, <2>1 DEF ClockNext, Runs, DriversInv, SleepOK
    <3>2. ptr \in Slots
      BY <3>1 DEF DriversInv, TypesOK, Pointers
    <3> QED
      BY <1>6, <3>1, <3>2 DEF ClockNext, NextSleeper
  <2>3. ptr' \in SlotsOf(Asleep) \cup {NULL}
    <3>1. CASE pc[me] = "clockNext"
      BY <2>1, <2>2, <3>1 DEF ListsInv, WalkOK
    <3>2. CASE pc[me] = "clockWalk"
      <4>1. ptr \in Members(Sleepers)
        BY <2>1, <2>2, <3>2 DEF ListsInv, WalkOK, SleepersOK
      <4>2. NextSleeper[ptr] \in Members(Sleepers) \cup {NULL}
        BY <4>1, NextInList, DriversAssumption, LinksAreLinks DEF ListsInv, SleepersOK, DriversInv
      <4> QED
        BY <2>2, <4>2 DEF ListsInv, SleepersOK
    <3> QED
      BY <2>1, <3>1, <3>2
  <2>4. currTime' <= now
    BY <1>6 DEF ClockNext, ListsInv, NapsOK
  <2> QED
    BY <1>6, <2>1, <2>3, <2>4, ClockGoes DEF ClockNext
<1>7. CASE ClockDone
  <2>1. OnTurn(me) /\ me # IDLE /\ pc[me] \in ClockPlaces
    BY <1>7, RunsAt DEF ClockDone, ClockPlaces
  <2>2. OnlyBox(SleepLock)
    BY <1>7, <2>1, Receives, BoxesOfDrivers DEF ClockDone, DriversInv
  <2> QED
    BY <1>0, <1>7, <2>1, <2>2, ClockPlain DEF ClockDone
<1> QED
  BY <1>1, <1>2, <1>3, <1>4, <1>5, <1>6, <1>7 DEF ClockDriver
-----------------------------------------------------------------------------
(***************************************************************************)
(* The disk drivers.                                                       *)
(***************************************************************************)
\* The entries as the sleepers know them.
SameSleepers ==
    /\ NextSleeper' = NextSleeper
    /\ \A q \in Pids : /\ SameNaps(q)
                       /\ processTable'[Slot(q)].pid = processTable[Slot(q)].pid

\* And what they ask of the disks.
SameFields ==
    \A t \in Slots : LET new == processTable'[t]
                         old == processTable[t]
                     IN  new.track = old.track /\ new.first = old.first /\ new.sectors = old.sectors

\* What is kept by a step of somebody who is in no list, whatever happens to requests and doors.
OthersKept ==
    /\ PrivatesOK' /\ SleepersOK' /\ WalkOK' /\ LinksOK' /\ NapsOK' /\ EntriesOK'
    /\ Waiters' = Waiters /\ \A u \in Units : Requesters(u)' = Requesters(u)

LEMMA StepKeepsOthers ==
    ASSUME DriversInv, ListsInv, NEW p, OnTurn(p), NEW x, Moves(p, x), GoesOn(p),
           NEW b, Public(b), OnlyBox(b), pc[p] \notin AnswerPlaces,
           x \notin AnswerPlaces \cup {"sleepAdd", "diskAdd", "clockWalk", "clockNext"},
           UNCHANGED <<test, prog, sleepQ, ptr, currTime, now>>, SameSleepers
    PROVE  OthersKept
<1>1. TypesOK /\ p \in Pids
  BY DEF DriversInv, OnTurn
<1>2. /\ pc[p] \notin AnswerPlaces /\ x \notin AnswerPlaces
      /\ pc[p] \notin {"block", "return"} /\ x \notin {"sleepAdd", "block", "return"}
      /\ x # "diskAdd" /\ x \notin {"clockWalk", "clockNext"}
  BY DEF AnswerPlaces
<1>3. /\ Asleep' = Asleep /\ (\A u \in Units : Requesters(u)' = Requesters(u)) /\ Waiters' = Waiters
  BY <1>1, <1>2, WaitersKept
<1>4. PrivatesOK'
  BY <1>1, <1>2, PrivatesKept DEF ListsInv
<1>5. SleepersOK' /\ WalkOK'
  BY <1>1, <1>2, <1>3, SleepersKept, WalkKept DEF ListsInv, SameSleepers
<1>6. LinksOK'
  BY <1>1, <1>2, LinksKept DEF ListsInv, SameSleepers
<1>7. NapsOK'
  BY <1>1, <1>2, <1>3, NapsKept DEF ListsInv, SameSleepers, NapsOK
<1>8. EntriesOK'
  BY <1>1, <1>2, <1>3, EntriesKept DEF ListsInv, SameSleepers
<1> QED
  BY <1>3, <1>4, <1>5, <1>6, <1>7, <1>8 DEF OthersKept

\* What the mailbox of a door is.
LEMMA DoorIs ==
    ASSUME SysOK, ListsInv, NEW u \in Units
    PROVE  /\ sys.box[Door(u)] \in BoxRec /\ DoorOK(u) /\ BellOK(u) /\ Door(u) \in Boxes
           /\ Disk(u) \in Pids
BY BoxesOfDrivers, PidsOfStart3 DEF SysOK, MachineOK, Machines, ListsInv

\* The door is rung: its driver is on its way, or finds it rung.
LEMMA DoorRung ==
    ASSUME SysOK, ListsInv, NEW u \in Units, NEW p \in Pids,
           pc[Disk(u)] = "diskWoken" => pc'[Disk(u)] = "diskWoken",
           \/ sys'.box[Door(u)] = SentBox(sys.box[Door(u)], p)
           \/ sys'.box[Door(u)] = CondSentBox(sys.box[Door(u)])
    PROVE  /\ DoorOK(u)'
           /\ \/ sys'.box[Door(u)].held = 1
              \/ pc[Disk(u)] = "diskWoken" /\ sys'.box[Door(u)].receivers = <<>>
<1> DEFINE box == sys.box[Door(u)]
           new == sys'.box[Door(u)]
<1>1. box \in BoxRec /\ DoorOK(u) /\ Disk(u) \in Pids
  BY DoorIs
<1>2. /\ box.slots = 1 /\ box.held \in {0, 1} /\ (box.senders # <<>> => box.held = 1)
      /\ \/ box.receivers = <<>>
         \/ box.receivers = <<Disk(u)>> /\ pc[Disk(u)] = "diskWoken" /\ box.held = 0
  BY <1>1 DEF DoorOK
<1>3. /\ new.slots = box.slots
      /\ \/ new.senders = box.senders
         \/ box.receivers = <<>> /\ ~(box.held < box.slots)
      /\ new.held = IF box.receivers = <<>> /\ box.held < box.slots THEN box.held + 1 ELSE box.held
      /\ new.receivers = IF box.receivers = <<>> THEN <<>> ELSE Tail(box.receivers)
  <2>1. CASE new = SentBox(box, p)
    BY <1>1, <2>1, SentBoxIs
  <2>2. CASE new = CondSentBox(box)
    BY <1>1, <2>2, CondSentBoxIs
  <2> QED
    BY <2>1, <2>2
<1>4. \A d : Tail(<<d>>) = <<>> /\ <<d>> # <<>>
  OBVIOUS
<1> HIDE DEF box, new
<1>5. CASE box.receivers = <<>>
  <2>1. box.held < box.slots => box.held = 0
    BY <1>2
  <2>2. ~(box.held < box.slots) => box.held = 1
    BY <1>2
  <2>3. new.held = 1 /\ new.slots = 1 /\ new.receivers = <<>>
    BY <1>2, <1>3, <1>5, <2>1, <2>2
  <2> QED
    BY <2>3 DEF DoorOK, Door, new
<1>6. CASE box.receivers # <<>>
  <2>1. box.receivers = <<Disk(u)>> /\ box.held = 0 /\ box.senders = <<>>
    BY <1>2, <1>6
  <2>2. Tail(box.receivers) = <<>>
    BY <1>4, <2>1
  <2>3. new.held = 0 /\ new.slots = 1 /\ new.receivers = <<>> /\ new.senders = <<>>
    BY <1>2, <1>3, <1>6, <2>1, <2>2
  <2> QED
    BY <1>2, <1>6, <2>3 DEF DoorOK, Door, new
<1> QED
  BY <1>5, <1>6

\* Its driver goes to its door.
LEMMA DoorWaits ==
    ASSUME SysOK, ListsInv, NEW u \in Units, pc[Disk(u)] = "diskLoop", pc'[Disk(u)] = "diskWoken",
           sys'.box[Door(u)] = ReceivedBox(sys.box[Door(u)], Disk(u))
    PROVE  /\ DoorOK(u)'
           /\ sys.box[Door(u)].held = 1 => sys'.box[Door(u)].receivers = <<>>
<1> DEFINE box == sys.box[Door(u)]
           new == sys'.box[Door(u)]
<1>1. box \in BoxRec /\ DoorOK(u) /\ Disk(u) \in Pids
  BY DoorIs
<1>2. /\ box.slots = 1 /\ box.held \in {0, 1} /\ (box.senders # <<>> => box.held = 1)
      /\ box.receivers = <<>>
  BY <1>1 DEF DoorOK
<1>3. /\ new.slots = box.slots
      /\ new.senders = IF box.held = 0 \/ box.senders = <<>> THEN box.senders ELSE Tail(box.senders)
      /\ new.held = IF box.held = 0 \/ box.senders # <<>> THEN box.held ELSE box.held - 1
      /\ new.receivers = IF box.held = 0 THEN Append(box.receivers, Disk(u)) ELSE box.receivers
  BY <1>1, ReceivedBoxIs
<1>4. \A d : Append(<<>>, d) = <<d>>
  OBVIOUS
<1> HIDE DEF box, new
<1>5. CASE box.held = 0
  <2>1. new.held = 0 /\ new.slots = 1 /\ new.receivers = <<Disk(u)>> /\ new.senders = <<>>
    BY <1>2, <1>3, <1>4, <1>5
  <2> QED
    BY <1>5, <2>1 DEF DoorOK, Door, Disk, box, new
<1>6. CASE box.held = 1
  <2>1. new.slots = 1 /\ new.receivers = <<>> /\ new.held \in {0, 1} /\ (new.senders # <<>> => new.held = 1)
    BY <1>2, <1>3, <1>6
  <2> QED
    BY <2>1 DEF DoorOK, Door, new
<1> QED
  BY <1>2, <1>5, <1>6

\* The requests, the links and the doors of the units, put together.
LEMMA ListsFrom ==
    ASSUME OthersKept, NextDisk' = NextDisk,
           \A u \in Units : RequestsOK(u)' /\ RequestList(u)' = RequestList(u) /\ DoorOK(u)' /\ BellOK(u)',
           FreeLinks
    PROVE  ListsInv'
BY FreeKept DEF OthersKept, ListsInv

LEMMA DiskWaitLists ==
    ASSUME DriversInv, ListsInv, NEW u \in Units, DiskWait(u)
    PROVE  ListsInv'
<1> USE DEF sleepVars, diskVars, userVars
<1>1. /\ TypesOK /\ SysOK /\ OnTurn(me) /\ me # IDLE /\ me \in Pids /\ pc[me] = "diskLoop" /\ me = Disk(u)
      /\ \A v \in Units : me = Disk(v) => v = u
  BY DiskRunsAt DEF DiskWait, DriversInv
<1>2. UNCHANGED <<processTable, sleepQ, ptr, currTime, now, diskQ, job, test, prog, line>>
  BY DEF DiskWait
<1>3. CASE IsZapped(sys)
  BY <1>1, <1>2, <1>3, QuitLists DEF DiskWait, PlainFrom, AnswerPlaces, WorkPlaces, ServingPlaces
<1>4. CASE ~IsZapped(sys)
  <2>1. sys' = Received(sys, Door(u)) /\ Then("diskWoken")
    BY <1>4 DEF DiskWait
  <2>2. OnlyBox(Door(u)) /\ sys'.box[Door(u)] = ReceivedBox(sys.box[Door(u)], me)
    <3>1. OnlyBox(Door(u)) /\ SameButBox(sys', sys, Door(u), ReceivedBox(sys.box[Door(u)], me))
      BY <1>1, <2>1, Receives, BoxesOfDrivers
    <3> QED
      BY <1>1, <3>1, OnlyBoxIs, BoxesOfDrivers
  <2>3. Moves(me, "diskWoken") /\ GoesOn(me)
    BY <1>2, <2>1 DEF Moves, Positions, Then, GoesOn
  <2>4. SameSleepers /\ NextDisk' = NextDisk /\ Public(Door(u))
    BY <1>2, BoxesPublic DEF SameSleepers, SameNaps, NextSleeper, NextDisk
  <2>5. OthersKept
    BY <1>1, <1>2, <2>2, <2>3, <2>4, StepKeepsOthers DEF AnswerPlaces
  <2>6. ASSUME NEW v \in Units
        PROVE  RequestsOK(v)' /\ RequestList(v)' = RequestList(v) /\ DoorOK(v)' /\ BellOK(v)'
    <3>1. RequestsOK(v) /\ DoorOK(v) /\ BellOK(v)
      BY DEF ListsInv
    <3>2. RequestsOK(v)' /\ RequestList(v)' = RequestList(v)
      BY <1>1, <1>2, <2>3, <2>4, <2>5, <3>1, RequestsKept DEF OthersKept, ServingPlaces
    <3>3. pc'[me] = "diskWoken"
      BY <1>1, <2>3, MoverIs
    <3>4. CASE v = u
      <4>1. DoorOK(u)' /\ (sys.box[Door(u)].held = 1 => sys'.box[Door(u)].receivers = <<>>)
        BY <1>1, <2>2, <3>3, DoorWaits
      <4>2. ASSUME diskQ'[u] # NULL PROVE AtWork(u)' \/ Rings(u)'
        <5>1. sys.box[Door(u)].held = 1 \/ Rings(u)
          BY <1>1, <1>2, <3>1, <3>4, <4>2 DEF BellOK, AtWork, ServingPlaces
        <5>2. sys.box[Door(u)].held = 1 => AtWork(u)'
          BY <1>1, <3>3, <4>1 DEF AtWork, Disk, Door
        <5>3. ASSUME Rings(u) PROVE Rings(u)'
          <6>1. PICK q \in Pids : pc[q] = "diskRing" /\ UnitOf(CallAt(q)) = u
            BY <5>3 DEF Rings
          <6>2. pc'[q] = "diskRing" /\ CallAt(q)' = CallAt(q)
            BY <1>1, <1>2, <2>3, <6>1, OthersWait
          <6> QED
            BY <6>1, <6>2 DEF Rings, UnitOf
        <5> QED
          BY <5>1, <5>2, <5>3
      <4> QED
        BY <3>2, <3>4, <4>1, <4>2 DEF BellOK
    <3>5. CASE v # u
      <4>1. Door(u) # Door(v)
        BY <3>5, BoxesPublic
      <4>2. DoorOK(v)' /\ sys'.box[Door(v)] = sys.box[Door(v)]
        BY <1>1, <2>2, <2>3, <3>1, <4>1, DoorKept
      <4>3. BellOK(v)'
        BY <1>1, <1>2, <2>3, <3>1, <3>5, <4>2, BellKept
      <4> QED
        BY <3>2, <4>2, <4>3
    <3> QED
      BY <3>4, <3>5
  <2> QED
    BY <2>4, <2>5, <2>6, ListsFrom DEF ListsInv
<1> QED
  BY <1>3, <1>4
\* A unit whose driver is somewhere else.
LEMMA UnitKept ==
    ASSUME TypesOK, ListsInv, NEW p, OnTurn(p), NEW x, Moves(p, x), GoesOn(p), UNCHANGED <<test, prog>>,
           NEW v \in Units, p # Disk(v), pc[p] # "diskRing", NextDisk' = NextDisk,
           NEW b, OnlyBox(b), b # Door(v), Requesters(v)' = Requesters(v),
           diskQ'[v] = diskQ[v], job'[v].owner = job[v].owner
    PROVE  RequestsOK(v)' /\ RequestList(v)' = RequestList(v) /\ DoorOK(v)' /\ BellOK(v)'
<1>1. p \in Pids /\ RequestsOK(v) /\ DoorOK(v) /\ BellOK(v)
  BY DEF ListsInv, OnTurn
<1>2. RequestsOK(v)' /\ RequestList(v)' = RequestList(v)
  BY <1>1, RequestsKept
<1>3. DoorOK(v)' /\ sys'.box[Door(v)] = sys.box[Door(v)]
  BY <1>1, DoorKept
<1>4. BellOK(v)'
  BY <1>1, <1>3, BellKept
<1> QED
  BY <1>2, <1>3, <1>4

\* A driver at work rings no bell and needs none.
LEMMA DriverBusy ==
    ASSUME TypesOK, ListsInv, NEW u \in Units, OnTurn(me), me = Disk(u),
           NEW x \in WorkPlaces, Moves(me, x), NEW b, OnlyBox(b), b # Door(u)
    PROVE  DoorOK(u)' /\ BellOK(u)'
<1>1. DoorOK(u) /\ me \in Pids
  BY DEF ListsInv, OnTurn
<1>2. DoorOK(u)' /\ sys'.box[Door(u)] = sys.box[Door(u)]
  BY <1>1, DoorKept
<1>3. pc'[me] = x
  BY <1>1, MoverIs
<1>4. AtWork(u)'
  BY <1>3 DEF AtWork, WorkPlaces, ServingPlaces, Disk
<1> QED
  BY <1>2, <1>4 DEF BellOK

\* The head of a list that is not empty is somebody's request.
LEMMA HeadIs ==
    ASSUME DriversInv, ListsInv, NEW u \in Units, diskQ[u] # NULL
    PROVE  /\ diskQ[u] \in Members(RequestList(u)) /\ diskQ[u] \in Slots
           /\ \E r \in Requesters(u) \ Notified(u) : diskQ[u] = Slot(r) /\ processTable[diskQ[u]].pid = r
<1>1. diskQ[u] \in Members(RequestList(u))
  BY ListFirst, DriversAssumption DEF ListsInv, RequestsOK
<1>2. diskQ[u] \in Slots
  BY DEF DriversInv, TypesOK, Pointers
<1>3. PICK r \in Requesters(u) \ Notified(u) : diskQ[u] = Slot(r)
  BY <1>1 DEF ListsInv, RequestsOK, SlotsOf
<1>4. r \in Pids /\ r \in Requesters(0) \cup Requesters(1)
  <2>1. u = 0 \/ u = 1
    BY DEF Units
  <2> QED
    BY <1>3, <2>1 DEF Requesters
<1>5. processTable[Slot(r)].pid = r
  BY <1>4 DEF ListsInv, EntriesOK
<1> QED
  BY <1>1, <1>2, <1>3, <1>5

\* The driver of unit u has looked at its list: it goes to x.
TakesTo(u, x) ==
    /\ x \in {"gone", "diskLoop", "diskSeek"} /\ Moves(me, x)
    /\ \A v \in Units : v # u => job'[v].owner = job[v].owner
    /\ x = "diskLoop" => diskQ[u] = NULL
    /\ x # "diskSeek" => job' = job
    /\ x = "diskSeek" => diskQ[u] # NULL /\ job'[u].owner = processTable[diskQ[u]].pid

LEMMA TakenLists ==
    ASSUME DriversInv, ListsInv, NEW u \in Units, OnTurn(me), me = Disk(u),
           pc[me] \in {"diskWoken", "diskNotified"}, \A v \in Units : me = Disk(v) => v = u,
           UNCHANGED <<processTable, sleepQ, ptr, currTime, now, diskQ, test, prog, line>>,
           NEW x, TakesTo(u, x), NEW b, Common(b), OnlyBox(b)
    PROVE  ListsInv'
<1>1. /\ TypesOK /\ SysOK /\ OnTurn(me) /\ me \in Pids
      /\ pc[me] \in {"diskWoken", "diskNotified"} /\ me = Disk(u)
      /\ \A v \in Units : me = Disk(v) => v = u
  BY DEF DriversInv, OnTurn
<1>2. UNCHANGED <<processTable, sleepQ, ptr, currTime, now, diskQ, test, prog, line>>
  OBVIOUS
<1>3. \A v \in Units : v # u => job'[v].owner = job[v].owner
  BY DEF TakesTo
<1>5. /\ x \in {"gone", "diskLoop", "diskSeek"} /\ Moves(me, x) /\ Common(b) /\ OnlyBox(b)
      /\ x = "diskLoop" => diskQ[u] = NULL
      /\ x # "diskSeek" => job' = job
      /\ x = "diskSeek" => diskQ[u] # NULL /\ job'[u].owner = processTable[diskQ[u]].pid
  BY DEF TakesTo
<1>6. SameSleepers /\ NextDisk' = NextDisk /\ Public(b) /\ NoDoor(b) /\ GoesOn(me)
  BY <1>2, <1>5, BoxesPublic DEF SameSleepers, SameNaps, NextSleeper, NextDisk, GoesOn
<1>7. OthersKept
  BY <1>1, <1>2, <1>5, <1>6, StepKeepsOthers DEF AnswerPlaces
<1>8. ASSUME NEW v \in Units
      PROVE  RequestsOK(v)' /\ RequestList(v)' = RequestList(v) /\ DoorOK(v)' /\ BellOK(v)'
  <2>1. CASE v # u
    BY <1>1, <1>2, <1>3, <1>5, <1>6, <1>7, <2>1, UnitKept DEF OthersKept, NoDoor
  <2>2. CASE v = u
    <3>1. RequestsOK(u) /\ DoorOK(u) /\ BellOK(u) /\ Requesters(u)' = Requesters(u)
      BY <1>7 DEF ListsInv, OthersKept
    <3>2. CASE x = "diskSeek"
      <4>1. DoorOK(u)' /\ BellOK(u)'
        BY <1>1, <1>5, <1>6, <3>2, DriverBusy DEF WorkPlaces, ServingPlaces, NoDoor
      <4>2. PICK r \in Requesters(u) : diskQ[u] = Slot(r) /\ processTable[diskQ[u]].pid = r
        BY <1>5, <3>2, HeadIs
      <4>3. RequestList(u)' = RequestList(u) /\ diskQ'[u] = diskQ[u]
        BY <1>2, <1>6 DEF RequestList
      <4>4. pc'[Disk(u)] = "diskSeek" /\ pc[Disk(u)] # "diskNotify"
        BY <1>1, <1>5, <3>2, MoverIs
      <4>5. Notified(u)' = Notified(u)
        BY <4>4 DEF Notified, Disk
      <4>6. SlotsOf(Requesters(u) \ Notified(u))' = SlotsOf(Requesters(u) \ Notified(u))
        BY <3>1, <4>5 DEF SlotsOf, Slot
      <4>7. job'[u].owner = r /\ r \in Pids
        BY <1>5, <3>2, <4>2 DEF Requesters
      <4>8. RequestsOK(u)'
        BY <1>6, <3>1, <4>2, <4>3, <4>4, <4>6, <4>7 DEF RequestsOK, Disk, Slot
      <4> QED
        BY <2>2, <4>1, <4>3, <4>8
    <3>3. CASE x # "diskSeek"
      <4>1. RequestsOK(u)' /\ RequestList(u)' = RequestList(u)
        BY <1>1, <1>2, <1>5, <1>6, <3>1, <3>3, RequestsKept DEF ServingPlaces
      <4>2. DoorOK(u)' /\ sys'.box[Door(u)] = sys.box[Door(u)]
        BY <1>1, <1>5, <1>6, <3>1, DoorKept DEF NoDoor
      <4>3. x \in WorkPlaces \/ diskQ'[u] = NULL
        BY <1>2, <1>5, <3>3 DEF WorkPlaces
      <4>4. BellOK(u)'
        BY <1>1, <1>2, <1>5, <1>6, <3>1, <4>2, <4>3, BellKept
      <4> QED
        BY <2>2, <4>1, <4>2, <4>4
    <3> QED
      BY <3>2, <3>3
  <2> QED
    BY <2>1, <2>2
<1> QED
  BY <1>6, <1>7, <1>8, ListsFrom DEF ListsInv

LEMMA DiskTakeLists ==
    ASSUME DriversInv, ListsInv, NEW u \in Units, DiskTake(u)
    PROVE  ListsInv'
<1> USE DEF sleepVars, diskVars, userVars
<1>1. /\ TypesOK /\ SysOK /\ OnTurn(me) /\ me # IDLE /\ me \in Pids
      /\ pc[me] \in {"diskWoken", "diskNotified"} /\ me = Disk(u)
      /\ \A v \in Units : me = Disk(v) => v = u
  BY DiskRunsAt DEF DiskTake, DriversInv
<1>2. UNCHANGED <<processTable, sleepQ, ptr, currTime, now, diskQ, test, prog, line>>
  BY DEF DiskTake
<1>3. CASE pc[me] = "diskWoken" /\ IsZapped(sys)
  <2>1. sys' = Quit(sys, 0) /\ Then("gone") /\ UNCHANGED job
    BY <1>3 DEF DiskTake
  <2>2. OnlyBox(NoBox) /\ Common(NoBox) /\ Moves(me, "gone")
    BY <1>1, <2>1, KinOnly DEF Common, Moves, Then, Positions
  <2>3. TakesTo(u, "gone")
    BY <2>1, <2>2 DEF TakesTo
  <2> QED
    BY <1>1, <1>2, <2>2, <2>3, TakenLists
<1>4. CASE ~(pc[me] = "diskWoken" /\ IsZapped(sys)) /\ diskQ[u] = NULL
  <2>1. sys' = sys /\ Then("diskLoop") /\ UNCHANGED job
    BY <1>4 DEF DiskTake
  <2>2. OnlyBox(NoBox) /\ Common(NoBox) /\ Moves(me, "diskLoop")
    BY <1>1, <2>1 DEF Common, Moves, Then, Positions, OnlyBox
  <2>3. TakesTo(u, "diskLoop")
    BY <1>4, <2>1, <2>2 DEF TakesTo
  <2> QED
    BY <1>1, <1>2, <2>2, <2>3, TakenLists
<1>5. CASE ~(pc[me] = "diskWoken" /\ IsZapped(sys)) /\ diskQ[u] # NULL
  <2> DEFINE e == processTable[diskQ[u]]
             j == [owner |-> e.pid, op |-> e.operation, track |-> e.track,
                   sector |-> e.first, sectors |-> e.sectors, done |-> 0, data |-> e.buffer]
  <2>1. job' = [job EXCEPT ![u] = j] /\ sys' = Sent(sys, MUTEX) /\ Then("diskSeek")
    BY <1>5 DEF DiskTake, TakeMutex
  <2>2. j.owner = e.pid
    OBVIOUS
  <2> HIDE DEF j
  <2>3. job'[u] = j /\ \A v \in Units : v # u => job'[v] = job[v]
    BY <1>1, <2>1 DEF TypesOK
  <2>4. OnlyBox(MUTEX) /\ Common(MUTEX) /\ Moves(me, "diskSeek")
    BY <1>1, <2>1, Sends, BoxesOfDrivers DEF Common, Moves, Then, Positions
  <2>5. TakesTo(u, "diskSeek")
    BY <1>5, <2>2, <2>3, <2>4 DEF TakesTo
  <2> QED
    BY <1>1, <1>2, <2>4, <2>5, TakenLists
<1> QED
  BY <1>3, <1>4, <1>5
\* The head of a list is gone, and nothing else.
Unlinked(u) ==
    /\ RequestList(u) # <<>> /\ RequestList(u)' = Tail(RequestList(u))
    /\ \A v \in Units : v # u => RequestList(v)' = RequestList(v)
    /\ SameFields

LEMMA DiskUnlinkLists ==
    ASSUME DriversInv, ListsInv, NEW u \in Units, DiskUnlink(u)
    PROVE  ListsInv' /\ Unlinked(u)
<1> USE DEF sleepVars, diskVars, userVars
<1>1. /\ TypesOK /\ SysOK /\ OnTurn(me) /\ me # IDLE /\ me \in Pids
      /\ pc[me] = "diskUnlink" /\ me = Disk(u)
      /\ \A v \in Units : me = Disk(v) => v = u
  BY DiskRunsAt DEF DiskUnlink, DriversInv
<1> DEFINE s == diskQ[u]
           r == job[u].owner
           e == [processTable[s] EXCEPT !.nextDiskProc = NULL]
           next == NextDisk
<1>2. /\ UNCHANGED <<sleepQ, ptr, currTime, now, job, test, prog, line>>
      /\ diskQ' = [diskQ EXCEPT ![u] = NextRequest(u)]
      /\ processTable' = [processTable EXCEPT ![s] = e]
      /\ sys' = Received(sys, QueueLock(u)) /\ Then("diskNotify")
  BY DEF DiskUnlink
<1>3. /\ s # NULL /\ s \in Slots /\ s \in Members(RequestList(u)) /\ s = Slot(r) /\ r \in Pids
      /\ RequestsOK(u)
  <2>1. diskQ[u] # NULL /\ Serving(u)
    BY <1>1 DEF DriversInv, HasHead, Serving
  <2> QED
    BY <2>1, HeadIs DEF ListsInv, RequestsOK
<1>4. r \in Requesters(u)
  <2>1. PICK q \in Requesters(u) \ Notified(u) : s = Slot(q)
    BY <1>3, HeadIs
  <2> QED
    BY <1>3, <2>1, SlotsApart DEF Requesters
<1>5. /\ processTable \in [Slots -> ProcRec] /\ diskQ \in [Units -> Pointers] /\ NULL \notin Slots
      /\ next \in [Slots -> Pointers]
  BY <1>1, LinksAreLinks, DriversAssumption DEF TypesOK
<1>6. /\ \A t \in Slots : t # s => processTable'[t] = processTable[t]
      /\ processTable'[s] = e
      /\ diskQ'[u] = next[s] /\ \A v \in Units : v # u => diskQ'[v] = diskQ[v]
  <2>1. diskQ'[u] = processTable[s].nextDiskProc /\ \A v \in Units : v # u => diskQ'[v] = diskQ[v]
    BY <1>2, <1>5 DEF NextRequest
  <2>2. next[s] = processTable[s].nextDiskProc
    BY <1>3 DEF NextDisk
  <2> HIDE DEF e, s, next
  <2> QED
    BY <1>2, <1>3, <1>5, <2>1, <2>2 DEF s
<1>7. /\ e.nextDiskProc = NULL /\ e.nextSleeperProc = processTable[s].nextSleeperProc
      /\ e.pid = processTable[s].pid /\ e.startTime = processTable[s].startTime
      /\ e.sleepEndTime = processTable[s].sleepEndTime
      /\ e.track = processTable[s].track /\ e.first = processTable[s].first
      /\ e.sectors = processTable[s].sectors
  <2>1. processTable[s] \in ProcRec
    BY <1>3, <1>5
  <2> QED
    BY <2>1 DEF ProcRec
<1> HIDE DEF s, r, e, next
<1>8. SameSleepers
  <2>1. \A t \in Slots : /\ processTable'[t].nextSleeperProc = processTable[t].nextSleeperProc
                         /\ processTable'[t].pid = processTable[t].pid
                         /\ processTable'[t].startTime = processTable[t].startTime
                         /\ processTable'[t].sleepEndTime = processTable[t].sleepEndTime
    BY <1>6, <1>7
  <2>2. NextSleeper' = NextSleeper
    BY <2>1 DEF NextSleeper
  <2> QED
    BY <2>1, <2>2, SlotsApart DEF SameSleepers, SameNaps
<1>9. NextDisk' = [next EXCEPT ![s] = NULL]
  <2>1. \A t \in Slots : processTable'[t].nextDiskProc = IF t = s THEN NULL ELSE next[t]
    BY <1>6, <1>7 DEF next, NextDisk
  <2> QED
    BY <1>5, <2>1 DEF next, NextDisk
<1>10. OnlyBox(QueueLock(u)) /\ Public(QueueLock(u)) /\ NoDoor(QueueLock(u))
  <2>1. Common(QueueLock(u))
    BY DEF Common
  <2> QED
    BY <1>1, <1>2, <2>1, Receives, BoxesOfDrivers, BoxesPublic
<1>11. Moves(me, "diskNotify") /\ GoesOn(me)
  BY <1>2 DEF Moves, Then, Positions, GoesOn
<1>12. OthersKept
  BY <1>1, <1>2, <1>8, <1>10, <1>11, StepKeepsOthers DEF AnswerPlaces
<1>13. pc'[Disk(u)] = "diskNotify" /\ \A v \in Units : v # u => pc'[Disk(v)] = pc[Disk(v)]
  <2>1. \A v \in Units : Disk(v) \in Pids /\ (v # u => Disk(v) # me)
    BY <1>1, PidsOfStart3
  <2> QED
    BY <1>1, <1>11, <2>1 DEF Moves, TypesOK
<1>14. ASSUME NEW v \in Units, v # u
       PROVE  /\ RequestsOK(v)' /\ RequestList(v)' = RequestList(v) /\ DoorOK(v)' /\ BellOK(v)'
  <2>1. RequestsOK(v) /\ DoorOK(v) /\ BellOK(v)
    BY DEF ListsInv
  <2>2. s \notin Members(RequestList(v))
    <3>1. ASSUME NEW q \in Requesters(v), s = Slot(q) PROVE FALSE
      <4>1. q = r
        BY <1>3, <3>1, SlotsApart DEF Requesters
      <4> QED
        BY <1>4, <1>14, <3>1, <4>1 DEF Requesters
    <3> QED
      BY <2>1, <3>1 DEF RequestsOK, SlotsOf
  <2> DEFINE q == RequestList(v)
             links == [next EXCEPT ![s] = NULL]
  <2>3. IsList(Slots, NULL, q, diskQ[v], links)
    <3>1. IsList(Slots, NULL, q, diskQ[v], next)
      BY <2>1 DEF RequestsOK, next
    <3> HIDE DEF q, links
    <3> QED
      BY <1>5, <2>2, <3>1, ListElsewhere DEF q, links, Pointers
  <2>4. links \in [Slots -> Pointers] /\ diskQ[v] \in Pointers
    BY <1>5 DEF Pointers
  <2>5. RequestList(v)' = q
    <3>1. RequestList(v)' = Chain(links, diskQ[v])
      BY <1>6, <1>9, <1>14 DEF RequestList
    <3> HIDE DEF links, q
    <3> QED
      BY <1>5, <2>3, <2>4, <3>1, ChainIsList
  <2>6. IsList(Slots, NULL, RequestList(v)', diskQ'[v], NextDisk')
    BY <1>6, <1>9, <1>14, <2>3, <2>5
  <2>7. Requesters(v)' = Requesters(v) /\ Notified(v)' = Notified(v)
        /\ (Serving(v)' <=> Serving(v)) /\ job' = job
    BY <1>2, <1>12, <1>13, <1>14 DEF OthersKept, Notified, Serving, Disk
  <2>8. SlotsOf(Requesters(v) \ Notified(v))' = SlotsOf(Requesters(v) \ Notified(v))
    BY <2>7 DEF SlotsOf, Slot
  <2>9. RequestsOK(v)'
    BY <1>6, <1>13, <1>14, <2>1, <2>5, <2>6, <2>7, <2>8 DEF RequestsOK, Disk, Slot
  <2>10. DoorOK(v)' /\ sys'.box[Door(v)] = sys.box[Door(v)]
    BY <1>1, <1>10, <1>11, <2>1, DoorKept DEF NoDoor
  <2>11. BellOK(v)'
    BY <1>1, <1>2, <1>6, <1>11, <1>14, <2>1, <2>10, BellKept
  <2> QED
    BY <2>5, <2>9, <2>10, <2>11
<1>15. DoorOK(u)' /\ BellOK(u)'
  BY <1>1, <1>10, <1>11, DriverBusy DEF WorkPlaces, NoDoor
<1>16. /\ RequestsOK(u)' /\ Members(RequestList(u)') = Members(RequestList(u)) \ {s}
       /\ RequestList(u) # <<>> /\ RequestList(u)' = Tail(RequestList(u))
  <2> DEFINE q == RequestList(u)
             links == [next EXCEPT ![s] = NULL]
             t == Tail(q)
  <2>1. IsList(Slots, NULL, q, s, next) /\ Members(q) = SlotsOf(Requesters(u) \ Notified(u))
    BY <1>3 DEF RequestsOK, next, s
  <2>2. IsList(Slots, NULL, t, next[s], next) /\ Members(t) = Members(q) \ {s} /\ q # <<>>
    <3> HIDE DEF q
    <3> QED
      BY <1>3, <1>5, <2>1, ListTail
  <2>3. IsList(Slots, NULL, t, next[s], links)
    <3> HIDE DEF t, links
    <3> QED
      BY <1>5, <2>2, ListElsewhere DEF links, Pointers
  <2>4. links \in [Slots -> Pointers] /\ next[s] \in Pointers
    BY <1>3, <1>5 DEF Pointers
  <2>5. RequestList(u)' = t
    <3>1. RequestList(u)' = Chain(links, next[s])
      BY <1>6, <1>9 DEF RequestList
    <3> HIDE DEF links, t
    <3> QED
      BY <1>5, <2>3, <2>4, <3>1, ChainIsList
  <2>6. IsList(Slots, NULL, RequestList(u)', diskQ'[u], NextDisk')
    BY <1>6, <1>9, <2>3, <2>5
  <2>7. Requesters(u)' = Requesters(u) /\ Notified(u) = {} /\ Notified(u)' = {r} /\ job'[u].owner = r
    BY <1>1, <1>2, <1>12, <1>13 DEF OthersKept, Notified, Disk, r
  <2>8. SlotsOf(Requesters(u) \ Notified(u))' = SlotsOf(Requesters(u)) \ {s}
    <3>1. SlotsOf(Requesters(u) \ {r}) = SlotsOf(Requesters(u)) \ {s}
      BY <1>3, <1>4, SlotsApart DEF SlotsOf, Requesters
    <3> QED
      BY <2>7, <3>1 DEF SlotsOf, Slot
  <2>9. Members(RequestList(u)') = SlotsOf(Requesters(u)) \ {s}
    BY <2>1, <2>2, <2>5, <2>7
  <2>10. r \in Requesters(u)'
    BY <1>4, <2>7
  <2>11. ~Serving(u)'
    BY <1>13 DEF Serving, Disk
  <2>12. RequestsOK(u)'
    BY <2>6, <2>7, <2>8, <2>9, <2>10, <2>11 DEF RequestsOK
  <2> QED
    BY <2>1, <2>2, <2>5, <2>7, <2>9, <2>12
<1>17. FreeLinks'
  <2>1. ASSUME NEW t \in Slots, NextDisk'[t] # NULL
        PROVE  \E v \in Units : t \in Members(RequestList(v)')
    <3>1. t # s /\ NextDisk[t] # NULL
      BY <1>3, <1>5, <1>9, <2>1 DEF next
    <3>2. PICK v \in Units : t \in Members(RequestList(v))
      BY <3>1 DEF ListsInv, FreeLinks
    <3>3. t \in Members(RequestList(v)')
      BY <1>14, <1>16, <3>1, <3>2
    <3> QED
      BY <3>2, <3>3
  <2>2. ASSUME NEW v \in Units PROVE Members(RequestList(v))' = Members(RequestList(v)')
    BY DEF Members
  <2> QED
    BY <2>1, <2>2 DEF FreeLinks
<1>18. SameFields
  BY <1>6, <1>7 DEF SameFields
<1>19. Unlinked(u)
  BY <1>14, <1>16, <1>18 DEF Unlinked
<1> QED
  BY <1>12, <1>14, <1>15, <1>16, <1>17, <1>19 DEF ListsInv, OthersKept
LEMMA DiskNotifyLists ==
    ASSUME DriversInv, ListsInv, NEW u \in Units, DiskNotify(u)
    PROVE  ListsInv'
<1> USE DEF sleepVars, diskVars, userVars
<1> DEFINE r == job[u].owner
<1>1. /\ TypesOK /\ SysOK /\ PrivatesOK /\ NapsOK /\ OnTurn(me) /\ me # IDLE /\ me \in Pids
      /\ pc[me] = "diskNotify" /\ me = Disk(u) /\ \A v \in Units : me = Disk(v) => v = u
  BY DiskRunsAt DEF DiskNotify, DriversInv, ListsInv
<1>2. /\ UNCHANGED <<processTable, sleepQ, ptr, currTime, now, diskQ, job, test, prog, line>>
      /\ sys' = Sent(sys, Private(r)) /\ Then("diskNotified")
  BY DEF DiskNotify
<1>3. RequestsOK(u) /\ r \in Requesters(u) /\ Notified(u) = {r}
  BY <1>1 DEF ListsInv, RequestsOK, Notified
<1> HIDE DEF r
<1>4. r \in Waiters /\ r \in Pids /\ CallAt(r).call \in {"DiskRead", "DiskWrite"} /\ UnitOf(CallAt(r)) = u
  BY <1>3 DEF Requesters, Waiters
<1>5. Moves(me, "diskNotified") /\ GoesOn(me)
  BY <1>2 DEF Moves, Then, Positions, GoesOn
<1>6. /\ PrivatesOK' /\ Waiters' = Waiters \ {r} /\ OnlyBox(Private(r))
      /\ Asleep' = SleepersOf(Waiters') /\ \A v \in Units : Requesters(v)' = RequestersOf(Waiters', v)
  <2>1. "diskNotified" \notin AnswerPlaces /\ pc[me] \notin AnswerPlaces
    BY <1>1 DEF AnswerPlaces
  <2> QED
    BY <1>1, <1>2, <1>4, <1>5, <2>1, WaiterAnswered
<1>7. Asleep' = Asleep
  BY <1>4, <1>6, WaitersAre DEF SleepersOf
<1>8. Requesters(u)' = Requesters(u) \ {r} /\ \A v \in Units : v # u => Requesters(v)' = Requesters(v)
  BY <1>4, <1>6, WaitersAre DEF RequestersOf
<1>9. NextDisk' = NextDisk /\ NextSleeper' = NextSleeper /\ \A q \in Pids : SameNaps(q)
  BY <1>2 DEF NextSleeper, NextDisk, SameNaps
<1>10. pc'[me] = "diskNotified" /\ \A v \in Units : Private(r) # Door(v)
  BY <1>1, <1>4, <1>5, MoverIs, BoxesPublic DEF Public
<1>11. SleepersOK' /\ WalkOK'
  BY <1>1, <1>2, <1>5, <1>7, <1>9, SleepersKept, WalkKept DEF ListsInv
<1>12. LinksOK'
  BY <1>1, <1>2, <1>5, <1>9, LinksKept DEF ListsInv
<1>13. NapsOK'
  <2>1. ASSUME NEW q \in Pids PROVE NapOK(q)'
    <3>1. CASE q = me
      BY <1>10, <3>1 DEF NapOK
    <3>2. CASE q # me
      <4>1. pc'[q] = pc[q] /\ CallAt(q)' = CallAt(q)
        BY <1>1, <1>2, <1>5, <3>2, OthersWait
      <4>2. CASE q = r
        <5>1. CallAt(q)'.call # "Sleep"
          BY <1>4, <4>1, <4>2
        <5> QED
          BY <5>1 DEF NapOK
      <4>3. CASE q # r
        <5>1. Unanswered(q) => Unanswered(q)'
          BY <1>6, <4>3 DEF Waiters
        <5>2. NapOK(q) /\ SameNaps(q) /\ now' \in Nat /\ now <= now'
          BY <1>1, <1>2, <1>9 DEF NapsOK, TypesOK
        <5> QED
          BY <1>1, <4>1, <5>1, <5>2, NapKept
      <4> QED
        BY <4>2, <4>3
    <3> QED
      BY <3>1, <3>2
  <2> QED
    BY <1>1, <1>2, <2>1 DEF NapsOK
<1>14. EntriesOK'
  <2>1. \A v \in Units : Requesters(v)' \subseteq Requesters(v)
    BY <1>8
  <2>2. \A q \in Pids : processTable'[Slot(q)].pid = processTable[Slot(q)].pid
    BY <1>2
  <2> QED
    BY <1>1, <1>5, <2>1, <2>2, EntriesKept DEF ListsInv
<1>15. ASSUME NEW v \in Units
       PROVE  RequestsOK(v)' /\ RequestList(v)' = RequestList(v) /\ DoorOK(v)' /\ BellOK(v)'
  <2>1. CASE v # u
    BY <1>1, <1>2, <1>5, <1>6, <1>8, <1>9, <1>10, <2>1, UnitKept
  <2>2. CASE v = u
    <3>1. DoorOK(u)' /\ BellOK(u)'
      BY <1>1, <1>5, <1>6, <1>10, DriverBusy DEF WorkPlaces
    <3>2. RequestList(u)' = RequestList(u)
      BY <1>2, <1>9 DEF RequestList
    <3>3. Notified(u)' = {} /\ ~Serving(u)' /\ pc'[Disk(u)] # "diskNotify"
      BY <1>1, <1>10 DEF Notified, Serving, Disk
    <3>4. SlotsOf(Requesters(u) \ Notified(u))' = SlotsOf(Requesters(u) \ Notified(u))
      BY <1>3, <1>8, <3>3 DEF SlotsOf, Slot
    <3>5. RequestsOK(u)'
      BY <1>2, <1>3, <1>9, <3>2, <3>3, <3>4 DEF RequestsOK, Disk
    <3> QED
      BY <2>2, <3>1, <3>2, <3>5
  <2> QED
    BY <2>1, <2>2
<1>16. FreeLinks'
  BY <1>9, <1>15, FreeKept DEF ListsInv
<1> QED
  BY <1>6, <1>11, <1>12, <1>13, <1>14, <1>15, <1>16 DEF ListsInv

\* The driver serves its request.
LEMMA ServingStep ==
    ASSUME DriversInv, ListsInv, OnTurn(me), pc[me] \in ServingPlaces, NEW x \in ServingPlaces,
           Then(x), NEW b, Common(b), OnlyBox(b),
           UNCHANGED <<test, prog, line, processTable, sleepQ, ptr, currTime, now, diskQ>>,
           \A v \in Units : job'[v].owner = job[v].owner
    PROVE  ListsInv'
<1>1. x \in Positions /\ GoesOn(me) /\ Plain(pc[me], x)
  BY DEF ServingPlaces, Positions, GoesOn, Plain
<1> QED
  BY <1>1, PlainStep

LEMMA OwnerKept ==
    ASSUME TypesOK, NEW u \in Units,
           \/ job' = NextTrack(u)
           \/ job' = [job EXCEPT ![u].done = @ + 1, ![u].sector = @ + 1]
           \/ job' = job
    PROVE  \A v \in Units : job'[v].owner = job[v].owner
<1>1. job \in [Units -> JobRec] /\ job[u] \in JobRec
  BY DEF TypesOK
<1>2. CASE job' = NextTrack(u)
  <2> DEFINE j == [job[u] EXCEPT !.track = job[u].track + 1]
             k == [j EXCEPT !.sector = 0]
             up == [job EXCEPT ![u] = j]
  <2>1. k.owner = job[u].owner
    BY <1>1 DEF JobRec
  <2>2. job' = [up EXCEPT ![u] = [up[u] EXCEPT !.sector = 0]]
    BY <1>2 DEF NextTrack
  <2> HIDE DEF j
  <2>3. up[u] = j
    BY <1>1
  <2>4. job' = [up EXCEPT ![u] = k]
    BY <2>2, <2>3
  <2> HIDE DEF k
  <2> QED
    BY <1>1, <2>1, <2>4
<1>3. CASE job' = [job EXCEPT ![u].done = @ + 1, ![u].sector = @ + 1]
  <2> DEFINE j == [job[u] EXCEPT !.done = job[u].done + 1]
             k == [j EXCEPT !.sector = j.sector + 1]
             up == [job EXCEPT ![u] = j]
  <2>1. k.owner = job[u].owner
    BY <1>1 DEF JobRec
  <2>2. job' = [up EXCEPT ![u] = [up[u] EXCEPT !.sector = up[u].sector + 1]]
    BY <1>3
  <2> HIDE DEF j
  <2>3. up[u] = j
    BY <1>1
  <2>4. job' = [up EXCEPT ![u] = k]
    BY <2>2, <2>3
  <2> HIDE DEF k
  <2> QED
    BY <1>1, <2>1, <2>4
<1> QED
  BY <1>2, <1>3

LEMMA DiskLists ==
    ASSUME DriversInv, ListsInv, NEW u \in Units, DiskDriver(u)
    PROVE  ListsInv'
<1> USE DEF sleepVars, diskVars, userVars
<1>0. /\ Common(MUTEX) /\ Common(QueueLock(u)) /\ Common(Device(u)) /\ TypesOK /\ SysOK
      /\ MUTEX \in Boxes /\ QueueLock(u) \in Boxes /\ Device(u) \in Boxes
  BY BoxesOfDrivers DEF Common, DriversInv
<1>1. CASE DiskSeek(u)
  <2>1. OnTurn(me) /\ me # IDLE /\ pc[me] \in ServingPlaces
    BY <1>1, DiskRunsAt DEF DiskSeek, ServingPlaces
  <2>2. sys' = Received(sys, Device(u)) /\ Then("diskSeekDone")
        /\ UNCHANGED <<test, prog, line, processTable, sleepQ, ptr, currTime, now, diskQ, job>>
    BY <1>1 DEF DiskSeek
  <2>3. OnlyBox(Device(u)) /\ "diskSeekDone" \in ServingPlaces
    BY <1>0, <2>1, <2>2, Receives DEF ServingPlaces
  <2> QED
    BY <1>0, <2>1, <2>2, <2>3, ServingStep
<1>2. CASE DiskSeekDone(u)
  <2>1. OnTurn(me) /\ me # IDLE /\ pc[me] \in ServingPlaces
    BY <1>2, DiskRunsAt DEF DiskSeekDone, ServingPlaces
  <2>2. sys' = Received(sys, MUTEX) /\ Then("diskSector")
        /\ UNCHANGED <<test, prog, line, processTable, sleepQ, ptr, currTime, now, diskQ, job>>
    BY <1>2 DEF DiskSeekDone
  <2>3. OnlyBox(MUTEX) /\ "diskSector" \in ServingPlaces
    BY <1>0, <2>1, <2>2, Receives DEF ServingPlaces
  <2> QED
    BY <1>0, <2>1, <2>2, <2>3, ServingStep
<1>3. CASE DiskSector(u)
  <2>1. OnTurn(me) /\ me # IDLE /\ pc[me] \in ServingPlaces
    BY <1>3, DiskRunsAt DEF DiskSector, ServingPlaces
  <2>2. UNCHANGED <<test, prog, line, processTable, sleepQ, ptr, currTime, now, diskQ>>
    BY <1>3 DEF DiskSector
  <2>3. \A v \in Units : job'[v].owner = job[v].owner
    BY <1>0, <1>3, OwnerKept DEF DiskSector
  <2>4. CASE job[u].done = job[u].sectors
    <3>1. sys' = Sent(sys, QueueLock(u)) /\ Then("diskUnlink")
      BY <1>3, <2>4 DEF DiskSector
    <3>2. OnlyBox(QueueLock(u)) /\ "diskUnlink" \in ServingPlaces
      BY <1>0, <2>1, <3>1, Sends DEF ServingPlaces
    <3> QED
      BY <1>0, <2>1, <2>2, <2>3, <3>1, <3>2, ServingStep
  <2>5. CASE job[u].done # job[u].sectors
    <3>1. sys' = Sent(sys, MUTEX) /\ (Then("diskSeek") \/ Then("diskTransfer"))
      BY <1>3, <2>5 DEF DiskSector, TakeMutex
    <3>2. OnlyBox(MUTEX) /\ "diskSeek" \in ServingPlaces /\ "diskTransfer" \in ServingPlaces
      BY <1>0, <2>1, <3>1, Sends DEF ServingPlaces
    <3> QED
      BY <1>0, <2>1, <2>2, <2>3, <3>1, <3>2, ServingStep
  <2> QED
    BY <2>4, <2>5
<1>4. CASE DiskTransfer(u)
  <2>1. OnTurn(me) /\ me # IDLE /\ pc[me] \in ServingPlaces
    BY <1>4, DiskRunsAt DEF DiskTransfer, ServingPlaces
  <2>2. sys' = Received(sys, Device(u)) /\ Then("diskTransferred")
        /\ UNCHANGED <<test, prog, line, processTable, sleepQ, ptr, currTime, now, diskQ, job>>
    BY <1>4 DEF DiskTransfer
  <2>3. OnlyBox(Device(u)) /\ "diskTransferred" \in ServingPlaces
    BY <1>0, <2>1, <2>2, Receives DEF ServingPlaces
  <2> QED
    BY <1>0, <2>1, <2>2, <2>3, ServingStep
<1>5. CASE DiskTransferred(u)
  <2>1. OnTurn(me) /\ me # IDLE /\ pc[me] \in ServingPlaces
    BY <1>5, DiskRunsAt DEF DiskTransferred, ServingPlaces
  <2>2. sys' = Received(sys, MUTEX) /\ Then("diskSector")
        /\ UNCHANGED <<test, prog, line, processTable, sleepQ, ptr, currTime, now, diskQ>>
    BY <1>5 DEF DiskTransferred
  <2>3. OnlyBox(MUTEX) /\ "diskSector" \in ServingPlaces
    BY <1>0, <2>1, <2>2, Receives DEF ServingPlaces
  <2>4. \A v \in Units : job'[v].owner = job[v].owner
    BY <1>0, <1>5, OwnerKept DEF DiskTransferred
  <2> QED
    BY <1>0, <2>1, <2>2, <2>3, <2>4, ServingStep
<1> QED
  BY <1>1, <1>2, <1>3, <1>4, <1>5, DiskWaitLists, DiskTakeLists, DiskUnlinkLists, DiskNotifyLists
  DEF DiskDriver
-----------------------------------------------------------------------------
(***************************************************************************)
(* The programs.                                                           *)
(***************************************************************************)
\* Where a program has nothing to do with the lists.
FreePlaces == {"user", "waited", "size", "sizeDone", "diskWrite"}

LEMMA UserPlain ==
    ASSUME DriversInv, ListsInv, OnTurn(me), pc[me] \in FreePlaces, NEW x \in FreePlaces,
           Then(x), GoesOn(me), NEW b, Common(b), OnlyBox(b),
           UNCHANGED <<test, prog, processTable, sleepQ, ptr, currTime, now, diskQ, job>>
    PROVE  ListsInv'
<1>1. x \in Positions /\ Plain(pc[me], x)
  BY DEF FreePlaces, Positions, Plain, PlainFrom, PlainTo, AnswerPlaces, WorkPlaces, ServingPlaces
<1> QED
  BY <1>1, PlainStep

LEMMA RingLists ==
    ASSUME DriversInv, ListsInv, OnTurn(me), me # IDLE, pc[me] = "user", Then("user"), GoesOn(me),
           NEW u \in Units, sys' = Sent(sys, Door(u)),
           UNCHANGED <<test, prog, processTable, sleepQ, ptr, currTime, now, diskQ, job>>
    PROVE  ListsInv'
<1>1. TypesOK /\ SysOK /\ me \in Pids
  BY DEF DriversInv, OnTurn
<1>2. OnlyBox(Door(u)) /\ sys'.box[Door(u)] = SentBox(sys.box[Door(u)], me)
  <2>1. OnlyBox(Door(u)) /\ SameButBox(sys', sys, Door(u), SentBox(sys.box[Door(u)], me))
    BY <1>1, Sends, BoxesOfDrivers
  <2> QED
    BY <1>1, <2>1, OnlyBoxIs, BoxesOfDrivers
<1>3. Moves(me, "user") /\ Public(Door(u)) /\ SameSleepers /\ NextDisk' = NextDisk
  BY BoxesPublic DEF Moves, Then, Positions, SameSleepers, SameNaps, NextSleeper, NextDisk
<1>4. OthersKept
  BY <1>1, <1>2, <1>3, StepKeepsOthers DEF AnswerPlaces
<1>5. ASSUME NEW v \in Units
      PROVE  RequestsOK(v)' /\ RequestList(v)' = RequestList(v) /\ DoorOK(v)' /\ BellOK(v)'
  <2>1. RequestsOK(v) /\ DoorOK(v) /\ BellOK(v) /\ Requesters(v)' = Requesters(v) /\ Disk(v) \in Pids
    BY <1>4, PidsOfStart3 DEF ListsInv, OthersKept
  <2>2. RequestsOK(v)' /\ RequestList(v)' = RequestList(v)
    BY <1>1, <1>3, <2>1, RequestsKept DEF ServingPlaces
  <2>3. CASE v = u
    <3>1. pc'[Disk(u)] = pc[Disk(u)]
      BY <1>1, <1>3, <2>1, <2>3 DEF Moves, TypesOK
    <3>2. /\ DoorOK(u)'
          /\ \/ sys'.box[Door(u)].held = 1
             \/ pc[Disk(u)] = "diskWoken" /\ sys'.box[Door(u)].receivers = <<>>
      BY <1>1, <1>2, <3>1, DoorRung
    <3>3. BellOK(u)'
      BY <3>1, <3>2 DEF BellOK, AtWork, Disk, Door
    <3> QED
      BY <2>2, <2>3, <3>2, <3>3
  <2>4. CASE v # u
    <3>1. Door(u) # Door(v)
      BY <2>4, BoxesPublic
    <3>2. DoorOK(v)' /\ sys'.box[Door(v)] = sys.box[Door(v)]
      BY <1>1, <1>2, <1>3, <2>1, <3>1, DoorKept
    <3>3. BellOK(v)'
      BY <1>1, <1>3, <2>1, <3>2, BellKept DEF WorkPlaces, ServingPlaces
    <3> QED
      BY <2>2, <3>2, <3>3
  <2> QED
    BY <2>3, <2>4
<1> QED
  BY <1>3, <1>4, <1>5, ListsFrom DEF ListsInv

LEMMA KernelCallsLists ==
    ASSUME DriversInv, ListsInv, UserWait \/ UserWaited \/ UserTerminate \/ UserCallsPhase1
    PROVE  ListsInv'
<1> USE DEF sleepVars, diskVars, userVars
<1>0. Common(NoBox) /\ SysOK /\ TypesOK /\ \A x \in {"user", "waited"} : x \in FreePlaces
  BY DEF Common, DriversInv, FreePlaces
<1>1. CASE UserWait
  <2>1. OnTurn(me) /\ me # IDLE /\ pc[me] = "user" /\ GoesOn(me)
    BY <1>1, MakesIt DEF UserWait, GoesOn
  <2>2. OnlyBox(NoBox)
    BY <1>0, <1>1, <2>1, KinOnly DEF UserWait
  <2> QED
    BY <1>0, <1>1, <2>1, <2>2, UserPlain DEF UserWait
<1>2. CASE UserWaited
  <2>1. OnTurn(me) /\ me # IDLE /\ me \in Pids /\ pc[me] = "waited" /\ GoesOn(me)
    BY <1>2, InCallIs DEF UserWaited, UserPlaces, GoesOn, CallIsOver
  <2>2. OnlyBox(NoBox)
    BY <1>0, <1>2, <2>1, KinOnly DEF UserWaited
  <2> QED
    BY <1>0, <1>2, <2>1, <2>2, UserPlain DEF UserWaited
<1>3. CASE UserTerminate
  <2>1. OnTurn(me) /\ me # IDLE /\ pc[me] = "user" /\ Call.call = "Terminate" /\ CallOK(Call)
    BY <1>3, MakesIt DEF UserTerminate
  <2> DEFINE status == Call.status
  <2>2. status \in Int /\ Then("gone") /\ sys' = Quit(sys, status)
    BY <1>3, <2>1 DEF UserTerminate, CallOK
  <2>3. pc[me] \notin PlainFrom
    BY <2>1 DEF PlainFrom, AnswerPlaces, WorkPlaces, ServingPlaces
  <2> HIDE DEF status
  <2> QED
    BY <1>3, <2>1, <2>2, <2>3, QuitLists DEF UserTerminate
<1>4. CASE UserCallsPhase1
  <2>1. OnTurn(me) /\ me # IDLE /\ me \in Pids /\ pc[me] = "user" /\ CallOK(Call)
    BY <1>4, MakesIt DEF UserCallsPhase1
  <2>2. /\ GoesOn(me) /\ Then("user")
        /\ UNCHANGED <<test, prog, processTable, sleepQ, ptr, currTime, now, diskQ, job>>
    BY <1>0, <1>4, <2>1 DEF UserCallsPhase1, CallIsOver, GoesOn, Then, TypesOK
  <2>3. CASE MakesCall("Ring") /\ sys' = Sent(sys, Door(Call.unit))
    <3> DEFINE u == Call.unit
    <3>1. u \in Units /\ sys' = Sent(sys, Door(u))
      BY <2>1, <2>3 DEF MakesCall, CallOK
    <3> HIDE DEF u
    <3> QED
      BY <2>1, <2>2, <3>1, RingLists
  <2>4. CASE \/ MakesCall("SemP") /\ sys' = SemPed(sys, Call.sem)
             \/ MakesCall("Zap") /\ sys' = Zapped(sys, Call.pid)
    <3>1. OnlyBox(NoBox)
      <4>1. CASE MakesCall("SemP") /\ sys' = SemPed(sys, Call.sem)
        <5>1. sys' = SemPed(sys, "running")
          BY <2>1, <4>1 DEF MakesCall, CallOK
        <5> QED
          BY <1>0, <2>1, <5>1, KinOnly
      <4>2. CASE MakesCall("Zap") /\ sys' = Zapped(sys, Call.pid)
        <5>1. Call.pid \in Pids
          BY <2>1, <4>2 DEF MakesCall, CallOK
        <5> QED
          BY <1>0, <2>1, <4>2, <5>1, KinOnly
      <4> QED
        BY <2>4, <4>1, <4>2
    <3> QED
      BY <1>0, <2>1, <2>2, <3>1, UserPlain
  <2> QED
    BY <1>4, <2>3, <2>4 DEF UserCallsPhase1
<1> QED
  BY <1>1, <1>2, <1>3, <1>4

LEMMA SizeLists ==
    ASSUME DriversInv, ListsInv, SizeCall \/ SizeOutput \/ SizeDone \/ DiskWriteInvalid
    PROVE  ListsInv'
<1> USE DEF sleepVars, diskVars, userVars
<1>0. Common(NoBox) /\ Common(MUTEX) /\ SysOK /\ MUTEX \in Boxes
      /\ \A x \in {"user", "size", "sizeDone", "diskWrite"} : x \in FreePlaces
  BY BoxesOfDrivers DEF Common, DriversInv, FreePlaces
<1>1. CASE SizeCall
  <2>1. OnTurn(me) /\ me # IDLE /\ pc[me] = "user" /\ GoesOn(me)
    BY <1>1, MakesIt DEF SizeCall, GoesOn
  <2>2. sys' = Sent(sys, MUTEX) /\ Then("size")
    BY <1>1 DEF SizeCall, TakeMutex
  <2>3. OnlyBox(MUTEX)
    BY <1>0, <2>1, <2>2, Sends
  <2> QED
    BY <1>0, <1>1, <2>1, <2>2, <2>3, UserPlain DEF SizeCall
<1>2. CASE SizeOutput
  <2>1. OnTurn(me) /\ me # IDLE /\ pc[me] = "size" /\ GoesOn(me) /\ ProgramFor(me, "size")
        /\ Call = CallAt(me)
    BY <1>2, InCallIs DEF SizeOutput, UserPlaces, GoesOn
  <2> DEFINE u == Call.unit
  <2>2. u \in Units /\ sys' = Received(sys, Device(u)) /\ Then("sizeDone")
    BY <1>2, <2>1 DEF SizeOutput, ProgramFor
  <2> HIDE DEF u
  <2>3. OnlyBox(Device(u)) /\ Common(Device(u))
    BY <1>0, <2>1, <2>2, Receives, BoxesOfDrivers DEF Common
  <2> QED
    BY <1>0, <1>2, <2>1, <2>2, <2>3, UserPlain DEF SizeOutput
<1>3. CASE SizeDone
  <2>1. OnTurn(me) /\ me # IDLE /\ pc[me] = "sizeDone"
    BY <1>3, InCallIs DEF SizeDone, UserPlaces
  <2>2. sys' = Received(sys, MUTEX) /\ GoesOn(me) /\ (Then("user") \/ Then("diskWrite"))
    BY <1>3 DEF SizeDone, CallIsOver, GoesOn
  <2>3. OnlyBox(MUTEX)
    BY <1>0, <2>1, <2>2, Receives
  <2> QED
    BY <1>0, <1>3, <2>1, <2>2, <2>3, UserPlain DEF SizeDone
<1>4. CASE DiskWriteInvalid
  <2>1. OnTurn(me) /\ me # IDLE /\ pc[me] \in FreePlaces
    <3>1. CASE MakesCall("DiskWrite")
      BY <1>0, <3>1, MakesIt
    <3>2. CASE Runs("diskWrite")
      BY <1>0, <3>2, InCallIs DEF UserPlaces
    <3> QED
      BY <1>4, <3>1, <3>2 DEF DiskWriteInvalid
  <2>2. OnlyBox(NoBox) /\ GoesOn(me)
    BY <1>4 DEF DiskWriteInvalid, OnlyBox, CallIsOver, GoesOn
  <2> QED
    BY <1>0, <1>4, <2>1, <2>2, UserPlain DEF DiskWriteInvalid
<1> QED
  BY <1>1, <1>2, <1>3, <1>4
\* fork1: the child waits for nothing and has no link.
LEMMA SpawnLists ==
    ASSUME DriversInv, ListsInv, UserSpawn
    PROVE  ListsInv'
<1> USE DEF sleepVars, diskVars, userVars
<1> DEFINE child == NextPid(sys)
           f == Call.f
           start == CASE f = "ClockDriver" -> "ClockDriver"
                      [] f \in {"DiskDriver0", "DiskDriver1"} -> "diskLoop"
                      [] OTHER -> "user"
<1>1. /\ OnTurn(me) /\ me # IDLE /\ me \in Pids /\ pc[me] = "user"
      /\ Call.call = "Spawn" /\ CallOK(Call) /\ TypesOK
  BY MakesIt DEF UserSpawn, DriversInv
<1>2. f \in ProgNames /\ Call.prio \in Int
  BY <1>1 DEF CallOK
<1>3. /\ CanFork(sys) /\ sys' = Forked(sys, Call.prio)
      /\ prog' = [prog EXCEPT ![child] = f] /\ pc' = [pc EXCEPT ![child] = start]
      /\ line' = [line EXCEPT ![me] = @ + 1]
      /\ UNCHANGED <<test, processTable, sleepQ, ptr, currTime, now, diskQ, job>>
  BY DEF UserSpawn, CallIsOver
<1>4. child \in Pids /\ ~(child < sys.next) /\ child # me
  <2>1. child \in Pids /\ ~(child < sys.next)
    BY <1>3, NextPidIs DEF DriversInv, SysOK, MachineOK
  <2> HIDE DEF child
  <2> QED
    BY <2>1, <1>1 DEF OnTurn
<1>5. start \in {"ClockDriver", "diskLoop", "user"}
  OBVIOUS
<1>6. sys'.box = sys.box
  <2> DEFINE prio == Call.prio
  <2>1. prio \in Int /\ sys' = Forked(sys, prio) /\ CanFork(sys)
    BY <1>2, <1>3
  <2> HIDE DEF prio
  <2>2. MachineOK(sys, Boxes, {"running"})
    BY DEF DriversInv, SysOK
  <2>3. Grown(sys', sys, child)
    BY <2>1, <2>2, ForkedKeeps
  <2> HIDE DEF child
  <2> QED
    BY <2>3 DEF Grown
<1> HIDE DEF start, child, f
<1>7. /\ pc[child] = "user" /\ line[child] = 1 /\ pc'[child] = start /\ line'[child] = 1
      /\ pc'[me] = "user" /\ prog'[me] = prog[me] /\ line'[me] = line[me] + 1 /\ line[me] \in Nat
      /\ \A q \in Pids : q # child => pc'[q] = pc[q] /\ prog'[q] = prog[q]
      /\ \A q \in Pids : q # me => line'[q] = line[q]
  BY <1>1, <1>3, <1>4 DEF DriversInv, TypesOK, Unforked
<1>8. \A q \in Pids : q # child /\ q # me => CallAt(q)' = CallAt(q)
  <2>1. ASSUME NEW q \in Pids, q # child, q # me PROVE CallAt(q)' = CallAt(q)
    <3>1. prog'[q] = prog[q] /\ line'[q] = line[q] /\ test' = test
      BY <1>3, <1>7, <2>1
    <3> QED
      BY <3>1 DEF CallAt, Calls, Test
  <2> QED
    BY <2>1
<1>9. ASSUME NEW q \in Pids
      PROVE  /\ PrivateOK(q)' /\ (Unanswered(q)' <=> Unanswered(q))
             /\ Unanswered(q) => CallAt(q)' = CallAt(q)
             /\ NapOK(q)' /\ LinkOK(q)'
  <2>1. PrivateOK(q) /\ NapOK(q) /\ LinkOK(q) /\ sys'.box[Private(q)] = sys.box[Private(q)]
    BY <1>6 DEF ListsInv, PrivatesOK, NapsOK, LinksOK
  <2>2. CASE q = child
    <3>1. ~Unanswered(q) /\ ~Unanswered(q)'
      BY <1>5, <1>7, <2>2 DEF Unanswered
    <3>2. PrivateOK(q)'
      BY <1>7, <2>1, <2>2 DEF PrivateOK, Private, Slot
    <3>3. NapOK(q)'
      BY <1>5, <1>7, <2>2 DEF NapOK
    <3>4. NextSleeper[Slot(q)] = NULL
      BY <1>7, <2>1, <2>2 DEF LinkOK
    <3>5. LinkOK(q)'
      BY <1>3, <3>4 DEF LinkOK, NextSleeper, Slot
    <3> QED
      BY <3>1, <3>2, <3>3, <3>5
  <2>3. CASE q = me
    <3>1. ~Unanswered(q) /\ ~Unanswered(q)' /\ NapOK(q)'
      BY <1>1, <1>7, <2>3 DEF Unanswered, NapOK
    <3>2. PrivateOK(q)'
      BY <1>1, <1>7, <2>1, <2>3 DEF PrivateOK, Private, Slot
    <3>3. LinkOK(q)'
      <4>1. ASSUME NextSleeper'[Slot(q)] # NULL
            PROVE  \E i \in 1 .. line'[q] : /\ i <= Len(Calls(prog[q])) /\ Sleeps(Calls(prog[q])[i])
                                            /\ i = line'[q] => pc'[q] \in {"block", "return"}
        <5>1. NextSleeper[Slot(q)] # NULL
          BY <1>3, <4>1 DEF NextSleeper
        <5>2. PICK i \in 1 .. line[q] : i <= Len(Calls(prog[q])) /\ Sleeps(Calls(prog[q])[i])
          BY <2>1, <5>1 DEF LinkOK
        <5>3. i \in 1 .. line'[q] /\ i # line'[q]
          BY <1>7, <2>3, <5>2
        <5> QED
          BY <5>2, <5>3
      <4> QED
        BY <1>3, <1>7, <2>3, <4>1 DEF LinkOK, Sleeps, Calls, Test, Slot
    <3> QED
      BY <3>1, <3>2, <3>3
  <2>4. CASE q # child /\ q # me
    <3>1. pc'[q] = pc[q] /\ prog'[q] = prog[q] /\ line'[q] = line[q] /\ CallAt(q)' = CallAt(q)
      BY <1>7, <1>8, <2>4
    <3>2. PrivateOK(q)' /\ (Unanswered(q)' <=> Unanswered(q))
      BY <2>1, <3>1 DEF PrivateOK, Unanswered, Waiting, Private, Slot
    <3>3. NapOK(q)'
      <4>1. SameNaps(q) /\ now' \in Nat /\ now <= now'
        BY <1>1, <1>3 DEF SameNaps, TypesOK
      <4> QED
        BY <1>1, <2>1, <3>1, <3>2, <4>1, NapKept
    <3>4. LinkOK(q)'
      BY <1>3, <2>1, <3>1 DEF LinkOK, Sleeps, Calls, Test, NextSleeper, Slot
    <3> QED
      BY <3>1, <3>2, <3>3, <3>4
  <2> QED
    BY <2>2, <2>3, <2>4
<1>10. Asleep' = Asleep /\ (\A u \in Units : Requesters(u)' = Requesters(u))
  <2>1. /\ \A q \in Pids : Unanswered(q)' <=> q \in Waiters
        /\ \A q \in Waiters : CallAt(q)' = CallAt(q)
    BY <1>9 DEF Waiters
  <2> QED
    BY <2>1, WaitersChange, WaitersAre
<1>11. NextSleeper' = NextSleeper /\ NextDisk' = NextDisk
  BY <1>3 DEF NextSleeper, NextDisk
<1>12. PrivatesOK' /\ LinksOK' /\ NapsOK'
  BY <1>3, <1>9 DEF ListsInv, PrivatesOK, LinksOK, NapsOK
<1>13. SleepersOK'
  BY <1>3, <1>10, <1>11, SleepersKept DEF ListsInv
<1>14. WalkOK'
  <2>1. SlotsOf(Asleep)' = SlotsOf(Asleep)
    BY <1>10 DEF SlotsOf, Slot
  <2>2. \A q \in Pids : pc'[q] \in {"clockWalk", "clockNext"} => pc'[q] = pc[q]
    BY <1>5, <1>7
  <2> QED
    BY <1>3, <1>11, <2>1, <2>2 DEF ListsInv, WalkOK
<1>15. ASSUME NEW u \in Units
       PROVE  RequestsOK(u)' /\ RequestList(u)' = RequestList(u) /\ DoorOK(u)' /\ BellOK(u)'
  <2>1. RequestList(u)' = RequestList(u)
    BY <1>3, <1>11 DEF RequestList
  <2>2. \/ pc'[Disk(u)] = pc[Disk(u)]
        \/ pc[Disk(u)] = "user" /\ pc'[Disk(u)] \in {"ClockDriver", "diskLoop", "user"}
    BY <1>5, <1>7, PidsOfStart3
  <2>3. (Serving(u)' <=> Serving(u)) /\ Notified(u)' = Notified(u)
        /\ (pc'[Disk(u)] = "diskNotify" <=> pc[Disk(u)] = "diskNotify")
    BY <1>3, <2>2 DEF Serving, Notified, Disk
  <2>4. SlotsOf(Requesters(u) \ Notified(u))' = SlotsOf(Requesters(u) \ Notified(u))
    BY <1>10, <2>3 DEF SlotsOf, Slot
  <2>5. RequestsOK(u)'
    BY <1>3, <1>10, <1>11, <2>1, <2>3, <2>4 DEF ListsInv, RequestsOK, Disk, Slot
  <2>6. DoorOK(u)'
    BY <1>6, <2>2 DEF ListsInv, DoorOK, Disk, Door
  <2>7. Rings(u) => Rings(u)'
    <3>1. ASSUME NEW q \in Pids, pc[q] = "diskRing", UnitOf(CallAt(q)) = u PROVE Rings(u)'
      <4>1. q # me /\ q # child
        BY <1>1, <1>7, <3>1
      <4> QED
        BY <1>7, <1>8, <3>1, <4>1 DEF Rings, UnitOf
    <3> QED
      BY <3>1 DEF Rings
  <2>8. AtWork(u) => AtWork(u)'
    BY <1>6, <2>2 DEF AtWork, ServingPlaces, Disk, Door
  <2>9. BellOK(u)'
    BY <1>3, <1>6, <2>7, <2>8 DEF ListsInv, BellOK, Door
  <2> QED
    BY <2>1, <2>5, <2>6, <2>9
<1>16. FreeLinks'
  BY <1>11, <1>15, FreeKept DEF ListsInv
<1>17. EntriesOK'
  <2>1. \A q \in Pids : pc'[q] = "diskAdd" => pc[q] = "diskAdd"
    BY <1>5, <1>7
  <2> QED
    BY <1>3, <1>10, <2>1 DEF ListsInv, EntriesOK, Units, Slot
<1> QED
  BY <1>12, <1>13, <1>14, <1>15, <1>16, <1>17 DEF ListsInv

\* A process writes into its own entry, and goes to the lock of a list.
OwnEntry ==
    /\ NextSleeper' = NextSleeper /\ NextDisk' = NextDisk
    /\ processTable'[Slot(me)].pid = me
    /\ \A q \in Pids : q # me => /\ SameNaps(q)
                                 /\ processTable'[Slot(q)].pid = processTable[Slot(q)].pid

LEMMA EntryLists ==
    ASSUME DriversInv, ListsInv, OnTurn(me), pc[me] \in FreePlaces, NEW x \in {"sleepAdd", "diskAdd"},
           Then(x), NEW b, Common(b), OnlyBox(b), OwnEntry, NEW p, p = me, NapOK(p)',
           UNCHANGED <<test, prog, line, sleepQ, ptr, currTime, now, diskQ, job>>
    PROVE  ListsInv'
<1>1. /\ TypesOK /\ me \in Pids /\ Moves(me, x) /\ GoesOn(me) /\ Public(b) /\ NoDoor(b)
      /\ pc[me] \notin AnswerPlaces /\ x \notin AnswerPlaces
      /\ pc[me] \notin {"sleepAdd", "block", "return", "diskRing", "diskAdd", "diskNotify"}
      /\ pc[me] \notin WorkPlaces \cup {"diskWoken"}
      /\ x \notin ServingPlaces /\ x \notin {"clockWalk", "clockNext", "diskNotify"}
  BY BoxesPublic
  DEF DriversInv, OnTurn, Moves, Then, Positions, GoesOn, FreePlaces, AnswerPlaces, WorkPlaces, ServingPlaces
<1>2. /\ Asleep' = Asleep /\ (\A u \in Units : Requesters(u)' = Requesters(u)) /\ Waiters' = Waiters
  BY <1>1, WaitersKept
<1>3. PrivatesOK' /\ SleepersOK' /\ WalkOK'
  BY <1>1, <1>2, PrivatesKept, SleepersKept, WalkKept DEF ListsInv, OwnEntry
<1>4. LinksOK'
  BY <1>1, LinksKept DEF ListsInv, OwnEntry
<1>5. NapsOK'
  <2>1. ASSUME NEW q \in Pids, q # p PROVE NapOK(q)'
    <3>1. pc'[q] = pc[q] /\ CallAt(q)' = CallAt(q)
      BY <1>1, <2>1, OthersWait
    <3>2. NapOK(q) /\ now' \in Nat /\ now <= now' /\ SameNaps(q) /\ (Unanswered(q) => Unanswered(q)')
      BY <1>1, <1>2, <2>1 DEF ListsInv, NapsOK, TypesOK, OwnEntry, Waiters
    <3> QED
      BY <1>1, <3>1, <3>2, NapKept
  <2> QED
    BY <2>1 DEF ListsInv, NapsOK
<1>6. ASSUME NEW u \in Units
      PROVE  RequestsOK(u)' /\ RequestList(u)' = RequestList(u) /\ DoorOK(u)' /\ BellOK(u)'
  <2>1. RequestsOK(u) /\ DoorOK(u) /\ BellOK(u)
    BY DEF ListsInv
  <2>2. RequestsOK(u)' /\ RequestList(u)' = RequestList(u)
    BY <1>1, <1>2, <2>1, RequestsKept DEF OwnEntry
  <2>3. DoorOK(u)' /\ sys'.box[Door(u)] = sys.box[Door(u)]
    BY <1>1, <2>1, DoorKept DEF NoDoor
  <2>4. BellOK(u)'
    BY <1>1, <2>1, <2>3, BellKept
  <2> QED
    BY <2>2, <2>3, <2>4
<1>7. FreeLinks'
  BY <1>6, FreeKept DEF ListsInv, OwnEntry
<1>8. EntriesOK'
  <2>1. \A q \in Pids : q # me => pc'[q] = pc[q]
    BY <1>1, OthersWait
  <2>2. Requesters(0)' = Requesters(0) /\ Requesters(1)' = Requesters(1)
    BY <1>2 DEF Units
  <2>3. ASSUME NEW q \in Pids, pc'[q] = "diskAdd" \/ q \in Requesters(0)' \cup Requesters(1)'
        PROVE  processTable'[Slot(q)].pid = q
    BY <2>1, <2>2, <2>3 DEF ListsInv, EntriesOK, OwnEntry
  <2> QED
    BY <2>3 DEF EntriesOK, Slot
<1> QED
  BY <1>3, <1>4, <1>5, <1>6, <1>7, <1>8 DEF ListsInv

\* What a call writes into its entry is the caller's own.
LEMMA EntryWritten ==
    ASSUME TypesOK, me \in Pids, NEW e, processTable' = [processTable EXCEPT ![Slot(me)] = e],
           e.nextSleeperProc = processTable[Slot(me)].nextSleeperProc,
           e.nextDiskProc = processTable[Slot(me)].nextDiskProc, e.pid = me
    PROVE  OwnEntry /\ processTable'[Slot(me)] = e
<1> DEFINE s == Slot(me)
<1>1. s \in Slots /\ processTable \in [Slots -> ProcRec]
  BY SlotsApart DEF TypesOK
<1>2. \A q \in Pids : q # me => Slot(q) # s /\ Slot(q) \in Slots
  BY SlotsApart
<1>3. processTable' = [processTable EXCEPT ![s] = e]
  OBVIOUS
<1>4. e.nextSleeperProc = processTable[s].nextSleeperProc /\ e.nextDiskProc = processTable[s].nextDiskProc
  OBVIOUS
<1> HIDE DEF s
<1>5. processTable'[s] = e /\ \A t \in Slots : t # s => processTable'[t] = processTable[t]
  BY <1>1, <1>3
<1>6. NextSleeper' = NextSleeper /\ NextDisk' = NextDisk
  BY <1>4, <1>5 DEF NextSleeper, NextDisk
<1>7. \A q \in Pids : q # me => processTable'[Slot(q)] = processTable[Slot(q)]
  BY <1>2, <1>5
<1> QED
  BY <1>5, <1>6, <1>7 DEF OwnEntry, SameNaps, s

LEMMA SleepCallLists ==
    ASSUME DriversInv, ListsInv, SleepCall
    PROVE  ListsInv'
<1> USE DEF sleepVars, diskVars, userVars
<1>1. /\ OnTurn(me) /\ me # IDLE /\ me \in Pids /\ pc[me] = "user" /\ CallOK(Call)
      /\ Call.call = "Sleep" /\ Call = CallAt(me) /\ TypesOK /\ SysOK
  BY MakesIt DEF SleepCall, DriversInv
<1>2. UNCHANGED <<test, prog, sleepQ, ptr, currTime, now, diskQ, job>>
  BY DEF SleepCall
<1>3. CASE Call.seconds < 0
  <2>1. CallIsOver /\ UNCHANGED <<sys, pc, processTable>>
    BY <1>3 DEF SleepCall
  <2>2. GoesOn(me) /\ Then("user") /\ OnlyBox(NoBox) /\ Common(NoBox)
    BY <1>1, <2>1 DEF CallIsOver, GoesOn, Then, TypesOK, OnlyBox, Common
  <2> QED
    BY <1>1, <1>2, <2>1, <2>2, UserPlain DEF FreePlaces
<1>4. CASE ~(Call.seconds < 0)
  <2> DEFINE s == Slot(me)
             end == Int32(now + Call.seconds)
             e == [processTable[s] EXCEPT !.pid = me, !.startTime = now, !.sleepEndTime = end]
  <2>1. /\ processTable' = [processTable EXCEPT ![s].pid = me, ![s].startTime = now,
                                                ![s].sleepEndTime = end]
        /\ sys' = Sent(sys, SleepLock) /\ Then("sleepAdd") /\ UNCHANGED line
    BY <1>4 DEF SleepCall
  <2>2. OnlyBox(SleepLock) /\ Common(SleepLock)
    BY <1>1, <2>1, Sends, BoxesOfDrivers DEF Common
  <2>3. s \in Slots /\ processTable \in [Slots -> ProcRec] /\ processTable[s] \in ProcRec
    BY <1>1, SlotsApart DEF TypesOK
  <2>4. end = Int32(now + CallAt(me).seconds)
    BY <1>1
  <2> HIDE DEF s, end
  <2>5. /\ e.nextSleeperProc = processTable[s].nextSleeperProc
        /\ e.nextDiskProc = processTable[s].nextDiskProc
        /\ e.pid = me /\ e.startTime = now /\ e.sleepEndTime = end
    BY <2>3 DEF ProcRec
  <2>6. processTable' = [processTable EXCEPT ![s] = e]
    <3> DEFINE a == [processTable EXCEPT ![s].pid = me]
               b == [a EXCEPT ![s].startTime = now]
    <3>1. processTable' = [b EXCEPT ![s].sleepEndTime = end]
      BY <2>1
    <3>2. a[s] = [processTable[s] EXCEPT !.pid = me]
      BY <2>3
    <3>3. b[s] = [a[s] EXCEPT !.startTime = now]
      BY <2>3
    <3>4. e = [b[s] EXCEPT !.sleepEndTime = end]
      BY <3>2, <3>3
    <3> HIDE DEF e
    <3> QED
      BY <2>3, <3>1, <3>4
  <2> HIDE DEF e
  <2>7. OwnEntry /\ processTable'[Slot(me)] = e
    BY <1>1, <2>5, <2>6, EntryWritten DEF s
  <2>8. PICK p \in Pids : p = me
    BY <1>1
  <2>9. Moves(p, "sleepAdd") /\ UNCHANGED <<test, prog, line>>
    BY <1>2, <2>1, <2>8 DEF Moves, Then, Positions
  <2>10. pc'[p] = "sleepAdd" /\ CallAt(p)' = CallAt(p)
    BY <1>1, <2>9, MoverIs
  <2>11. NapOK(p)'
    <3>1. now \in Nat /\ now' = now /\ now <= now
      BY <1>1, <1>2 DEF TypesOK
    <3>2. processTable'[Slot(p)] = e /\ e.startTime = now /\ e.sleepEndTime = Int32(now + CallAt(p).seconds)
      BY <2>4, <2>5, <2>7, <2>8
    <3>3. CallAt(p).call = "Sleep" /\ ~(CallAt(p).seconds < 0)
      BY <1>1, <1>4, <2>8
    <3>4. NapOK(p)' <=>
         (pc'[p] \in {"sleepAdd", "block", "return"} /\ CallAt(p)'.call = "Sleep" =>
            /\ Sleeps(CallAt(p)') /\ processTable'[Slot(p)].startTime \in Nat
            /\ processTable'[Slot(p)].startTime <= now'
            /\ processTable'[Slot(p)].sleepEndTime =
                  Int32(processTable'[Slot(p)].startTime + CallAt(p)'.seconds)
            /\ pc'[p] = "sleepAdd" \/ Unanswered(p)' \/ processTable'[Slot(p)].sleepEndTime < now')
      BY DEF NapOK, Slot, Sleeps, Int32
    <3> QED
      BY <2>10, <3>1, <3>2, <3>3, <3>4 DEF Sleeps
  <2> QED
    BY <1>1, <1>2, <2>1, <2>2, <2>7, <2>8, <2>11, EntryLists DEF FreePlaces
<1> QED
  BY <1>3, <1>4

LEMMA RequestLists ==
    ASSUME DriversInv, ListsInv, OnTurn(me), me # IDLE, pc[me] \in {"user", "diskWrite"},
           NEW c, NEW op, NEW data, Request(c, op, data),
           UNCHANGED <<test, prog, line, sleepQ, ptr, currTime, now, diskQ, job>>
    PROVE  ListsInv'
<1> DEFINE s == Slot(me)
           u == UnitOf(c)
           e == [processTable[s] EXCEPT !.pid = me, !.track = c.track, !.first = c.first,
                     !.sectors = c.sectors, !.operation = op, !.buffer = data]
<1>1. /\ me \in Pids /\ TypesOK /\ SysOK /\ s \in Slots /\ processTable[s] \in ProcRec /\ u \in Units
      /\ QueueLock(u) \in Boxes /\ Common(QueueLock(u))
  BY SlotsApart, UnitIs, BoxesOfDrivers DEF DriversInv, TypesOK, OnTurn, Common
<1>2. /\ processTable' = [processTable EXCEPT ![s] = e]
      /\ sys' = Sent(sys, QueueLock(u)) /\ Then("diskAdd")
  BY DEF Request
<1> HIDE DEF s, u
<1>3. e.nextSleeperProc = processTable[s].nextSleeperProc /\ e.nextDiskProc = processTable[s].nextDiskProc
      /\ e.pid = me
  BY <1>1 DEF ProcRec
<1> HIDE DEF e
<1>4. OwnEntry
  BY <1>1, <1>2, <1>3, EntryWritten DEF s
<1>5. OnlyBox(QueueLock(u))
  BY <1>1, <1>2, Sends
<1>6. PICK p \in Pids : p = me
  BY <1>1
<1>7. NapOK(p)'
  <2>1. pc'[p] = "diskAdd"
    BY <1>1, <1>2, <1>6 DEF Then, TypesOK
  <2> QED
    BY <2>1 DEF NapOK
<1>8. pc[me] \in FreePlaces
  BY DEF FreePlaces
<1> QED
  BY <1>1, <1>2, <1>4, <1>5, <1>6, <1>7, <1>8, EntryLists

LEMMA RequestCallsLists ==
    ASSUME DriversInv, ListsInv, DiskReadCall \/ DiskWriteCall
    PROVE  ListsInv'
<1> USE DEF sleepVars, diskVars, userVars
<1>1. CASE DiskReadCall
  <2>1. OnTurn(me) /\ me # IDLE /\ pc[me] = "user"
    BY <1>1, MakesIt DEF DiskReadCall
  <2> DEFINE c == Call
  <2>2. Request(c, "read", BLANK)
    BY <1>1 DEF DiskReadCall
  <2> HIDE DEF c
  <2> QED
    BY <1>1, <2>1, <2>2, RequestLists DEF DiskReadCall
<1>2. CASE DiskWriteCall
  <2>1. OnTurn(me) /\ me # IDLE /\ pc[me] = "diskWrite"
    BY <1>2, InCallIs DEF DiskWriteCall, UserPlaces
  <2> DEFINE c == Call
             data == Call.data
  <2>2. Request(c, "write", data)
    BY <1>2 DEF DiskWriteCall
  <2> HIDE DEF c, data
  <2> QED
    BY <1>2, <2>1, <2>2, RequestLists DEF DiskWriteCall
<1> QED
  BY <1>1, <1>2

\* A step of somebody who waits, or has been answered, when no request and no sleeper comes or goes.
LEMMA StillListed ==
    ASSUME DriversInv, ListsInv, NEW p \in Pids, pc[p] \in AnswerPlaces,
           NEW x \in {"block", "return", "user"}, Moves(p, x), GoesOn(p),
           x = "user" => line' = [line EXCEPT ![p] = @ + 1],
           UNCHANGED <<test, prog, processTable, sleepQ, ptr, currTime, now, diskQ, job>>,
           PrivatesOK', Waiters' = Waiters, Asleep' = Asleep,
           \A u \in Units : Requesters(u)' = Requesters(u), NapOK(p)',
           \A u \in Units : DoorOK(u)' /\ BellOK(u)'
    PROVE  ListsInv'
<1>1. TypesOK /\ NextSleeper' = NextSleeper /\ NextDisk' = NextDisk
      /\ x \notin {"clockWalk", "clockNext", "diskAdd", "diskNotify"} /\ x \notin ServingPlaces
      /\ pc[p] # "diskNotify"
  BY DEF DriversInv, NextSleeper, NextDisk, AnswerPlaces, ServingPlaces
<1>2. SleepersOK' /\ WalkOK'
  BY <1>1, SleepersKept, WalkKept DEF ListsInv
<1>3. LinksOK'
  BY <1>1, LinksKept DEF ListsInv
<1>4. NapsOK'
  <2>1. ASSUME NEW q \in Pids, q # p PROVE NapOK(q)'
    <3>1. pc'[q] = pc[q] /\ CallAt(q)' = CallAt(q)
      BY <1>1, <2>1, OthersWait
    <3>2. Unanswered(q)' <=> Unanswered(q)
      BY DEF Waiters
    <3>3. NapOK(q) /\ SameNaps(q) /\ now' \in Nat /\ now <= now'
      BY <1>1 DEF ListsInv, NapsOK, SameNaps, TypesOK
    <3> QED
      BY <1>1, <3>1, <3>2, <3>3, NapKept
  <2>2. currTime' <= now'
    BY DEF ListsInv, NapsOK
  <2> QED
    BY <2>1, <2>2 DEF NapsOK
<1>5. ASSUME NEW u \in Units PROVE RequestsOK(u)' /\ RequestList(u)' = RequestList(u)
  BY <1>1, RequestsKept DEF ListsInv
<1>6. FreeLinks' /\ EntriesOK'
  BY <1>1, <1>5, FreeKept, EntriesKept DEF ListsInv
<1> QED
  BY <1>2, <1>3, <1>4, <1>5, <1>6 DEF ListsInv

LEMMA BlockLists ==
    ASSUME DriversInv, ListsInv, Block
    PROVE  ListsInv'
<1> USE DEF sleepVars, diskVars, userVars
<1>1. /\ OnTurn(me) /\ me # IDLE /\ me \in Pids /\ pc[me] = "block" /\ TypesOK /\ SysOK
  BY InCallIs DEF Block, UserPlaces, DriversInv
<1>2. PICK p \in Pids : p = me
  BY <1>1
<1>3. /\ Moves(p, "return") /\ GoesOn(p) /\ sys' = Received(sys, Private(p))
      /\ UNCHANGED <<test, prog, line, processTable, sleepQ, ptr, currTime, now, diskQ, job>>
  BY <1>2 DEF Block, Moves, Then, Positions, GoesOn
<1>4. /\ PrivatesOK' /\ Waiters' = Waiters /\ OnlyBox(Private(p))
      /\ Asleep' = Asleep /\ \A u \in Units : Requesters(u)' = Requesters(u)
  BY <1>1, <1>2, <1>3, WaiterBlocks DEF ListsInv
<1>5. pc'[p] = "return" /\ CallAt(p)' = CallAt(p)
  BY <1>1, <1>3, MoverIs
<1>6. NapOK(p)'
  <2>1. NapOK(p) /\ (Unanswered(p)' <=> Unanswered(p)) /\ SameNaps(p) /\ now' = now
    BY <1>3, <1>4 DEF ListsInv, NapsOK, Waiters, SameNaps
  <2>2. NapOK(p)' <=>
         (pc'[p] \in {"sleepAdd", "block", "return"} /\ CallAt(p)'.call = "Sleep" =>
            /\ Sleeps(CallAt(p)') /\ processTable'[Slot(p)].startTime \in Nat
            /\ processTable'[Slot(p)].startTime <= now'
            /\ processTable'[Slot(p)].sleepEndTime =
                  Int32(processTable'[Slot(p)].startTime + CallAt(p)'.seconds)
            /\ pc'[p] = "sleepAdd" \/ Unanswered(p)' \/ processTable'[Slot(p)].sleepEndTime < now')
    BY DEF NapOK, Slot, Sleeps, Int32
  <2>3. pc[p] = "block"
    BY <1>1, <1>2
  <2> QED
    BY <1>5, <2>1, <2>2, <2>3 DEF NapOK, SameNaps
<1>7. ASSUME NEW u \in Units PROVE DoorOK(u)' /\ BellOK(u)'
  <2>1. DoorOK(u) /\ BellOK(u) /\ Private(p) # Door(u)
    BY BoxesPublic DEF ListsInv, Public
  <2>2. DoorOK(u)' /\ sys'.box[Door(u)] = sys.box[Door(u)]
    BY <1>1, <1>2, <1>3, <1>4, <2>1, DoorKept
  <2>3. BellOK(u)'
    BY <1>1, <1>2, <1>3, <2>1, <2>2, BellKept DEF WorkPlaces, ServingPlaces
  <2> QED
    BY <2>2, <2>3
<1>8. pc[p] \in AnswerPlaces
  BY <1>1, <1>2 DEF AnswerPlaces
<1> QED
  BY <1>3, <1>4, <1>6, <1>7, <1>8, StillListed

LEMMA ReturnLists ==
    ASSUME DriversInv, ListsInv, Return
    PROVE  ListsInv'
<1> USE DEF sleepVars, diskVars, userVars
<1>1. /\ OnTurn(me) /\ me # IDLE /\ me \in Pids /\ pc[me] = "return" /\ TypesOK /\ SysOK
  BY InCallIs DEF Return, UserPlaces, DriversInv
<1>2. PICK p \in Pids : p = me
  BY <1>1
<1>3. /\ Moves(p, "user") /\ GoesOn(p) /\ line' = [line EXCEPT ![p] = @ + 1]
      /\ UNCHANGED <<test, prog, sys, processTable, sleepQ, ptr, currTime, now, diskQ, job>>
  BY <1>2 DEF Return, Moves, Then, Positions, GoesOn, CallIsOver
<1>4. /\ PrivatesOK' /\ Waiters' = Waiters
      /\ Asleep' = Asleep /\ \A u \in Units : Requesters(u)' = Requesters(u)
  BY <1>1, <1>2, <1>3, WaiterReturns DEF ListsInv
<1>5. NapOK(p)'
  <2>1. pc'[p] = "user"
    BY <1>1, <1>3, MoverIs
  <2> QED
    BY <2>1 DEF NapOK
<1>6. ASSUME NEW u \in Units PROVE DoorOK(u)' /\ BellOK(u)'
  <2>1. DoorOK(u) /\ BellOK(u)
    BY DEF ListsInv
  <2>2. DoorOK(u)' /\ sys'.box[Door(u)] = sys.box[Door(u)]
    BY <1>1, <1>2, <1>3, <2>1, DoorKept
  <2>3. BellOK(u)'
    BY <1>1, <1>2, <1>3, <2>1, <2>2, BellKept DEF WorkPlaces, ServingPlaces
  <2> QED
    BY <2>2, <2>3
<1>7. pc[p] \in AnswerPlaces
  BY <1>1, <1>2 DEF AnswerPlaces
<1> QED
  BY <1>3, <1>4, <1>5, <1>6, <1>7, StillListed

LEMMA DiskRingLists ==
    ASSUME DriversInv, ListsInv, DiskRing
    PROVE  ListsInv'
<1> USE DEF sleepVars, diskVars, userVars
<1>1. /\ OnTurn(me) /\ me # IDLE /\ me \in Pids /\ pc[me] = "diskRing" /\ TypesOK /\ SysOK
      /\ CallAt(me).call \in {"DiskRead", "DiskWrite"} /\ UnitOf(Call) = UnitOf(CallAt(me))
  BY InCallIs DEF DiskRing, UserPlaces, DriversInv, ProgramFor, Inside
<1>2. PICK p \in Pids : p = me
  BY <1>1
<1>b. PICK u \in Units : u = UnitOf(Call)
  BY UnitIs
<1>3. sys' = CondSent(sys, Door(u))
  BY <1>b DEF DiskRing, RingDoor
<1>4. /\ Moves(p, "block") /\ GoesOn(p)
      /\ UNCHANGED <<test, prog, line, processTable, sleepQ, ptr, currTime, now, diskQ, job>>
  BY <1>2 DEF DiskRing, Moves, Then, Positions, GoesOn
<1>a. pc[p] = "diskRing" /\ u = UnitOf(CallAt(p)) /\ CallAt(p).call \in {"DiskRead", "DiskWrite"}
  BY <1>1, <1>2, <1>b
<1>5. OnlyBox(Door(u)) /\ sys'.box[Door(u)] = CondSentBox(sys.box[Door(u)]) /\ Public(Door(u))
  <2>1. OnlyBox(Door(u)) /\ SameButBox(sys', sys, Door(u), CondSentBox(sys.box[Door(u)]))
    BY <1>1, <1>3, CondSends, BoxesOfDrivers
  <2> QED
    BY <1>1, <2>1, OnlyBoxIs, BoxesOfDrivers, BoxesPublic
<1>6. /\ Waiters' = Waiters
      /\ Asleep' = SleepersOf(Waiters') /\ \A v \in Units : Requesters(v)' = RequestersOf(Waiters', v)
  BY <1>1, <1>2, <1>4, <1>5, WaiterComes DEF ListsInv
<1>7. Asleep' = Asleep /\ \A v \in Units : Requesters(v)' = Requesters(v)
  <2>1. Asleep' = SleepersOf(Waiters) /\ \A v \in Units : Requesters(v)' = RequestersOf(Waiters, v)
    BY <1>6
  <2> QED
    BY <2>1, WaitersAre
<1>8. PrivatesOK'
  BY <1>1, <1>2, <1>4, <1>5, PrivatesKept DEF ListsInv, AnswerPlaces
<1>9. NapOK(p)'
  <2>1. CallAt(p)' = CallAt(p)
    BY <1>1, <1>4, MoverIs
  <2>2. CallAt(p)'.call # "Sleep"
    BY <1>a, <2>1
  <2> QED
    BY <2>2 DEF NapOK
<1>10. ASSUME NEW v \in Units PROVE DoorOK(v)' /\ BellOK(v)'
  <2>1. DoorOK(v) /\ BellOK(v) /\ Disk(v) \in Pids
    BY PidsOfStart3 DEF ListsInv
  <2>2. CASE v = u
    <3>1. /\ pc[Disk(u)] = "diskWoken" => pc'[Disk(u)] = "diskWoken"
          /\ pc[Disk(u)] \in WorkPlaces => pc'[Disk(u)] = pc[Disk(u)]
      BY <1>1, <1>a, <1>4, <2>1, <2>2 DEF Moves, TypesOK, WorkPlaces, ServingPlaces
    <3>2. /\ DoorOK(u)'
          /\ \/ sys'.box[Door(u)].held = 1
             \/ pc[Disk(u)] = "diskWoken" /\ sys'.box[Door(u)].receivers = <<>>
      BY <1>1, <1>2, <1>5, <3>1, DoorRung
    <3>3. BellOK(u)'
      BY <3>1, <3>2 DEF BellOK, AtWork, Disk, Door
    <3> QED
      BY <2>2, <3>2, <3>3
  <2>3. CASE v # u
    <3>1. Door(u) # Door(v) /\ UnitOf(CallAt(p)) # v
      BY <1>1, <1>a, <2>3, BoxesPublic
    <3>2. DoorOK(v)' /\ sys'.box[Door(v)] = sys.box[Door(v)]
      BY <1>1, <1>2, <1>4, <1>5, <2>1, <3>1, DoorKept
    <3>3. BellOK(v)'
      BY <1>1, <1>a, <1>4, <2>1, <3>1, <3>2, BellKept DEF WorkPlaces, ServingPlaces
    <3> QED
      BY <3>2, <3>3
  <2> QED
    BY <2>2, <2>3
<1>11. pc[p] \in AnswerPlaces
  BY <1>a DEF AnswerPlaces
<1> QED
  BY <1>4, <1>6, <1>7, <1>8, <1>9, <1>10, <1>11, StillListed

\* start3 does not sleep, and asks no disk for anything.
ListCalls == {"Sleep", "DiskRead", "DiskWrite"}
LEMMA CallsOfTests ==
    ASSUME DriversInv, NEW p \in Pids, Inside(p, ListCalls),
           prog[p] \in {"start3"} \cup DOMAIN Test.code
    PROVE  /\ prog[p] # "start3" /\ test \in DOMAIN Tests /\ prog[p] \in DOMAIN Tests[test].code
           /\ Calls(prog[p]) = Tests[test].code[prog[p]]
           /\ DOMAIN Tests[test].code[prog[p]] = 1 .. Len(Calls(prog[p]))
           /\ line[p] \in 1 .. Len(Calls(prog[p])) /\ Len(Calls(prog[p])) \in Nat
<1>1. test \in DOMAIN Tests /\ line[p] \in Nat \ {0}
  BY DEF DriversInv, TypesOK
<1> DEFINE others == {Spawn("ClockDriver", 2), SemP("running"), Spawn("DiskDriver0", 2),
                      Spawn("DiskDriver1", 2), Spawn("start4", 3), Wait, Zap(CLOCK), Ring(0),
                      Zap(Disk(0)), Ring(1), Zap(Disk(1)), Terminate(0)}
<1>2. StartUp \o ShutDown \in Seq(others)
  <2>1. StartUp \in Seq(others)
    BY DEF StartUp
  <2>2. ShutDown \in Seq(others)
    BY DEF ShutDown
  <2> HIDE DEF others
  <2> QED
    BY <2>1, <2>2
<1>3. \A c \in others : c.call \notin ListCalls
  BY DEF Spawn, SemP, Wait, Zap, Ring, Terminate, ListCalls
<1> HIDE DEF others
<1>4. prog[p] # "start3"
  <2>1. SUFFICES ASSUME prog[p] = "start3" PROVE FALSE
    OBVIOUS
  <2>2. Calls(prog[p]) \in Seq(others)
    BY <1>2, <2>1 DEF Calls
  <2>3. line[p] \in 1 .. Len(Calls(prog[p]))
    BY <1>1, <2>2, LenProperties DEF Inside
  <2>4. CallAt(p) \in others
    BY <2>2, <2>3, ElementOfSeq DEF CallAt
  <2> QED
    BY <1>3, <2>4 DEF Inside
<1>5. prog[p] \in DOMAIN Tests[test].code /\ Calls(prog[p]) = Tests[test].code[prog[p]]
  BY <1>4 DEF Calls, Test
<1>6. Calls(prog[p]) \in Seq(CallsIn(DOMAIN Tests[test].code))
  BY <1>1, <1>5, TestsAssumption
<1>7. Len(Calls(prog[p])) \in Nat /\ DOMAIN Calls(prog[p]) = 1 .. Len(Calls(prog[p]))
  BY <1>6, LenProperties
<1>8. line[p] \in 1 .. Len(Calls(prog[p]))
  BY <1>1, <1>7 DEF Inside
<1> QED
  BY <1>1, <1>4, <1>5, <1>7, <1>8

\* Who sleeps has no link from before.
LEMMA FreshLink ==
    ASSUME SleepsOnce(Tests), DriversInv, ListsInv, NEW p \in Pids, pc[p] = "sleepAdd"
    PROVE  NextSleeper[Slot(p)] = NULL
<1>1. SUFFICES ASSUME NextSleeper[Slot(p)] # NULL PROVE FALSE
  OBVIOUS
<1>2. ProgramFor(p, "sleepAdd") /\ LinkOK(p) /\ NapOK(p)
  BY DEF DriversInv, Programs, ListsInv, LinksOK, NapsOK
<1>3. Inside(p, {"Sleep"}) /\ prog[p] \in {"start3"} \cup DOMAIN Test.code
  BY <1>2 DEF ProgramFor, UserPlaces
<1>4. Inside(p, ListCalls)
  BY <1>3 DEF Inside, ListCalls
<1> DEFINE code == Calls(prog[p])
<1>5. /\ test \in DOMAIN Tests /\ prog[p] \in DOMAIN Tests[test].code
      /\ code = Tests[test].code[prog[p]]
      /\ DOMAIN Tests[test].code[prog[p]] = 1 .. Len(code)
      /\ line[p] \in 1 .. Len(code) /\ Len(code) \in Nat
  BY <1>3, <1>4, CallsOfTests
<1>6. Sleeps(code[line[p]])
  BY <1>2, <1>3 DEF NapOK, Inside, CallAt
<1>7. PICK i \in 1 .. line[p] : i <= Len(code) /\ Sleeps(code[i]) /\ i # line[p]
  BY <1>1, <1>2 DEF LinkOK
<1> HIDE DEF code
<1>8. i \in 1 .. Len(code)
  BY <1>5, <1>7
<1>9. \A j, k \in 1 .. Len(code) : Sleeps(code[j]) /\ Sleeps(code[k]) => j = k
  BY <1>5 DEF SleepsOnce
<1> QED
  BY <1>5, <1>6, <1>7, <1>8, <1>9

LEMMA NotEndless ==
    ASSUME SleepersOK
    PROVE  ~Endless(Sleepers)
<1>1. MAXPROC \in Nat \ {0}
  BY LowerPhasesAssumption
<1>2. IsFiniteSet(Slots) /\ Cardinality(Slots) = MAXPROC
  <2>1. 0 \in Int /\ MAXPROC-1 \in Int
    BY <1>1
  <2>2. IsFiniteSet(0 .. MAXPROC-1)
        /\ Cardinality(0 .. MAXPROC-1) = IF 0 > MAXPROC-1 THEN 0 ELSE (MAXPROC-1) - 0 + 1
    BY <2>1, FS_Interval, Zenon
  <2> QED
    BY <1>1, <2>2 DEF Slots
<1>3. Sleepers \in Seq(Slots) /\ Distinct(Sleepers)
  BY DEF SleepersOK, IsList
<1>4. Len(Sleepers) <= MAXPROC /\ Len(Sleepers) \in Nat
  BY <1>2, <1>3, ListLength, LenProperties
<1> QED
  BY <1>1, <1>4 DEF Endless

LEMMA SleeperAdded ==
    ASSUME TypesOK, SleepersOK, NEW s \in Slots, s \notin Members(Sleepers), NextSleeper[s] = NULL,
           AddToSleepQ(s)
    PROVE  /\ IsList(Slots, NULL, Sleepers', sleepQ', NextSleeper')
           /\ Members(Sleepers') = Members(Sleepers) \cup {s}
           /\ \A t \in Slots : NextSleeper'[t] # NULL => NextSleeper[t] # NULL \/ t \in Members(Sleepers)
           /\ SleepLinksOnly
<1> DEFINE q == Sleepers
           next == NextSleeper
           links == NextSleeper'
<1>1. /\ IsList(Slots, NULL, q, sleepQ, next) /\ q \in Seq(Slots) /\ next \in [Slots -> Pointers]
      /\ NULL \notin Slots /\ s \in Pointers /\ next[s] = NULL /\ s \notin Members(q)
      /\ sleepQ \in Pointers
  BY LinksAreLinks, DriversAssumption DEF SleepersOK, TypesOK, Pointers
<1>2. /\ next = [t \in Slots |-> processTable[t].nextSleeperProc]
      /\ links = [t \in Slots |-> processTable'[t].nextSleeperProc]
      /\ Sleepers' = Chain(links, sleepQ')
  BY DEF NextSleeper, Sleepers
<1>3. processTable \in [Slots -> ProcRec] /\ Len(q) \in Nat
  BY <1>1, LenProperties DEF TypesOK
<1> HIDE DEF q, next, links
<1>4. CASE sleepQ = NULL
  <2>1. sleepQ' = s /\ processTable' = processTable
    BY <1>4 DEF AddToSleepQ
  <2>2. links = next
    BY <1>2, <2>1
  <2>3. Members(q) = {}
    BY <1>1, <1>4, ListFirst
  <2> DEFINE one == <<s>>
  <2>4. IsList(Slots, NULL, one, s, next) /\ Members(one) = {s}
    BY <1>1, ListOfOne
  <2> HIDE DEF one
  <2>5. Sleepers' = one
    BY <1>1, <1>2, <2>1, <2>2, <2>4, ChainIsList
  <2>6. SleepLinksOnly
    BY <2>1 DEF SleepLinksOnly
  <2> QED
    BY <2>1, <2>2, <2>3, <2>4, <2>5, <2>6 DEF q, next, links
<1>5. CASE sleepQ # NULL
  <2> DEFINE l == Last(q)
             more == Append(q, s)
  <2>1. Len(q) > 0
    BY <1>1, <1>3, <1>5 DEF IsList
  <2>2. l \in Members(q) /\ next[l] = NULL
    BY <1>1, <2>1, NextInList DEF Last
  <2>3. l \in Slots
    <3>1. Len(q) \in 1 .. Len(q)
      BY <1>3, <2>1
    <3> QED
      BY <1>1, <3>1, ElementOfSeq DEF Last
  <2>4. sleepQ' = sleepQ /\ processTable' = [processTable EXCEPT ![l].nextSleeperProc = s]
    BY <1>5 DEF AddToSleepQ, q
  <2> HIDE DEF l
  <2>5. \A t \in Slots : processTable'[t] =
              IF t = l THEN [processTable[t] EXCEPT !.nextSleeperProc = s] ELSE processTable[t]
    BY <1>3, <2>3, <2>4
  <2>6. \A t \in Slots : links[t] = IF t = l THEN s ELSE next[t]
    <3>1. ASSUME NEW t \in Slots PROVE links[t] = IF t = l THEN s ELSE next[t]
      <4>1. processTable[t] \in ProcRec
        BY <1>3
      <4>2. links[t] = processTable'[t].nextSleeperProc /\ next[t] = processTable[t].nextSleeperProc
        BY <1>2
      <4>3. CASE t = l
        <5>1. processTable'[t] = [processTable[t] EXCEPT !.nextSleeperProc = s]
          BY <2>5, <4>3
        <5>2. processTable'[t].nextSleeperProc = s
          BY <4>1, <5>1 DEF ProcRec
        <5> QED
          BY <4>2, <4>3, <5>2
      <4>4. CASE t # l
        BY <2>5, <4>2, <4>4
      <4> QED
        BY <4>3, <4>4
    <3> QED
      BY <3>1
  <2>7. IsList(Slots, NULL, more, sleepQ, links)
    BY <1>1, <2>2, <2>6, ListAppend DEF Pointers
  <2>8. Members(more) = Members(q) \cup {s}
    BY <1>1, AppendMembers
  <2>9. links \in [Slots -> Pointers]
    <3>1. \A t \in Slots : links[t] \in Pointers
      BY <1>1, <2>6
    <3>2. links = [t \in Slots |-> links[t]]
      BY <1>2
    <3> QED
      BY <3>1, <3>2
  <2> HIDE DEF more
  <2>10. Sleepers' = more
    BY <1>1, <1>2, <2>4, <2>7, <2>9, ChainIsList
  <2>11. \A t \in Slots : links[t] # NULL => next[t] # NULL \/ t \in Members(q)
    BY <2>2, <2>6
  <2>12. SleepLinksOnly
    <3>1. ASSUME NEW t \in Slots
          PROVE  /\ processTable'[t].pid = processTable[t].pid
                 /\ processTable'[t].nextDiskProc = processTable[t].nextDiskProc
                 /\ processTable'[t].startTime = processTable[t].startTime
                 /\ processTable'[t].sleepEndTime = processTable[t].sleepEndTime
                 /\ processTable'[t].track = processTable[t].track
                 /\ processTable'[t].first = processTable[t].first
                 /\ processTable'[t].sectors = processTable[t].sectors
      <4>1. processTable[t] \in ProcRec
        BY <1>3
      <4> QED
        BY <2>5, <4>1 DEF ProcRec
    <3> QED
      BY <3>1 DEF SleepLinksOnly
  <2> QED
    BY <2>4, <2>7, <2>8, <2>10, <2>11, <2>12 DEF q, next, links
<1> QED
  BY <1>4, <1>5

LEMMA SleepAddLists ==
    ASSUME SleepsOnce(Tests), DriversInv, ListsInv, SleepAdd
    PROVE  ListsInv'
<1> USE DEF sleepVars, diskVars, userVars
<1>1. /\ OnTurn(me) /\ me # IDLE /\ me \in Pids /\ pc[me] = "sleepAdd" /\ TypesOK /\ SysOK
      /\ CallAt(me).call = "Sleep" /\ SleepersOK
  BY InCallIs DEF SleepAdd, UserPlaces, DriversInv, ListsInv, ProgramFor, Inside
<1>2. PICK p \in Pids : p = me
  BY <1>1
<1>3. pc[p] = "sleepAdd" /\ CallAt(p).call = "Sleep" /\ OnTurn(p)
  BY <1>1, <1>2
<1> DEFINE s == Slot(p)
<1>4. /\ AddToSleepQ(s) /\ sys' = Received(sys, SleepLock) /\ Moves(p, "block") /\ GoesOn(p)
      /\ UNCHANGED <<test, prog, line, ptr, currTime, now, diskQ, job>>
  <2>1. ~Endless(Sleepers)
    BY <1>1, NotEndless
  <2> QED
    BY <1>2, <2>1 DEF SleepAdd, Moves, Then, Positions, GoesOn
<1>5. s \in Slots /\ NextSleeper[s] = NULL
  BY <1>3, FreshLink, SlotsApart
<1>6. OnlyBox(SleepLock) /\ Public(SleepLock) /\ NoDoor(SleepLock)
  BY <1>1, <1>4, Receives, BoxesOfDrivers, BoxesPublic DEF Common
<1>7. /\ p \notin Waiters /\ Waiters' = Waiters \cup {p}
      /\ Asleep' = SleepersOf(Waiters') /\ \A u \in Units : Requesters(u)' = RequestersOf(Waiters', u)
  BY <1>1, <1>3, <1>4, <1>6, WaiterComes DEF ListsInv
<1>8. Asleep' = Asleep \cup {p} /\ p \notin Asleep /\ \A u \in Units : Requesters(u)' = Requesters(u)
  <2>1. Asleep' = Asleep \cup {p} /\ p \notin Asleep
    BY <1>3, <1>7, WaitersAre DEF SleepersOf
  <2>2. ASSUME NEW u \in Units PROVE Requesters(u)' = Requesters(u)
    <3>1. Requesters(u)' = RequestersOf(Waiters', u) /\ Requesters(u) = RequestersOf(Waiters, u)
      BY <1>7, WaitersAre
    <3> QED
      BY <1>3, <1>7, <3>1 DEF RequestersOf
  <2> QED
    BY <2>1, <2>2
<1>9. Asleep \subseteq Pids
  BY DEF Asleep
<1>10. s \notin Members(Sleepers)
  BY <1>1, <1>8, <1>9, SlotsApart DEF SleepersOK, SlotsOf
<1>11. /\ IsList(Slots, NULL, Sleepers', sleepQ', NextSleeper')
       /\ Members(Sleepers') = Members(Sleepers) \cup {s}
       /\ \A t \in Slots : NextSleeper'[t] # NULL => NextSleeper[t] # NULL \/ t \in Members(Sleepers)
       /\ SleepLinksOnly
  BY <1>1, <1>4, <1>5, <1>10, SleeperAdded
<1>12. NextDisk' = NextDisk /\ (\A q \in Pids : SameNaps(q))
       /\ \A q \in Pids : processTable'[Slot(q)].pid = processTable[Slot(q)].pid
  BY <1>1, <1>11, SleepLinksIs
<1>13. pc'[p] = "block" /\ CallAt(p)' = CallAt(p)
  BY <1>1, <1>4, MoverIs
<1>14. \A q \in Pids : q # p => pc'[q] = pc[q] /\ CallAt(q)' = CallAt(q)
  BY <1>1, <1>4, OthersWait
<1>15. SleepersOK'
  <2>1. SlotsOf(Asleep') = SlotsOf(Asleep) \cup {s}
    BY <1>8, <1>9 DEF SlotsOf
  <2>2. SlotsOf(Asleep)' = SlotsOf(Asleep) \cup {s}
    BY <2>1 DEF SlotsOf, Slot
  <2> QED
    BY <1>1, <1>11, <2>2 DEF SleepersOK
<1>16. WalkOK'
  <2>1. \A q \in Pids : pc'[q] \in {"clockWalk", "clockNext"} => q = p
    BY <1>3, <1>4, NobodyElseWalks DEF SleepPlaces
  <2> QED
    BY <1>13, <2>1 DEF WalkOK
<1>17. LinksOK'
  <2>1. ASSUME NEW q \in Pids, NextSleeper'[Slot(q)] # NULL
        PROVE  \E i \in 1 .. line'[q] : /\ i <= Len(Calls(prog[q])) /\ Sleeps(Calls(prog[q])[i])
                                        /\ i = line'[q] => pc'[q] \in {"block", "return"}
    <3>1. Slot(q) \in Slots /\ line'[q] = line[q]
      BY <1>4, SlotsApart
    <3>2. CASE NextSleeper[Slot(q)] # NULL
      <4>1. q # p
        BY <1>5, <3>2
      <4>2. LinkOK(q) /\ pc'[q] = pc[q]
        BY <1>14, <4>1 DEF ListsInv, LinksOK
      <4> QED
        BY <3>1, <3>2, <4>2 DEF LinkOK
    <3>3. CASE Slot(q) \in Members(Sleepers)
      <4>1. q \in Asleep
        BY <1>1, <1>9, <3>3, SlotsApart DEF SleepersOK, SlotsOf
      <4>2. q # p /\ pc'[q] = pc[q] /\ Unanswered(q) /\ CallAt(q).call = "Sleep"
        BY <1>8, <1>14, <4>1 DEF Asleep
      <4>3. ProgramFor(q, pc[q]) /\ NapOK(q)
        BY DEF DriversInv, Programs, ListsInv, NapsOK
      <4>4. pc[q] \in {"block", "return"}
        <5>1. pc[q] \in {"diskRing", "block", "return"}
          BY <4>2, AnswerPlace DEF AnswerPlaces
        <5>2. pc[q] # "diskRing"
          BY <4>2, <4>3 DEF ProgramFor, Inside
        <5> QED
          BY <5>1, <5>2
      <4>5. Inside(q, ListCalls) /\ prog[q] \in {"start3"} \cup DOMAIN Test.code
        BY <4>3, <4>4 DEF ProgramFor, Inside, ListCalls, UserPlaces
      <4>6. line[q] \in 1 .. Len(Calls(prog[q])) /\ Len(Calls(prog[q])) \in Nat
        BY <4>5, CallsOfTests
      <4>7. Sleeps(Calls(prog[q])[line[q]])
        <5>1. Sleeps(CallAt(q))
          BY <4>2, <4>3, <4>4 DEF NapOK
        <5> QED
          BY <5>1 DEF CallAt
      <4>8. line[q] \in 1 .. line'[q] /\ line[q] <= Len(Calls(prog[q]))
        BY <3>1, <4>6
      <4> QED
        BY <4>2, <4>4, <4>7, <4>8
    <3> QED
      BY <1>11, <2>1, <3>1, <3>2, <3>3
  <2>2. ASSUME NEW q \in Pids PROVE LinkOK(q)'
    BY <1>4, <2>1 DEF LinkOK, Slot, Sleeps, Calls, Test
  <2> QED
    BY <2>2 DEF LinksOK
<1>18. NapsOK'
  <2>1. ASSUME NEW q \in Pids PROVE NapOK(q)'
    <3>1. NapOK(q) /\ SameNaps(q) /\ now' = now /\ now \in Nat /\ now <= now
      BY <1>1, <1>4, <1>12 DEF ListsInv, NapsOK, TypesOK
    <3>2. CASE q = p
      <4>1. Unanswered(q)'
        BY <1>7, <3>2 DEF Waiters
      <4>2. NapOK(q)' <=>
           (pc'[q] \in {"sleepAdd", "block", "return"} /\ CallAt(q)'.call = "Sleep" =>
              /\ Sleeps(CallAt(q)') /\ processTable'[Slot(q)].startTime \in Nat
              /\ processTable'[Slot(q)].startTime <= now'
              /\ processTable'[Slot(q)].sleepEndTime =
                    Int32(processTable'[Slot(q)].startTime + CallAt(q)'.seconds)
              /\ pc'[q] = "sleepAdd" \/ Unanswered(q)' \/ processTable'[Slot(q)].sleepEndTime < now')
        BY DEF NapOK, Slot, Sleeps, Int32
      <4> QED
        BY <1>3, <1>13, <3>1, <3>2, <4>1, <4>2 DEF NapOK, SameNaps
    <3>3. CASE q # p
      <4>1. Unanswered(q)' <=> Unanswered(q)
        BY <1>7, <3>3 DEF Waiters
      <4>2. now' \in Nat /\ now <= now'
        BY <3>1
      <4> QED
        BY <1>1, <1>14, <3>1, <3>3, <4>1, <4>2, NapKept
    <3> QED
      BY <3>2, <3>3
  <2>2. currTime' <= now'
    BY <1>4 DEF ListsInv, NapsOK
  <2> QED
    BY <2>1, <2>2 DEF NapsOK
<1>19. PrivatesOK'
  BY <1>1, <1>3, <1>4, <1>6, PrivatesKept DEF ListsInv, AnswerPlaces
<1>20. ASSUME NEW u \in Units
       PROVE  RequestsOK(u)' /\ RequestList(u)' = RequestList(u) /\ DoorOK(u)' /\ BellOK(u)'
  <2>1. RequestsOK(u) /\ DoorOK(u) /\ BellOK(u)
    BY DEF ListsInv
  <2>2. RequestsOK(u)' /\ RequestList(u)' = RequestList(u)
    BY <1>1, <1>3, <1>4, <1>8, <1>12, <2>1, RequestsKept DEF ServingPlaces
  <2>3. DoorOK(u)' /\ sys'.box[Door(u)] = sys.box[Door(u)]
    <3>1. SleepLock # Door(u)
      BY <1>6 DEF NoDoor
    <3> QED
      BY <1>1, <1>3, <1>4, <1>6, <2>1, <3>1, DoorKept
  <2>4. BellOK(u)'
    BY <1>1, <1>3, <1>4, <2>1, <2>3, BellKept DEF WorkPlaces, ServingPlaces
  <2> QED
    BY <2>2, <2>3, <2>4
<1>21. FreeLinks' /\ EntriesOK'
  BY <1>1, <1>4, <1>8, <1>12, <1>20, FreeKept, EntriesKept DEF ListsInv
<1> QED
  BY <1>15, <1>16, <1>17, <1>18, <1>19, <1>20, <1>21 DEF ListsInv

\* A list whose links nobody touches is the list it was.
LEMMA ListUntouched ==
    ASSUME NEW q, NEW first, NEW next, NEW links, IsList(Slots, NULL, q, first, next),
           \A t \in Members(q) : links[t] = next[t]
    PROVE  IsList(Slots, NULL, q, first, links)
BY DEF IsList, Members

\* Entries change in the links of the requests only.
DiskLinksOnly ==
    \A s \in Slots :
        LET new == processTable'[s]
            old == processTable[s]
        IN  /\ new.pid = old.pid /\ new.nextSleeperProc = old.nextSleeperProc
            /\ new.startTime = old.startTime /\ new.sleepEndTime = old.sleepEndTime
            /\ new.track = old.track /\ new.first = old.first /\ new.sectors = old.sectors

\* The request of entry s is in the list of unit u, where it belongs.
Added(u, s) ==
    /\ s \in Slots
    /\ RequestList(u)' = IF diskQ[u] = NULL THEN <<s>>
          ELSE InsertAt(RequestList(u), Position(u, RequestList(u), processTable[s].track) + 1, s)
    /\ \A v \in Units : v # u => RequestList(v)' = RequestList(v)
    /\ SameFields

LEMMA DiskLinksAre ==
    ASSUME DiskLinksOnly
    PROVE  SameSleepers /\ SameFields
<1>1. NextSleeper' = NextSleeper
  BY DEF DiskLinksOnly, NextSleeper
<1> QED
  BY <1>1, SlotsApart DEF DiskLinksOnly, SameSleepers, SameNaps, SameFields

LEMMA RequestAdded ==
    ASSUME TypesOK, NEW u \in Units, RequestsOK(u), NEW s \in Slots,
           s \notin Members(RequestList(u)), NextDisk[s] = NULL, AddToDiskQ(u, s)
    PROVE  /\ IsList(Slots, NULL, RequestList(u)', diskQ'[u], NextDisk')
           /\ Members(RequestList(u)') = Members(RequestList(u)) \cup {s}
           /\ \A t \in Slots : t \notin Members(RequestList(u)) \cup {s} => NextDisk'[t] = NextDisk[t]
           /\ \A v \in Units : v # u \/ diskQ[u] # NULL => diskQ'[v] = diskQ[v]
           /\ DiskLinksOnly /\ NextDisk' \in [Slots -> Pointers]
           /\ RequestList(u)' = IF diskQ[u] = NULL THEN <<s>>
                ELSE InsertAt(RequestList(u), Position(u, RequestList(u), processTable[s].track) + 1, s)
<1> DEFINE q == RequestList(u)
           next == NextDisk
           links == NextDisk'
           front == diskQ[u]
<1>1. /\ IsList(Slots, NULL, q, front, next) /\ q \in Seq(Slots) /\ next \in [Slots -> Pointers]
      /\ NULL \notin Slots /\ s \in Pointers /\ next[s] = NULL /\ s \notin Members(q)
      /\ front \in Pointers /\ (front # NULL => Len(q) > 0)
  BY LinksAreLinks, DriversAssumption DEF RequestsOK, TypesOK, Pointers
<1>2. /\ next = [t \in Slots |-> processTable[t].nextDiskProc]
      /\ links = [t \in Slots |-> processTable'[t].nextDiskProc]
      /\ RequestList(u)' = Chain(links, diskQ'[u])
  BY DEF NextDisk, RequestList
<1>3. /\ processTable \in [Slots -> ProcRec] /\ Len(q) \in Nat /\ diskQ \in [Units -> Pointers]
  BY <1>1, LenProperties DEF TypesOK
<1>4. CASE front = NULL
  <2>1. diskQ' = [diskQ EXCEPT ![u] = s] /\ processTable' = processTable
    BY <1>4 DEF AddToDiskQ
  <2>2. diskQ'[u] = s /\ \A v \in Units : v # u => diskQ'[v] = diskQ[v]
    BY <1>3, <2>1
  <2> HIDE DEF q, next, links, front
  <2>3. links = next
    BY <1>2, <2>1
  <2>4. Members(q) = {}
    BY <1>1, <1>4, ListFirst
  <2> DEFINE one == <<s>>
  <2>5. IsList(Slots, NULL, one, s, next) /\ Members(one) = {s}
    BY <1>1, ListOfOne
  <2> HIDE DEF one
  <2>6. RequestList(u)' = one
    BY <1>1, <1>2, <2>2, <2>3, <2>5, ChainIsList
  <2>7. DiskLinksOnly
    BY <2>1 DEF DiskLinksOnly
  <2> QED
    BY <1>1, <1>4, <2>2, <2>3, <2>4, <2>5, <2>6, <2>7 DEF q, next, links, front, one
<1>5. CASE front # NULL
  <2> DEFINE i == Position(u, q, processTable[s].track)
             f == q[i]
             n == processTable[f].nextDiskProc
             a == [processTable[s] EXCEPT !.nextDiskProc = n]
             mid == [processTable EXCEPT ![s] = a]
             b == [mid[f] EXCEPT !.nextDiskProc = s]
             more == InsertAt(q, i+1, s)
  <2>1. i \in 1 .. Len(q)
    <3> DEFINE track == processTable[s].track
               r == q
    <3>1. r \in Seq(Slots) /\ Len(r) > 0
      BY <1>1, <1>5
    <3> HIDE DEF track, r
    <3>2. Position(u, r, track) \in 1 .. Len(r)
      BY <3>1, PositionIs
    <3> QED
      BY <3>2 DEF r, track
  <2>2. /\ processTable' = [processTable EXCEPT ![s].nextDiskProc = processTable[f].nextDiskProc,
                                                ![f].nextDiskProc = s]
        /\ diskQ' = diskQ
    BY <1>5 DEF AddToDiskQ
  <2> HIDE DEF i
  <2>3. f \in Slots /\ f \in Members(q)
    BY <1>1, <2>1, ElementOfSeq DEF Members
  <2> HIDE DEF q, next, links, front
  <2>4. f # s
    BY <1>1, <2>3
  <2>a. f = q[i]
    OBVIOUS
  <2> HIDE DEF f
  <2>5. processTable' = [mid EXCEPT ![f] = b]
    BY <2>2
  <2>6. processTable[f] \in ProcRec /\ processTable[s] \in ProcRec
    BY <1>3, <2>3
  <2>7. /\ a \in ProcRec /\ a.nextDiskProc = n /\ a.pid = processTable[s].pid
        /\ a.nextSleeperProc = processTable[s].nextSleeperProc
        /\ a.startTime = processTable[s].startTime /\ a.sleepEndTime = processTable[s].sleepEndTime
        /\ a.track = processTable[s].track /\ a.first = processTable[s].first
        /\ a.sectors = processTable[s].sectors
    BY <2>6 DEF ProcRec
  <2> HIDE DEF a
  <2>8. mid \in [Slots -> ProcRec] /\ mid[f] = processTable[f] /\ mid[s] = a
        /\ \A t \in Slots : t # s => mid[t] = processTable[t]
    BY <1>3, <2>3, <2>4, <2>7
  <2>9. /\ b \in ProcRec /\ b.nextDiskProc = s /\ b.pid = processTable[f].pid
        /\ b.nextSleeperProc = processTable[f].nextSleeperProc
        /\ b.startTime = processTable[f].startTime /\ b.sleepEndTime = processTable[f].sleepEndTime
        /\ b.track = processTable[f].track /\ b.first = processTable[f].first
        /\ b.sectors = processTable[f].sectors
    BY <1>1, <2>6, <2>8 DEF ProcRec
  <2> HIDE DEF mid, b
  <2>10. \A t \in Slots : processTable'[t] = IF t = f THEN b ELSE IF t = s THEN a ELSE processTable[t]
    BY <2>3, <2>5, <2>8
  <2>11. next[f] = n /\ \A t \in Slots : next[t] = processTable[t].nextDiskProc
                                        /\ links[t] = processTable'[t].nextDiskProc
    BY <1>2, <2>3
  <2>12. \A t \in Slots : links[t] = IF t = q[i] THEN s ELSE IF t = s THEN next[q[i]] ELSE next[t]
    <3>1. ASSUME NEW t \in Slots
          PROVE  links[t] = IF t = f THEN s ELSE IF t = s THEN n ELSE next[t]
      BY <2>7, <2>9, <2>10, <2>11
    <3> HIDE DEF n
    <3> QED
      BY <3>1, <2>a, <2>11
  <2>13. IsList(Slots, NULL, more, front, links) /\ Members(more) = Members(q) \cup {s}
    BY <1>1, <2>1, <2>12, ListInsertAfter
  <2>14. links \in [Slots -> Pointers]
    <3>1. next[q[i]] \in Pointers
      BY <1>1, <2>3, <2>a
    <3>2. \A t \in Slots : links[t] \in Pointers
      BY <1>1, <2>12, <3>1
    <3>3. links = [t \in Slots |-> links[t]]
      BY <1>2
    <3> QED
      BY <3>2, <3>3
  <2> HIDE DEF more
  <2>15. RequestList(u)' = more /\ diskQ'[u] = front
    <3>1. diskQ'[u] = front
      BY <2>2 DEF front
    <3> QED
      BY <1>1, <1>2, <2>13, <2>14, <3>1, ChainIsList
  <2>16. \A t \in Slots : t \notin Members(q) \cup {s} => links[t] = next[t]
    BY <2>3, <2>a, <2>12
  <2>17. DiskLinksOnly
    <3>1. ASSUME NEW t \in Slots
          PROVE  /\ processTable'[t].pid = processTable[t].pid
                 /\ processTable'[t].nextSleeperProc = processTable[t].nextSleeperProc
                 /\ processTable'[t].startTime = processTable[t].startTime
                 /\ processTable'[t].sleepEndTime = processTable[t].sleepEndTime
                 /\ processTable'[t].track = processTable[t].track
                 /\ processTable'[t].first = processTable[t].first
                 /\ processTable'[t].sectors = processTable[t].sectors
      BY <2>7, <2>9, <2>10
    <3> QED
      BY <3>1 DEF DiskLinksOnly
  <2>18. RequestList(u)' = InsertAt(q, Position(u, q, processTable[s].track) + 1, s)
    BY <2>15 DEF more, i
  <2> QED
    BY <1>5, <2>2, <2>13, <2>14, <2>15, <2>16, <2>17, <2>18 DEF q, next, links, front
<1> QED
  BY <1>4, <1>5

LEMMA DiskAddLists ==
    ASSUME DriversInv, ListsInv, DiskAdd
    PROVE  ListsInv' /\ Added(UnitOf(Call), Slot(me))
<1> USE DEF sleepVars, diskVars, userVars
<1>1. /\ OnTurn(me) /\ me # IDLE /\ me \in Pids /\ pc[me] = "diskAdd" /\ TypesOK /\ SysOK
      /\ CallAt(me).call \in {"DiskRead", "DiskWrite"} /\ Call = CallAt(me)
  BY InCallIs DEF DiskAdd, UserPlaces, DriversInv, ProgramFor, Inside
<1>2. PICK p \in Pids : p = me
  BY <1>1
<1>3. PICK u \in Units : u = UnitOf(Call)
  BY UnitIs
<1>4. pc[p] = "diskAdd" /\ CallAt(p).call \in {"DiskRead", "DiskWrite"} /\ OnTurn(p) /\ UnitOf(CallAt(p)) = u
  BY <1>1, <1>2, <1>3
<1> DEFINE s == Slot(p)
<1>5. /\ AddToDiskQ(u, s) /\ sys' = Received(sys, QueueLock(u)) /\ Moves(p, "diskRing") /\ GoesOn(p)
      /\ UNCHANGED <<test, prog, line, sleepQ, ptr, currTime, now, job>>
  BY <1>2, <1>3 DEF DiskAdd, Moves, Then, Positions, GoesOn
<1>6. /\ OnlyBox(QueueLock(u)) /\ Public(QueueLock(u)) /\ NoDoor(QueueLock(u))
  <2>1. Common(QueueLock(u))
    BY DEF Common
  <2> QED
    BY <1>1, <1>5, <2>1, Receives, BoxesOfDrivers, BoxesPublic
<1>7. /\ p \notin Waiters /\ Waiters' = Waiters \cup {p}
      /\ Asleep' = SleepersOf(Waiters') /\ \A v \in Units : Requesters(v)' = RequestersOf(Waiters', v)
  BY <1>1, <1>4, <1>5, <1>6, WaiterComes DEF ListsInv
<1>8. /\ Asleep' = Asleep /\ Requesters(u)' = Requesters(u) \cup {p}
      /\ \A v \in Units : p \notin Requesters(v) /\ (v # u => Requesters(v)' = Requesters(v))
  <2>1. Asleep' = Asleep
    BY <1>4, <1>7, WaitersAre DEF SleepersOf
  <2>2. ASSUME NEW v \in Units
        PROVE  /\ p \notin Requesters(v) /\ v # u => Requesters(v)' = Requesters(v)
               /\ v = u => Requesters(v)' = Requesters(v) \cup {p}
    <3>1. Requesters(v)' = RequestersOf(Waiters', v) /\ Requesters(v) = RequestersOf(Waiters, v)
      BY <1>7, WaitersAre
    <3> QED
      BY <1>4, <1>7, <3>1 DEF RequestersOf
  <2>3. \A v \in Units : p \notin Requesters(v)
    <3>1. ASSUME NEW v \in Units PROVE p \notin Requesters(v)
      <4>1. Requesters(v) = RequestersOf(Waiters, v)
        BY WaitersAre
      <4> QED
        BY <1>7, <4>1 DEF RequestersOf
    <3> QED
      BY <3>1
  <2> QED
    BY <2>1, <2>2, <2>3
<1>9. \A v \in Units : /\ RequestsOK(v) /\ DoorOK(v) /\ BellOK(v) /\ Requesters(v) \subseteq Pids
                       /\ Disk(v) \in Pids
  BY PidsOfStart3 DEF ListsInv, Requesters
<1>10. ASSUME NEW v \in Units, NEW t \in Members(RequestList(v))
       PROVE  \E r \in Requesters(v) : t = Slot(r)
  BY <1>9 DEF RequestsOK, SlotsOf
<1>11. \A v \in Units : s \notin Members(RequestList(v))
  BY <1>8, <1>9, <1>10, SlotsApart
<1>12. s \in Slots /\ NextDisk[s] = NULL
  BY <1>11, SlotsApart DEF ListsInv, FreeLinks
<1>13. /\ IsList(Slots, NULL, RequestList(u)', diskQ'[u], NextDisk')
       /\ Members(RequestList(u)') = Members(RequestList(u)) \cup {s}
       /\ \A t \in Slots : t \notin Members(RequestList(u)) \cup {s} => NextDisk'[t] = NextDisk[t]
       /\ \A v \in Units : v # u \/ diskQ[u] # NULL => diskQ'[v] = diskQ[v]
       /\ DiskLinksOnly /\ NextDisk' \in [Slots -> Pointers]
       /\ RequestList(u)' = IF diskQ[u] = NULL THEN <<s>>
            ELSE InsertAt(RequestList(u), Position(u, RequestList(u), processTable[s].track) + 1, s)
  BY <1>1, <1>5, <1>9, <1>11, <1>12, RequestAdded
<1>14. SameSleepers /\ SameFields
  BY <1>13, DiskLinksAre
<1>15. pc'[p] = "diskRing" /\ CallAt(p)' = CallAt(p)
  BY <1>1, <1>5, MoverIs
<1>16. \A q \in Pids : q # p => pc'[q] = pc[q] /\ CallAt(q)' = CallAt(q)
  BY <1>1, <1>5, OthersWait
<1>17. SleepersOK' /\ WalkOK'
  BY <1>1, <1>5, <1>8, <1>14, SleepersKept, WalkKept DEF ListsInv, SameSleepers
<1>18. LinksOK'
  BY <1>1, <1>4, <1>5, <1>14, LinksKept DEF ListsInv, SameSleepers
<1>19. PrivatesOK'
  BY <1>1, <1>4, <1>5, <1>6, PrivatesKept DEF ListsInv, AnswerPlaces
<1>20. NapsOK'
  <2>1. ASSUME NEW q \in Pids PROVE NapOK(q)'
    <3>1. CASE q = p
      BY <1>15, <3>1 DEF NapOK
    <3>2. CASE q # p
      <4>1. Unanswered(q)' <=> Unanswered(q)
        BY <1>7, <3>2 DEF Waiters
      <4>2. NapOK(q) /\ SameNaps(q) /\ now' \in Nat /\ now <= now'
        BY <1>1, <1>5, <1>14 DEF ListsInv, NapsOK, TypesOK, SameSleepers
      <4> QED
        BY <1>1, <1>16, <3>2, <4>1, <4>2, NapKept
    <3> QED
      BY <3>1, <3>2
  <2>2. currTime' <= now'
    BY <1>5 DEF ListsInv, NapsOK
  <2> QED
    BY <2>1, <2>2 DEF NapsOK
<1>21. ASSUME NEW v \in Units
       PROVE  /\ pc'[Disk(v)] \in ServingPlaces => pc[Disk(v)] \in ServingPlaces
              /\ pc'[Disk(v)] = "diskNotify" <=> pc[Disk(v)] = "diskNotify"
  BY <1>4, <1>9, <1>15, <1>16 DEF ServingPlaces
<1>22. ASSUME NEW v \in Units
       PROVE  Notified(v)' = Notified(v) /\ (Serving(v)' => Serving(v)) /\ job' = job
  BY <1>5, <1>21 DEF Notified, Serving, ServingPlaces, Disk
<1>23. RequestsOK(u)'
  <2>1. p \notin Notified(u)
    BY <1>8, <1>9 DEF Notified, RequestsOK
  <2> DEFINE R == Requesters(u) \ Notified(u)
  <2>2. SlotsOf(Requesters(u) \ Notified(u))' = SlotsOf(R \cup {p})
    <3>1. (Requesters(u) \ Notified(u))' = R \cup {p}
      BY <1>8, <1>22, <2>1
    <3> QED
      BY <3>1 DEF SlotsOf, Slot
  <2>3. SlotsOf(R \cup {p}) = SlotsOf(R) \cup {s}
    BY DEF SlotsOf
  <2>4. Members(RequestList(u)') = SlotsOf(Requesters(u) \ Notified(u))'
    BY <1>9, <1>13, <2>2, <2>3 DEF RequestsOK
  <2>5. Serving(u)' => job'[u].owner \in Pids /\ diskQ'[u] = Slot(job'[u].owner)
    <3>1. Serving(u) => diskQ[u] # NULL
      BY DEF DriversInv, HasHead
    <3> QED
      BY <1>9, <1>13, <1>22, <3>1 DEF RequestsOK
  <2>6. pc'[Disk(u)] = "diskNotify" => job'[u].owner \in Requesters(u)'
    BY <1>8, <1>9, <1>21, <1>22 DEF RequestsOK
  <2> QED
    BY <1>13, <2>4, <2>5, <2>6 DEF RequestsOK, Disk, Slot
<1>24. ASSUME NEW v \in Units, v # u PROVE RequestsOK(v)' /\ RequestList(v)' = RequestList(v)
  <2>1. \A t \in Members(RequestList(v)) : t \in Slots /\ t \notin Members(RequestList(u)) \cup {s}
    <3>1. ASSUME NEW t \in Members(RequestList(v)), t \in Members(RequestList(u)) PROVE FALSE
      <4>1. PICK r \in Requesters(v) : t = Slot(r)
        BY <1>10
      <4>2. PICK w \in Requesters(u) : t = Slot(w)
        BY <1>10, <3>1
      <4>3. r = w
        BY <1>9, <4>1, <4>2, SlotsApart
      <4> QED
        BY <1>24, <4>3 DEF Requesters
    <3>2. \A t \in Members(RequestList(v)) : t \in Slots
      <4>1. RequestList(v) \in Seq(Slots)
        BY <1>9 DEF RequestsOK, IsList
      <4> QED
        BY <4>1, ElementOfSeq DEF Members
    <3> QED
      BY <1>11, <3>1, <3>2
  <2> DEFINE q == RequestList(v)
             next == NextDisk
             links == NextDisk'
             first == diskQ[v]
  <2>2. \A t \in Members(q) : links[t] = next[t]
    BY <1>13, <2>1
  <2>3. /\ IsList(Slots, NULL, q, first, next) /\ diskQ'[v] = first /\ first \in Pointers
        /\ links \in [Slots -> Pointers]
    BY <1>1, <1>9, <1>13, <1>24 DEF RequestsOK, TypesOK
  <2>4. RequestList(v)' = Chain(links, diskQ'[v])
    BY DEF RequestList
  <2> HIDE DEF q, next, links, first
  <2>5. IsList(Slots, NULL, q, first, links)
    BY <2>2, <2>3, ListUntouched
  <2>6. RequestList(v)' = q
    BY <2>3, <2>4, <2>5, ChainIsList
  <2>7. SlotsOf(Requesters(v) \ Notified(v))' = SlotsOf(Requesters(v) \ Notified(v))
    <3>1. (Requesters(v) \ Notified(v))' = Requesters(v) \ Notified(v)
      BY <1>8, <1>22, <1>24
    <3> QED
      BY <3>1 DEF SlotsOf, Slot
  <2>8. /\ Serving(v)' => job'[v].owner \in Pids /\ diskQ'[v] = Slot(job'[v].owner)
        /\ pc'[Disk(v)] = "diskNotify" => job'[v].owner \in Requesters(v)'
    BY <1>8, <1>9, <1>21, <1>22, <1>24, <2>3 DEF RequestsOK, first
  <2>9. Members(q) = SlotsOf(Requesters(v) \ Notified(v))
    BY <1>9 DEF RequestsOK, q
  <2>10. IsList(Slots, NULL, RequestList(v)', diskQ'[v], NextDisk')
    BY <2>3, <2>5, <2>6 DEF links
  <2>11. Members(RequestList(v)') = SlotsOf(Requesters(v) \ Notified(v))'
    BY <2>6, <2>7, <2>9
  <2> QED
    BY <2>6, <2>8, <2>10, <2>11 DEF RequestsOK, Disk, Slot, q
<1>25. FreeLinks'
  <2>1. ASSUME NEW t \in Slots, NextDisk'[t] # NULL
        PROVE  \E v \in Units : t \in Members(RequestList(v)')
    <3>1. CASE t \in Members(RequestList(u)) \cup {s}
      BY <1>13, <3>1
    <3>2. CASE t \notin Members(RequestList(u)) \cup {s}
      <4>1. NextDisk[t] # NULL
        BY <1>13, <2>1, <3>2
      <4>2. PICK v \in Units : t \in Members(RequestList(v))
        BY <4>1 DEF ListsInv, FreeLinks
      <4> QED
        BY <1>24, <3>2, <4>2
    <3> QED
      BY <3>1, <3>2
  <2> QED
    BY <2>1 DEF FreeLinks
<1>26. EntriesOK'
  <2>1. ASSUME NEW q \in Pids, pc'[q] = "diskAdd" \/ q \in Requesters(0)' \cup Requesters(1)'
        PROVE  processTable'[Slot(q)].pid = q
    <3>1. 0 \in Units /\ 1 \in Units /\ u \in {0, 1}
      BY DEF Units
    <3>2. Requesters(0)' \subseteq Requesters(0) \cup {p} /\ Requesters(1)' \subseteq Requesters(1) \cup {p}
      BY <1>8, <3>1
    <3>3. pc[q] = "diskAdd" \/ q \in Requesters(0) \cup Requesters(1)
      BY <1>4, <1>16, <2>1, <3>2
    <3>4. processTable[Slot(q)].pid = q
      BY <3>3 DEF ListsInv, EntriesOK
    <3> QED
      BY <1>14, <3>4 DEF SameSleepers
  <2> QED
    BY <2>1 DEF EntriesOK, Slot
<1>27. ASSUME NEW v \in Units PROVE DoorOK(v)' /\ BellOK(v)'
  <2>1. QueueLock(u) # Door(v)
    BY <1>6 DEF NoDoor
  <2>2. DoorOK(v)' /\ sys'.box[Door(v)] = sys.box[Door(v)]
    BY <1>1, <1>4, <1>5, <1>6, <1>9, <2>1, DoorKept
  <2>3. CASE v = u
    <3>1. UnitOf(CallAt(p)') = u
      BY <1>4, <1>15
    <3>2. Rings(u)'
      BY <1>15, <3>1 DEF Rings, UnitOf
    <3> QED
      BY <2>2, <2>3, <3>2 DEF BellOK
  <2>4. CASE v # u
    <3>1. BellOK(v)'
      BY <1>1, <1>4, <1>5, <1>9, <1>13, <2>2, <2>4, BellKept DEF WorkPlaces, ServingPlaces
    <3> QED
      BY <2>2, <3>1
  <2> QED
    BY <2>3, <2>4
<1>28. \A v \in Units : RequestsOK(v)' /\ DoorOK(v)' /\ BellOK(v)'
  BY <1>23, <1>24, <1>27
<1>29. Added(u, s)
  BY <1>12, <1>13, <1>14, <1>24 DEF Added
<1>30. UnitOf(Call) = u /\ Slot(me) = s
  BY <1>2, <1>3
<1> HIDE DEF s
<1> QED
  BY <1>17, <1>18, <1>19, <1>20, <1>25, <1>26, <1>28, <1>29, <1>30 DEF ListsInv

-----------------------------------------------------------------------------
(***************************************************************************)
(* The lists, from the start on.                                           *)
(***************************************************************************)
LEMMA UserLists ==
    ASSUME SleepsOnce(Tests), DriversInv, ListsInv, User
    PROVE  ListsInv'
<1>1. CASE UserSpawn
  BY <1>1, SpawnLists
<1>2. CASE UserWait \/ UserWaited \/ UserTerminate \/ UserCallsPhase1
  BY <1>2, KernelCallsLists
<1>3. CASE SleepCall
  BY <1>3, SleepCallLists
<1>4. CASE SleepAdd
  BY <1>4, SleepAddLists
<1>5. CASE Block
  BY <1>5, BlockLists
<1>6. CASE Return
  BY <1>6, ReturnLists
<1>7. CASE DiskReadCall \/ DiskWriteCall
  BY <1>7, RequestCallsLists
<1>8. CASE DiskAdd
  BY <1>8, DiskAddLists
<1>9. CASE DiskRing
  BY <1>9, DiskRingLists
<1>10. CASE SizeCall \/ SizeOutput \/ SizeDone \/ DiskWriteInvalid
  BY <1>10, SizeLists
<1> QED
  BY <1>1, <1>2, <1>3, <1>4, <1>5, <1>6, <1>7, <1>8, <1>9, <1>10 DEF User

LEMMA InitLists ==
    ASSUME Init
    PROVE  ListsInv
<1>1. /\ pc = [p \in Pids |-> "user"] /\ sleepQ = NULL /\ diskQ = [u \in Units |-> NULL]
      /\ currTime = 0 /\ now = 0
  BY DEF Init
<1>2. \A p \in Pids : pc[p] = "user"
  BY <1>1
<1>3. \A b \in Boxes : sys.box[b] = Box(1)
  BY DEF Init, Machine
<1>4. /\ \A p \in Pids : Slot(p) \in Slots /\ sys.box[Private(p)] = Box(1)
      /\ \A u \in Units : sys.box[Door(u)] = Box(1)
  BY <1>3, SlotsApart, BoxesOfDrivers
<1>5. NextSleeper = [s \in Slots |-> NULL] /\ NextDisk = [s \in Slots |-> NULL]
  BY DEF Init, NoProc, NextSleeper, NextDisk
<1>6. NextSleeper \in [Slots -> Pointers] /\ NextDisk \in [Slots -> Pointers] /\ NULL \in Pointers
  BY <1>5 DEF Pointers
<1>7. \A next : IsList(Slots, NULL, <<>>, NULL, next) /\ Members(<<>>) = {}
  BY EmptyList
<1>8. Sleepers = <<>> /\ \A u \in Units : diskQ[u] = NULL /\ RequestList(u) = <<>>
  BY <1>1, <1>6, <1>7, ChainIsList DEF Sleepers, RequestList
<1>9. \A p \in Pids : ~Unanswered(p)
  BY <1>2 DEF Unanswered
<1>10. Asleep = {} /\ \A u \in Units : Requesters(u) = {}
  BY <1>9 DEF Asleep, Requesters
<1>11. PrivatesOK
  BY <1>4 DEF PrivatesOK, PrivateOK, Box
<1>12. SleepersOK
  BY <1>1, <1>7, <1>8, <1>10 DEF SleepersOK, SlotsOf
<1>13. WalkOK
  BY <1>2 DEF WalkOK
<1>14. LinksOK
  BY <1>4, <1>5 DEF LinksOK, LinkOK
<1>15. NapsOK
  BY <1>1, <1>2 DEF NapsOK, NapOK
<1>16. ASSUME NEW u \in Units PROVE RequestsOK(u) /\ DoorOK(u) /\ BellOK(u)
  <2>1. Disk(u) \in Pids /\ pc[Disk(u)] = "user"
    BY <1>2, PidsOfStart3
  <2>2. RequestsOK(u)
    BY <1>7, <1>8, <1>10, <2>1 DEF RequestsOK, SlotsOf, Serving
  <2>3. DoorOK(u)
    BY <1>4 DEF DoorOK, Box
  <2>4. BellOK(u)
    BY <1>8 DEF BellOK
  <2> QED
    BY <2>2, <2>3, <2>4
<1>17. FreeLinks
  BY <1>5 DEF FreeLinks
<1>18. EntriesOK
  BY <1>2, <1>10 DEF EntriesOK, Units
<1> QED
  BY <1>11, <1>12, <1>13, <1>14, <1>15, <1>16, <1>17, <1>18 DEF ListsInv

LEMMA NextLists ==
    ASSUME SleepsOnce(Tests), DriversInv, ListsInv, [Next]_vars
    PROVE  ListsInv'
<1>1. CASE UNCHANGED vars
  <2>1. UNCHANGED <<pc, test, prog, line, processTable, sleepQ, ptr, currTime, diskQ, job, sys, now>>
    BY <1>1 DEF vars
  <2>2. now' \in Nat /\ now <= now'
    BY <2>1 DEF DriversInv, TypesOK
  <2> QED
    BY <2>1, <2>2, StillLists
<1>2. CASE Next
  BY <1>2, InterruptsKeepLists, ClockLists, DiskLists, UserLists DEF Next
<1> QED
  BY <1>1, <1>2

\* The clock driver's list is that of the processes asleep, a disk's list that of the processes
\* whose request it has not served, and a driver's door is kept or watched while its list is not
\* empty.
THEOREM ListsInvariant == SleepsOnce(Tests) => (Spec => []ListsInv)
<1>1. Init => ListsInv
  BY InitLists
<1>2. SleepsOnce(Tests) /\ DriversInv /\ ListsInv /\ [Next]_vars => ListsInv'
  BY NextLists
<1>3. SUFFICES ASSUME SleepsOnce(Tests) PROVE Spec => []ListsInv
  OBVIOUS
<1> QED
  BY <1>1, <1>2, <1>3, DriversInvariant, PTL DEF Spec

-----------------------------------------------------------------------------
(***************************************************************************)
(* Who waits to ring a door is in a call of its program: no driver does.   *)
(***************************************************************************)
Ringers(u) == Members(sys.box[Door(u)].senders)
RingersOK == \A u \in Units : \A q \in Ringers(u) : pc[q] = "user"
NoMoreRingers == \A u \in Units : Ringers(u)' \subseteq Ringers(u)

LEMMA RingersAre ==
    ASSUME SysOK, NEW u \in Units, NEW q \in Ringers(u)
    PROVE  q \in Pids /\ q # me /\ q < sys.next
<1>1. Door(u) \in Boxes /\ sys.box[Door(u)].senders \in Seq(Pids)
  BY BoxesOfDrivers DEF SysOK, MachineOK, Machines, BoxRec
<1>2. q \in Pids
  <2>1. PICK i \in 1 .. Len(sys.box[Door(u)].senders) : q = sys.box[Door(u)].senders[i]
    BY DEF Ringers, Members
  <2> QED
    BY <1>1, <2>1, ElementOfSeq
<1>3. /\ <<"senders", Door(u)>> \in Index(Boxes, {"running"})
      /\ List(sys, <<"senders", Door(u)>>) = sys.box[Door(u)].senders
  BY <1>1 DEF Index, List
<1>4. q < sys.next
  BY <1>2, <1>3 DEF SysOK, MachineOK, Known, Ringers
<1>5. q # me
  <2>1. CASE me = IDLE
    BY <1>2, <2>1, PidsOfStart3
  <2>2. CASE me # IDLE
    BY <1>1, <2>2, MeRuns DEF OnTurn, Ringers
  <2> QED
    BY <2>1, <2>2
<1> QED
  BY <1>2, <1>4, <1>5

LEMMA ElsewhereNoRingers ==
    ASSUME NEW b, NoDoor(b), OnlyBox(b)
    PROVE  NoMoreRingers
<1>1. \A u \in Units : sys'.box[Door(u)] = sys.box[Door(u)]
  BY BoxesOfDrivers DEF NoDoor, OnlyBox
<1>2. \A u \in Units : Ringers(u)' = Ringers(u)
  BY <1>1 DEF Ringers, Door
<1> QED
  BY <1>2 DEF NoMoreRingers

\* The calls that let no more wait at a door.
LEMMA CallsNoRingers ==
    ASSUME SysOK, NEW b \in Boxes,
           \/ sys' = CondSent(sys, b)
           \/ me # IDLE /\ sys' = Received(sys, b)
           \/ me # IDLE /\ NoDoor(b) /\ sys' = Sent(sys, b)
    PROVE  NoMoreRingers
<1> DEFINE box == sys.box[b]
           new == sys'.box[b]
<1>1. box \in BoxRec /\ box.senders \in Seq(Pids) /\ sys.box \in [Boxes -> BoxRec]
  BY DEF SysOK, MachineOK, Machines, BoxRec
<1>2. CASE me # IDLE /\ NoDoor(b) /\ sys' = Sent(sys, b)
  BY <1>2, Sends, ElsewhereNoRingers
<1>3. ASSUME OnlyBox(b), Members(new.senders) \subseteq Members(box.senders)
      PROVE  NoMoreRingers
  <2>1. ASSUME NEW u \in Units PROVE Ringers(u)' \subseteq Ringers(u)
    <3>1. Door(u) \in Boxes
      BY BoxesOfDrivers
    <3>2. CASE Door(u) = b
      BY <1>3, <3>2 DEF Ringers, Door
    <3>3. CASE Door(u) # b
      BY <1>3, <3>1, <3>3 DEF Ringers, Door, OnlyBox
    <3> QED
      BY <3>2, <3>3
  <2> QED
    BY <2>1 DEF NoMoreRingers
<1>4. CASE sys' = CondSent(sys, b)
  <2>1. OnlyBox(b) /\ new = CondSentBox(box)
    BY <1>1, <1>4, CondSends DEF SameButBox
  <2>2. new.senders = box.senders
    BY <1>1, <2>1, CondSentBoxIs
  <2> QED
    BY <1>3, <2>1, <2>2
<1>5. CASE me # IDLE /\ sys' = Received(sys, b)
  <2>1. OnlyBox(b) /\ new = ReceivedBox(box, me) /\ me \in Pids
    BY <1>1, <1>5, Receives, MeRuns DEF SameButBox, OnTurn
  <2>2. new.senders = IF box.held = 0 \/ box.senders = <<>> THEN box.senders ELSE Tail(box.senders)
    BY <1>1, <2>1, ReceivedBoxIs
  <2>3. ASSUME box.senders # <<>> PROVE Members(Tail(box.senders)) \subseteq Members(box.senders)
    <3> HIDE DEF box
    <3> QED
      BY <1>1, <2>3, TailMembers
  <2> HIDE DEF box, new
  <2>4. Members(new.senders) \subseteq Members(box.senders)
    BY <2>2, <2>3
  <2> QED
    BY <1>3, <2>1, <2>4
<1> QED
  BY <1>2, <1>4, <1>5

\* Whoever does not run stays where it is.
LEMMA RingersStep ==
    ASSUME SysOK, RingersOK, NoMoreRingers, \A q \in Pids : q # me => pc'[q] = pc[q]
    PROVE  RingersOK'
<1>1. ASSUME NEW u \in Units, NEW q \in Ringers(u)' PROVE pc'[q] = "user"
  <2>1. q \in Ringers(u)
    BY <1>1 DEF NoMoreRingers
  <2> QED
    BY <2>1, RingersAre DEF RingersOK
<1> QED
  BY <1>1 DEF RingersOK

LEMMA GoerRingers ==
    ASSUME DriversInv, RingersOK, NoMoreRingers, NEW x, Then(x)
    PROVE  RingersOK'
<1>1. \A q \in Pids : q # me => pc'[q] = pc[q]
  BY DEF DriversInv, TypesOK, Then
<1> QED
  BY <1>1, RingersStep DEF DriversInv

LEMMA InterruptsRingers ==
    ASSUME DriversInv, RingersOK, TimeSlice \/ ClockInterrupt \/ \E u \in Units : DiskInterrupt(u)
    PROVE  RingersOK'
<1> USE DEF sleepVars, diskVars, userVars
<1>1. SysOK
  BY DEF DriversInv
<1>2. pc' = pc
  BY DEF TimeSlice, ClockInterrupt, DiskInterrupt
<1>3. NoMoreRingers
  <2>1. CASE TimeSlice
    <3>1. MachineOK(sys, Boxes, {"running"}) /\ HasEqual(sys) /\ sys' = Sliced(sys)
      BY <1>1, <2>1 DEF TimeSlice, SysOK
    <3>2. sys'.box = sys.box
      BY <3>1, SlicedIsOK DEF SameButQueue
    <3> QED
      BY <3>2 DEF NoMoreRingers, Ringers, Door
  <2>2. CASE ClockInterrupt
    BY <1>1, <2>2, CallsNoRingers, BoxesOfDrivers DEF ClockInterrupt
  <2>3. CASE \E u \in Units : DiskInterrupt(u)
    <3>1. PICK u \in Units : DiskInterrupt(u)
      BY <2>3
    <3>2. Device(u) \in Boxes /\ sys' = CondSent(sys, Device(u))
      BY <3>1, BoxesOfDrivers DEF DiskInterrupt
    <3> QED
      BY <1>1, <3>2, CallsNoRingers
  <2> QED
    BY <2>1, <2>2, <2>3
<1> QED
  BY <1>1, <1>2, <1>3, RingersStep

\* The locks and devices are no doors.
LEMMA NoDoors ==
    /\ NoDoor(NoBox) /\ NoDoor(SleepLock) /\ NoDoor(MUTEX) /\ NoDoor(ClockDevice)
    /\ \A u \in Units : NoDoor(QueueLock(u)) /\ NoDoor(Device(u))
    /\ \A s : NoDoor(<<"private", s>>)
BY BoxesPublic DEF Common

LEMMA ClockRingers ==
    ASSUME DriversInv, RingersOK, ClockDriver
    PROVE  RingersOK'
<1> USE DEF sleepVars, diskVars, userVars
<1>1. SysOK /\ me # IDLE /\ 0 \in Int /\ TypesOK
  BY DEF DriversInv, ClockDriver, ClockStart, ClockLoop, ClockTick, ClockScan, ClockWake, ClockNext,
         ClockDone, Runs
<1>2. CASE ClockStart
  <2>1. NoMoreRingers
    BY <1>1, <1>2, KinOnly, ElsewhereNoRingers, NoDoors DEF ClockStart
  <2> QED
    BY <1>2, <2>1, GoerRingers DEF ClockStart
<1>3. CASE ClockLoop \/ ClockTick
  <2>1. CASE sys' = Quit(sys, 0)
    <3>1. NoMoreRingers
      BY <1>1, <2>1, KinOnly, ElsewhereNoRingers, NoDoors
    <3> QED
      BY <1>3, <3>1, GoerRingers DEF ClockLoop, ClockTick
  <2>2. CASE sys' = Received(sys, ClockDevice) \/ sys' = Sent(sys, SleepLock)
    <3>1. NoMoreRingers
      BY <1>1, <2>2, CallsNoRingers, NoDoors, BoxesOfDrivers
    <3> QED
      BY <1>3, <3>1, GoerRingers DEF ClockLoop, ClockTick
  <2> QED
    BY <1>3, <2>1, <2>2 DEF ClockLoop, ClockTick
<1>4. CASE ClockScan \/ ClockNext
  <2>1. NoMoreRingers
    BY <1>4 DEF ClockScan, ClockNext, NoMoreRingers, Ringers, Door
  <2> QED
    BY <1>4, <2>1, GoerRingers DEF ClockScan, ClockNext
<1>5. CASE ClockWake
  <2>1. ptr \in Slots /\ <<"private", ptr>> \in Boxes /\ sys' = Sent(sys, <<"private", ptr>>)
    BY <1>1, <1>5, BoxesOfDrivers DEF ClockWake, TypesOK, Pointers
  <2>2. NoMoreRingers
    BY <1>1, <2>1, CallsNoRingers, NoDoors
  <2> QED
    BY <1>5, <2>2, GoerRingers DEF ClockWake
<1>6. CASE ClockDone
  <2>1. NoMoreRingers
    BY <1>1, <1>6, CallsNoRingers, BoxesOfDrivers DEF ClockDone
  <2> QED
    BY <1>6, <2>1, GoerRingers DEF ClockDone
<1> QED
  BY <1>2, <1>3, <1>4, <1>5, <1>6 DEF ClockDriver

LEMMA DiskRingers ==
    ASSUME DriversInv, ListsInv, RingersOK, NEW u \in Units, DiskDriver(u)
    PROVE  RingersOK'
<1> USE DEF sleepVars, diskVars, userVars
<1>1. SysOK /\ 0 \in Int
  BY DEF DriversInv
<1>2. me = Disk(u) /\ me # IDLE /\ me \in Pids
  BY PidsOfStart3 DEF DiskDriver, DiskWait, DiskTake, DiskSeek, DiskSeekDone, DiskSector, DiskTransfer,
     DiskTransferred, DiskUnlink, DiskNotify, DiskRuns
<1>3. \E x \in Positions : Then(x)
  BY DEF DiskDriver, DiskWait, DiskTake, DiskSeek, DiskSeekDone, DiskSector, DiskTransfer,
     DiskTransferred, DiskUnlink, DiskNotify, TakeMutex, Positions
<1>4. \/ sys' = Quit(sys, 0) \/ sys' = sys
      \/ sys' = Received(sys, Door(u)) \/ sys' = Sent(sys, MUTEX)
      \/ sys' = Received(sys, Device(u)) \/ sys' = Received(sys, MUTEX)
      \/ sys' = Sent(sys, QueueLock(u)) \/ sys' = Received(sys, QueueLock(u))
      \/ pc[Disk(u)] = "diskNotify" /\ sys' = Sent(sys, Private(job[u].owner))
  BY <1>2 DEF DiskDriver, DiskWait, DiskTake, DiskSeek, DiskSeekDone, DiskSector, DiskTransfer,
     DiskTransferred, DiskUnlink, DiskNotify, TakeMutex, DiskRuns
<1>5. NoMoreRingers
  <2>1. CASE sys' = Quit(sys, 0) \/ sys' = sys
    BY <1>1, <1>2, <2>1, KinOnly, ElsewhereNoRingers, NoDoors
  <2>2. CASE \/ sys' = Received(sys, Door(u)) \/ sys' = Received(sys, Device(u))
             \/ sys' = Received(sys, MUTEX) \/ sys' = Received(sys, QueueLock(u))
    BY <1>1, <1>2, <2>2, CallsNoRingers, BoxesOfDrivers
  <2>3. CASE sys' = Sent(sys, MUTEX) \/ sys' = Sent(sys, QueueLock(u))
    BY <1>1, <1>2, <2>3, CallsNoRingers, BoxesOfDrivers, NoDoors
  <2>4. CASE pc[Disk(u)] = "diskNotify" /\ sys' = Sent(sys, Private(job[u].owner))
    <3> DEFINE b == Private(job[u].owner)
    <3>1. job[u].owner \in Pids
      BY <2>4 DEF ListsInv, RequestsOK, Requesters
    <3>2. b \in Boxes /\ NoDoor(b) /\ sys' = Sent(sys, b)
      BY <2>4, <3>1, SlotsApart, NoDoors
    <3> HIDE DEF b
    <3> QED
      BY <1>1, <1>2, <3>2, CallsNoRingers
  <2> QED
    BY <1>4, <2>1, <2>2, <2>3, <2>4
<1> QED
  BY <1>3, <1>5, GoerRingers

LEMMA KernelCallsRingers ==
    ASSUME DriversInv, RingersOK, UserWait \/ UserWaited \/ UserTerminate \/ UserCallsPhase1
    PROVE  RingersOK'
<1> USE DEF sleepVars, diskVars, userVars
<1>1. SysOK /\ TypesOK
  BY DEF DriversInv
<1>2. CASE UserWait
  <2>1. NoMoreRingers
    BY <1>1, <1>2, MakesIt, KinOnly, ElsewhereNoRingers, NoDoors DEF UserWait
  <2> QED
    BY <1>2, <2>1, GoerRingers DEF UserWait
<1>3. CASE UserWaited
  <2>1. NoMoreRingers
    BY <1>3 DEF UserWaited, NoMoreRingers, Ringers, Door
  <2> QED
    BY <1>3, <2>1, GoerRingers DEF UserWaited
<1>4. CASE UserTerminate
  <2> DEFINE status == Call.status
  <2>1. me # IDLE /\ status \in Int /\ sys' = Quit(sys, status)
    BY <1>4, MakesIt DEF UserTerminate, CallOK
  <2> HIDE DEF status
  <2>2. NoMoreRingers
    BY <1>1, <2>1, KinOnly, ElsewhereNoRingers, NoDoors
  <2> QED
    BY <1>4, <2>2, GoerRingers DEF UserTerminate
<1>5. CASE UserCallsPhase1
  <2>1. OnTurn(me) /\ me # IDLE /\ me \in Pids /\ pc[me] = "user" /\ CallOK(Call) /\ pc' = pc
    BY <1>5, MakesIt DEF UserCallsPhase1
  <2>2. CASE MakesCall("Ring") /\ sys' = Sent(sys, Door(Call.unit))
    <3> DEFINE u == Call.unit
               box == sys.box[Door(u)]
    <3>1. u \in Units /\ sys' = Sent(sys, Door(u))
      BY <2>1, <2>2 DEF MakesCall, CallOK
    <3> HIDE DEF u
    <3>2. Door(u) \in Boxes /\ box \in BoxRec /\ box.senders \in Seq(Pids)
      BY <1>1, <3>1, BoxesOfDrivers DEF SysOK, MachineOK, Machines, BoxRec
    <3>3. OnlyBox(Door(u)) /\ sys'.box[Door(u)] = SentBox(box, me)
      <4>1. OnlyBox(Door(u)) /\ SameButBox(sys', sys, Door(u), SentBox(box, me))
        BY <1>1, <2>1, <3>1, <3>2, Sends
      <4> QED
        BY <1>1, <3>2, <4>1, OnlyBoxIs
    <3> DEFINE new == sys'.box[Door(u)]
    <3>a. PICK p \in Pids : p = me
      BY <2>1
    <3>b. new = SentBox(box, p)
      BY <3>3, <3>a
    <3> HIDE DEF box, new
    <3>4. new.senders = box.senders \/ new.senders = Append(box.senders, p)
      BY <3>2, <3>b, SentBoxIs
    <3>c. Members(new.senders) \subseteq Members(box.senders) \cup {p}
      BY <3>2, <3>4, AppendMembers
    <3>5. Members(new.senders) \subseteq Members(box.senders) \cup {me}
      BY <3>a, <3>c
    <3>6. ASSUME NEW v \in Units, NEW q \in Ringers(v)' PROVE pc'[q] = "user"
      <4>1. CASE v = u
        <5>1. q \in Members(new.senders)
          BY <3>6, <4>1 DEF Ringers, Door, new
        <5>2. q \in Ringers(u) \/ q = me
          BY <3>5, <5>1 DEF Ringers, box
        <5> QED
          BY <2>1, <3>1, <5>2 DEF RingersOK
      <4>2. CASE v # u
        <5>1. Door(v) # Door(u) /\ Door(v) \in Boxes
          BY <3>1, <4>2, BoxesPublic, BoxesOfDrivers
        <5>2. q \in Ringers(v)
          BY <3>3, <3>6, <5>1 DEF Ringers, Door, OnlyBox
        <5> QED
          BY <2>1, <5>2 DEF RingersOK
      <4> QED
        BY <4>1, <4>2
    <3> QED
      BY <3>6 DEF RingersOK
  <2>3. CASE \/ MakesCall("SemP") /\ sys' = SemPed(sys, Call.sem)
             \/ MakesCall("Zap") /\ sys' = Zapped(sys, Call.pid)
    <3>1. sys' = SemPed(sys, "running") \/ \E q \in Pids : sys' = Zapped(sys, q)
      BY <2>1, <2>3 DEF MakesCall, CallOK
    <3>2. NoMoreRingers
      BY <1>1, <2>1, <3>1, KinOnly, ElsewhereNoRingers, NoDoors
    <3> QED
      BY <1>1, <2>1, <3>2, RingersStep
  <2> QED
    BY <1>5, <2>2, <2>3 DEF UserCallsPhase1
<1> QED
  BY <1>2, <1>3, <1>4, <1>5

LEMMA SpawnRingers ==
    ASSUME DriversInv, RingersOK, UserSpawn
    PROVE  RingersOK'
<1> DEFINE child == NextPid(sys)
           prio == Call.prio
           start == CASE Call.f = "ClockDriver" -> "ClockDriver"
                      [] Call.f \in {"DiskDriver0", "DiskDriver1"} -> "diskLoop"
                      [] OTHER -> "user"
<1>1. /\ prio \in Int /\ CanFork(sys) /\ sys' = Forked(sys, prio)
      /\ pc' = [pc EXCEPT ![child] = start] /\ SysOK /\ pc \in [Pids -> Positions]
  BY MakesIt DEF UserSpawn, DriversInv, TypesOK, CallOK
<1> HIDE DEF prio, start
<1>2. Grown(sys', sys, child)
  BY <1>1, ForkedKeeps DEF SysOK
<1>3. child \in Pids /\ ~(child < sys.next)
  BY <1>1, NextPidIs DEF SysOK, MachineOK
<1> HIDE DEF child
<1>4. sys'.box = sys.box
  BY <1>2 DEF Grown
<1>5. ASSUME NEW u \in Units, NEW q \in Ringers(u)' PROVE pc'[q] = "user"
  <2>1. q \in Ringers(u)
    BY <1>4, <1>5 DEF Ringers, Door
  <2>2. pc[q] = "user" /\ q # child /\ q \in Pids
    BY <1>1, <1>3, <2>1, RingersAre DEF RingersOK
  <2> QED
    BY <1>1, <2>2
<1> QED
  BY <1>5 DEF RingersOK

\* The calls that have to do with the drivers.
LEMMA DriverCallsRingers ==
    ASSUME DriversInv, RingersOK,
           \/ SleepCall \/ SleepAdd \/ Block \/ Return \/ DiskReadCall \/ DiskAdd \/ DiskRing
           \/ SizeCall \/ SizeOutput \/ SizeDone \/ DiskWriteCall \/ DiskWriteInvalid
    PROVE  RingersOK'
<1> USE DEF sleepVars, diskVars, userVars
<1>1. SysOK /\ TypesOK
  BY DEF DriversInv
<1>2. me # IDLE /\ me \in Pids
  BY RunsAt DEF SleepCall, SleepAdd, Block, Return, DiskReadCall, DiskAdd, DiskRing, SizeCall, SizeOutput,
     SizeDone, DiskWriteCall, DiskWriteInvalid, MakesCall
<1>3. (\E x \in Positions : Then(x)) \/ pc' = pc
  BY DEF SleepCall, SleepAdd, Block, Return, DiskReadCall, DiskAdd, DiskRing, SizeCall, SizeOutput,
     SizeDone, DiskWriteCall, DiskWriteInvalid, TakeMutex, Request, Positions
<1>4. \/ sys' = sys \/ sys' = Sent(sys, SleepLock) \/ sys' = Received(sys, SleepLock)
      \/ sys' = Received(sys, Private(me)) \/ sys' = Sent(sys, MUTEX) \/ sys' = Received(sys, MUTEX)
      \/ sys' = Sent(sys, QueueLock(UnitOf(Call))) \/ sys' = Received(sys, QueueLock(UnitOf(Call)))
      \/ sys' = CondSent(sys, Door(UnitOf(Call))) \/ SizeOutput
  BY DEF SleepCall, SleepAdd, Block, Return, DiskReadCall, DiskAdd, DiskRing, SizeCall,
     SizeDone, DiskWriteCall, DiskWriteInvalid, TakeMutex, Request, RingDoor
<1>5. PICK u \in Units : u = UnitOf(Call)
  BY UnitIs
<1>6. NoMoreRingers
  <2>1. CASE sys' = sys
    BY <2>1 DEF NoMoreRingers, Ringers, Door
  <2>2. CASE \/ sys' = Sent(sys, SleepLock) \/ sys' = Received(sys, SleepLock)
             \/ sys' = Sent(sys, MUTEX) \/ sys' = Received(sys, MUTEX)
    BY <1>1, <1>2, <2>2, CallsNoRingers, BoxesOfDrivers, NoDoors
  <2>3. CASE \/ sys' = Sent(sys, QueueLock(UnitOf(Call))) \/ sys' = Received(sys, QueueLock(UnitOf(Call)))
             \/ sys' = CondSent(sys, Door(UnitOf(Call)))
    <3>1. \/ sys' = Sent(sys, QueueLock(u)) \/ sys' = Received(sys, QueueLock(u))
          \/ sys' = CondSent(sys, Door(u))
      BY <1>5, <2>3
    <3> QED
      BY <1>1, <1>2, <3>1, CallsNoRingers, BoxesOfDrivers, NoDoors
  <2>4. CASE sys' = Received(sys, Private(me))
    <3>1. Private(me) \in Boxes
      BY <1>2, SlotsApart
    <3> QED
      BY <1>1, <1>2, <2>4, <3>1, CallsNoRingers
  <2>5. CASE SizeOutput
    <3>1. ProgramFor(me, "size") /\ Call = CallAt(me)
      BY <2>5, InCallIs DEF SizeOutput, UserPlaces
    <3>2. Call.unit \in Units /\ sys' = Received(sys, Device(Call.unit))
      BY <2>5, <3>1 DEF SizeOutput, ProgramFor
    <3>3. Device(Call.unit) \in Boxes
      BY <3>2, BoxesOfDrivers
    <3> QED
      BY <1>1, <1>2, <3>2, <3>3, CallsNoRingers
  <2> QED
    BY <1>4, <2>1, <2>2, <2>3, <2>4, <2>5
<1>7. CASE \E x \in Positions : Then(x)
  BY <1>6, <1>7, GoerRingers
<1>8. CASE pc' = pc
  BY <1>1, <1>6, <1>8, RingersStep
<1> QED
  BY <1>3, <1>7, <1>8

LEMMA NextRingers ==
    ASSUME DriversInv, ListsInv, RingersOK, [Next]_vars
    PROVE  RingersOK'
<1>1. CASE UNCHANGED vars
  <2>1. sys' = sys /\ pc' = pc
    BY <1>1 DEF vars
  <2>2. \A u \in Units : Ringers(u)' = Ringers(u)
    BY <2>1 DEF Ringers, Door
  <2> QED
    BY <2>1, <2>2 DEF RingersOK
<1>2. CASE User
  BY <1>2, KernelCallsRingers, SpawnRingers, DriverCallsRingers DEF User
<1> QED
  BY <1>1, <1>2, InterruptsRingers, ClockRingers, DiskRingers DEF Next

LEMMA InitRingers ==
    ASSUME Init
    PROVE  RingersOK
<1>1. \A u \in Units : sys.box[Door(u)] = Box(1)
  BY BoxesOfDrivers DEF Init, Machine
<1>2. Members(<<>>) = {}
  BY DEF Members
<1> QED
  BY <1>1, <1>2 DEF RingersOK, Ringers, Box

-----------------------------------------------------------------------------
(***************************************************************************)
(* Nobody is forgotten.                                                    *)
(***************************************************************************)
\* Who waits for an answer is in the call it waits for.
LEMMA WaiterIsInCall ==
    ASSUME DriversInv, NEW p \in Pids, pc[p] \in AnswerPlaces
    PROVE  \A name : InCall(p, name) <=> CallAt(p).call = name
<1>1. ProgramFor(p, pc[p])
  BY DEF DriversInv, Programs
<1>2. Inside(p, {"Sleep", "DiskRead", "DiskWrite"}) \/ Inside(p, {"DiskRead", "DiskWrite"})
  BY <1>1 DEF ProgramFor, AnswerPlaces
<1>3. Inside(p, ListCalls) /\ prog[p] \in {"start3"} \cup DOMAIN Test.code
  BY <1>1, <1>2 DEF ProgramFor, AnswerPlaces, UserPlaces, Inside, ListCalls
<1>4. prog[p] \in DOMAIN Test.code
  BY <1>3, CallsOfTests
<1> QED
  BY <1>4 DEF InCall, CallAt, AnswerPlaces

LEMMA SleepersAreListed ==
    ASSUME DriversInv, ListsInv
    PROVE  SleepersListed
<1>1. IsList(Slots, NULL, Sleepers, sleepQ, NextSleeper) /\ Members(Sleepers) = SlotsOf(Asleep)
  BY DEF ListsInv, SleepersOK
<1>2. Range(Sleepers) = SlotsOf(Asleep)
  BY <1>1, RangeIsMembers DEF IsList
<1>3. \A q \in Pids : InCall(q, "Sleep") /\ Unanswered(q) <=> Unanswered(q) /\ CallAt(q).call = "Sleep"
  BY WaiterIsInCall, AnswerPlace
<1>4. {q \in Pids : InCall(q, "Sleep") /\ Unanswered(q)} = Asleep
  BY <1>3 DEF Asleep
<1>5. IsInjective(Sleepers)
  <2>1. DOMAIN Sleepers = 1 .. Len(Sleepers) /\ Distinct(Sleepers)
    BY <1>1, LenProperties DEF IsList
  <2> QED
    BY <2>1 DEF IsInjective, Distinct
<1> QED
  BY <1>2, <1>4, <1>5 DEF SleepersListed, SlotsOf

LEMMA RequestsAreListed ==
    ASSUME DriversInv, ListsInv
    PROVE  RequestsListed
<1>1. SUFFICES ASSUME NEW p \in Pids, NEW u \in Units,
                      InCall(p, "DiskRead") \/ InCall(p, "DiskWrite"),
                      UnitOf(Calls(prog[p])[line[p]]) = u, Unanswered(p)
               PROVE  \/ Slot(p) \in Range(RequestList(u))
                      \/ pc[Disk(u)] = "diskNotify" /\ job[u].owner = p
  BY DEF RequestsListed
<1>2. pc[p] \in AnswerPlaces
  BY <1>1, AnswerPlace
<1>3. CallAt(p).call \in {"DiskRead", "DiskWrite"}
  BY <1>1, <1>2, WaiterIsInCall
<1>4. UnitOf(CallAt(p)) = u
  BY <1>1 DEF CallAt
<1>5. p \in Requesters(u)
  BY <1>1, <1>3, <1>4 DEF Requesters
<1>6. RequestsOK(u)
  BY DEF ListsInv
<1>7. CASE p \in Notified(u)
  BY <1>7 DEF Notified
<1>8. CASE p \notin Notified(u)
  <2>1. Slot(p) \in Members(RequestList(u)) /\ RequestList(u) \in Seq(Slots)
    BY <1>5, <1>6, <1>8 DEF RequestsOK, SlotsOf, IsList
  <2> QED
    BY <2>1, RangeIsMembers
<1> QED
  BY <1>7, <1>8

LEMMA DriversAreAwake ==
    ASSUME DriversInv, ListsInv, RingersOK
    PROVE  DriverIsAwake
<1>1. SUFFICES ASSUME NEW u \in Units, diskQ[u] # NULL, pc[Disk(u)] = "diskWoken",
                      Disk(u) \in Waiting(sys, Door(u))
               PROVE  Rings(u)
  BY DEF DriverIsAwake, Rings, CallAt
<1> DEFINE box == sys.box[Door(u)]
<1>2. DoorOK(u) /\ BellOK(u) /\ box \in BoxRec
  BY DoorIs DEF DriversInv
<1>3. Disk(u) \notin Members(box.senders)
  BY <1>1 DEF RingersOK, Ringers
<1>4. box.receivers # <<>>
  <2>1. SUFFICES ASSUME box.receivers = <<>> PROVE FALSE
    OBVIOUS
  <2>2. Waiting(sys, Door(u)) = {box.senders[i] : i \in DOMAIN box.senders}
                                \cup {box.receivers[i] : i \in DOMAIN box.receivers}
    BY DEF Waiting
  <2>3. DOMAIN box.receivers = {} /\ box.senders \in Seq(Pids)
    BY <1>2, <2>1 DEF BoxRec
  <2> HIDE DEF box
  <2>4. DOMAIN box.senders = 1 .. Len(box.senders)
    BY <2>3, LenProperties
  <2>5. Disk(u) \in {box.senders[i] : i \in 1 .. Len(box.senders)}
    BY <1>1, <2>2, <2>3, <2>4
  <2> QED
    BY <1>3, <2>5 DEF Members
<1>5. box.held = 0
  BY <1>2, <1>4 DEF DoorOK
<1> QED
  BY <1>1, <1>2, <1>4, <1>5 DEF BellOK, AtWork, ServingPlaces

\* Only those in calls of their programs wait to ring a door.
LEMMA RingersAlways == SleepsOnce(Tests) => (Spec => []RingersOK)
<1>1. Init => RingersOK
  BY InitRingers
<1>2. DriversInv /\ ListsInv /\ RingersOK /\ [Next]_vars => RingersOK'
  BY NextRingers
<1>3. SUFFICES ASSUME SleepsOnce(Tests) PROVE Spec => []RingersOK
  OBVIOUS
<1> QED
  BY <1>1, <1>2, <1>3, DriversInvariant, ListsInvariant, PTL DEF Spec

\* NobodyForgotten, for every test in which no function sleeps twice: no sleeper and no request
\* is left behind by a driver, and no driver waits at its door beside a list that is not empty.
THEOREM NobodyIsForgotten == SleepsOnce(Tests) => (Spec => []NobodyForgotten)
<1>1. DriversInv /\ ListsInv /\ RingersOK => NobodyForgotten
  BY SleepersAreListed, RequestsAreListed, DriversAreAwake DEF NobodyForgotten
<1>2. SUFFICES ASSUME SleepsOnce(Tests) PROVE Spec => []NobodyForgotten
  OBVIOUS
<1> QED
  BY <1>1, <1>2, DriversInvariant, ListsInvariant, RingersAlways, PTL

-----------------------------------------------------------------------------
(***************************************************************************)
(* Nobody is woken too early.                                              *)
(***************************************************************************)
LEMMA TimePasses ==
    ASSUME DriversInv, [Next]_vars, now <= Test.end
    PROVE  now' <= Test'.end
<1> USE DEF sleepVars, diskVars, userVars
<1>1. now \in Nat /\ test \in DOMAIN Tests
  BY DEF DriversInv, TypesOK
<1>2. Test.end \in Nat /\ Test.ticks \in Nat /\ Test.ticks <= Test.end
  BY <1>1, TestsAssumption DEF Test
<1>3. CASE ClockInterrupt
  <2>1. now < Test.end /\ now' = now + 1 /\ test' = test
    BY <1>1, <1>2, <1>3 DEF ClockInterrupt
  <2> QED
    BY <1>1, <1>2, <2>1 DEF Test
<1>4. CASE ~ClockInterrupt
  <2>1. UNCHANGED <<now, test>>
    BY <1>4 DEF Next, vars, DiskInterrupt, TimeSlice, ClockDriver, DiskDriver, User,
       ClockStart, ClockLoop, ClockTick, ClockScan, ClockWake, ClockNext, ClockDone,
       DiskWait, DiskTake, DiskSeek, DiskSeekDone, DiskSector, DiskTransfer, DiskTransferred,
       DiskUnlink, DiskNotify, UserSpawn, UserWait, UserWaited, UserTerminate, UserCallsPhase1,
       SleepCall, SleepAdd, Block, Return, DiskReadCall, DiskAdd, DiskRing, SizeCall, SizeOutput,
       SizeDone, DiskWriteCall, DiskWriteInvalid
  <2> QED
    BY <2>1 DEF Test
<1> QED
  BY <1>3, <1>4

LEMMA SleptLongEnough ==
    ASSUME SleepsFit(Tests), DriversInv, ListsInv, now <= Test.end
    PROVE  SleepsLongEnough
<1>1. SUFFICES ASSUME NEW p \in Pids, InCall(p, "Sleep"), pc[p] = "return",
                      p \notin Waiting(sys, Private(p))
               PROVE  now >= processTable[Slot(p)].startTime + Calls(prog[p])[line[p]].seconds
  BY DEF SleepsLongEnough
<1> DEFINE e == processTable[Slot(p)]
           seconds == CallAt(p).seconds
<1>2. CallAt(p).call = "Sleep"
  BY <1>1, WaiterIsInCall DEF AnswerPlaces
<1>3. ~Unanswered(p)
  BY <1>1 DEF Unanswered
<1>4. /\ Sleeps(CallAt(p)) /\ e.startTime \in Nat /\ e.startTime <= now
      /\ e.sleepEndTime = Int32(e.startTime + seconds) /\ e.sleepEndTime < now
  BY <1>1, <1>2, <1>3 DEF ListsInv, NapsOK, NapOK
<1>5. now \in Nat /\ test \in DOMAIN Tests
  BY DEF DriversInv, TypesOK
<1>6. Test.end \in Nat /\ INTLIMIT \in Nat
  BY <1>5, TestsAssumption, DriversAssumption DEF Test
<1>7. seconds \in Int /\ Tests[test].end + seconds < INTLIMIT
  <2>1. ProgramFor(p, "return")
    BY <1>1 DEF DriversInv, Programs
  <2>2. Inside(p, ListCalls) /\ prog[p] \in {"start3"} \cup DOMAIN Test.code
    BY <2>1 DEF ProgramFor, UserPlaces, Inside, ListCalls
  <2>3. /\ prog[p] \in DOMAIN Tests[test].code /\ Calls(prog[p]) = Tests[test].code[prog[p]]
        /\ line[p] \in DOMAIN Tests[test].code[prog[p]]
    BY <2>2, CallsOfTests
  <2>4. CallAt(p) = Tests[test].code[prog[p]][line[p]]
    BY <2>3 DEF CallAt
  <2>5. CallOK(CallAt(p))
    BY <2>2, CallsAreOK DEF DriversInv, Inside, CallAt
  <2> QED
    BY <1>2, <1>4, <1>5, <2>3, <2>4, <2>5 DEF SleepsFit, CallOK
<1>8. ~(seconds < 0)
  BY <1>4 DEF Sleeps
<1>9. seconds = Calls(prog[p])[line[p]].seconds /\ now <= Tests[test].end
  BY DEF CallAt, Test
<1> HIDE DEF e, seconds
<1>10. e.startTime + seconds \in Nat /\ e.startTime + seconds < INTLIMIT
  BY <1>4, <1>5, <1>6, <1>7, <1>8, <1>9 DEF Test
<1>11. e.sleepEndTime = e.startTime + seconds
  BY <1>4, <1>10, SmallInt
<1>12. now >= e.startTime + seconds
  BY <1>4, <1>5, <1>10, <1>11
<1> QED
  BY <1>9, <1>12 DEF e

\* SleepsLongEnough, for every test in which no function sleeps twice and no sleep ends beyond
\* what the code's int holds.
THEOREM NobodyWakesEarly == SleepsOnce(Tests) /\ SleepsFit(Tests) => (Spec => []SleepsLongEnough)
<1>1. Init => now <= Test.end
  <2>1. ASSUME Init PROVE now <= Test.end
    <3>1. now = 0 /\ Test.end \in Nat
      BY <2>1, TestsAssumption DEF Init, Test
    <3> QED
      BY <3>1
  <2> QED
    BY <2>1
<1>2. DriversInv /\ [Next]_vars /\ now <= Test.end => (now <= Test.end)'
  BY TimePasses
<1>3. SUFFICES ASSUME SleepsOnce(Tests), SleepsFit(Tests) PROVE Spec => []SleepsLongEnough
  OBVIOUS
<1>4. DriversInv /\ ListsInv /\ now <= Test.end => SleepsLongEnough
  BY <1>3, SleptLongEnough
<1> QED
  BY <1>1, <1>2, <1>3, <1>4, DriversInvariant, ListsInvariant, PTL DEF Spec
-----------------------------------------------------------------------------
(***************************************************************************)
(* The order of a sweep.                                                   *)
(***************************************************************************)
\* With the arm at track h, a request for track a is served before one for track b.
InSweep(h, a, b) == IF a >= h THEN b < h \/ a <= b ELSE b < h /\ a <= b
InSweepOrder(list, track) ==
    \A i, j \in 1 .. Len(list) : i < j => InSweep(track[list[1]], track[list[i]], track[list[j]])
TrackOf == [s \in Slots |-> processTable[s].track]
SweepsOK == \A u \in Units : InSweepOrder(RequestList(u), TrackOf)

\* The entry of whoever has a request out, and what a driver still has to do, are on the disk.
RequestPlaces == {"diskAdd", "diskRing", "block", "return"}
EntryFits(p) ==
    LET e == processTable[Slot(p)]
    IN  pc[p] \in RequestPlaces /\ CallAt(p).call \in {"DiskRead", "DiskWrite"} =>
            FitsDisk(UnitOf(CallAt(p)), e.track, e.first, e.sectors)
EntriesFit == \A p \in Pids : EntryFits(p)
JobFits(u) ==
    LET j == job[u]
    IN  /\ j.track \in 0 .. Tracks[u]-1 /\ j.sector \in 0 .. TRACK_SIZE
        /\ pc[Disk(u)] \in ServingPlaces => FitsDisk(u, j.track, j.sector, j.sectors - j.done)
        /\ pc[Disk(u)] \in {"diskTransfer", "diskTransferred"} =>
              j.done # j.sectors /\ j.sector # TRACK_SIZE
JobsFit == \A u \in Units : JobFits(u)
ArmsFit == arm \in [Units -> Nat] /\ \A u \in Units : arm[u] \in 0 .. Tracks[u]-1

OnDisks == SweepsOK /\ EntriesFit /\ JobsFit /\ ArmsFit

\* When the arm has moved on to the next track, the order of the rest is the same.
LEMMA SweepGoesOn ==
    ASSUME NEW h \in Int, NEW a \in Int, NEW b \in Int, NEW c \in Int,
           InSweep(h, a, b), InSweep(h, a, c), InSweep(h, b, c)
    PROVE  InSweep(a, b, c)
BY DEF InSweep

LEMMA SweepTail ==
    ASSUME NEW list \in Seq(Slots), list # <<>>, NEW track \in [Slots -> Int],
           InSweepOrder(list, track)
    PROVE  InSweepOrder(Tail(list), track)
<1> DEFINE t == Tail(list)
<1>1. /\ t \in Seq(Slots) /\ Len(list) \in Nat \ {0} /\ Len(t) = Len(list) - 1
      /\ \A i \in 1 .. Len(list)-1 : t[i] = list[i+1]
  BY TailMembers
<1> HIDE DEF t
<1>2. \A i \in 1 .. Len(t) : t[i] = list[i+1] /\ i+1 \in 1 .. Len(list)
  BY <1>1
<1>3. \A i \in 1 .. Len(list) : track[list[i]] \in Int
  BY ElementOfSeq
<1>4. ASSUME NEW i \in 1 .. Len(t), NEW j \in 1 .. Len(t), i < j
      PROVE  InSweep(track[t[1]], track[t[i]], track[t[j]])
  <2>1. 1 \in 1 .. Len(t) /\ 1 \in 1 .. Len(list) /\ i+1 < j+1 /\ 1 < 2
    BY <1>1, <1>4
  <2>2. /\ InSweep(track[list[1]], track[list[i+1]], track[list[j+1]])
        /\ InSweep(track[list[1]], track[list[2]], track[list[j+1]])
    <3>1. i+1 \in 1 .. Len(list) /\ j+1 \in 1 .. Len(list) /\ 2 \in 1 .. Len(list) /\ 2 < j+1
      BY <1>1, <1>4
    <3> QED
      BY <2>1, <3>1 DEF InSweepOrder
  <2>3. i = 1 \/ InSweep(track[list[1]], track[list[2]], track[list[i+1]])
    <3>1. i+1 \in 1 .. Len(list) /\ 2 \in 1 .. Len(list) /\ (i = 1 \/ 2 < i+1)
      BY <1>1, <1>4
    <3> QED
      BY <3>1 DEF InSweepOrder
  <2>4. t[1] = list[2] /\ t[i] = list[i+1] /\ t[j] = list[j+1]
    BY <1>2, <2>1
  <2>5. /\ track[list[1]] \in Int /\ track[list[2]] \in Int
        /\ track[list[i+1]] \in Int /\ track[list[j+1]] \in Int
    <3>1. i+1 \in 1 .. Len(list) /\ j+1 \in 1 .. Len(list) /\ 2 \in 1 .. Len(list)
      BY <1>1, <1>4
    <3> QED
      BY <1>3, <2>1, <3>1
  <2>6. i = 1 => InSweep(track[list[2]], track[list[2]], track[list[j+1]])
    BY <2>2, <2>5 DEF InSweep
  <2>7. i # 1 => InSweep(track[list[2]], track[list[i+1]], track[list[j+1]])
    BY <2>2, <2>3, <2>5, SweepGoesOn
  <2> QED
    BY <2>4, <2>6, <2>7
<1> QED
  BY <1>4 DEF InSweepOrder, t

\* Behind the position of addToDiskQ a request comes after those in front of it, and before
\* those behind.
LEMMA PositionIsInOrder ==
    ASSUME NEW u \in Units, NEW list \in Seq(Slots), Len(list) > 0,
           \A k \in 1 .. Len(list) : Track(list[k]) \in 0 .. Tracks[u],
           InSweepOrder(list, TrackOf), NEW track \in 0 .. Tracks[u]
    PROVE  LET i == Position(u, list, track)
               head == Track(list[1])
           IN  /\ \A k \in 1 .. i : InSweep(head, Track(list[k]), track)
               /\ \A k \in i+1 .. Len(list) : InSweep(head, track, Track(list[k]))
<1> DEFINE N == Len(list)
           i == Position(u, list, track)
           head == Track(list[1])
           turn == SkipTo(list, 1, head, HighestTrack(u))
           on(k) == Track(list[k])
<1>1. N \in Nat /\ 1 \in 1 .. N /\ Tracks[u] \in Nat /\ track \in Int /\ HighestTrack(u) = Tracks[u]
  BY LenProperties, DriversAssumption DEF HighestTrack
<1>2. \A k \in 1 .. N : on(k) \in Int /\ on(k) >= 0 /\ on(k) <= Tracks[u]
  BY <1>1
<1>3. \A k, l \in 1 .. N : k < l => InSweep(head, on(k), on(l))
  <2>1. \A k \in 1 .. N : list[k] \in Slots
    BY ElementOfSeq
  <2>2. \A k \in 1 .. N : TrackOf[list[k]] = on(k)
    BY <2>1 DEF TrackOf, Track
  <2> QED
    BY <1>1, <2>2 DEF InSweepOrder
<1>4. head \in Int /\ head = on(1)
  BY <1>1, <1>2
<1>5. CASE head <= track
  <2>1. i = SkipTo(list, 1, head, track)
    BY <1>5 DEF Position, Track
  <2> HIDE DEF i, on, turn, head
  <2>2. /\ i \in 1 .. N /\ \A k \in 2 .. i : on(k) \in head .. track
        /\ i < N => on(i+1) \notin head .. track
    BY <1>1, <2>1, SkipToIs DEF on
  <2> HIDE DEF N
  <2>3. ASSUME NEW k \in 1 .. i PROVE InSweep(head, on(k), track)
    <3>1. k = 1 \/ k \in 2 .. i
      BY <2>2
    <3>2. on(k) \in Int /\ head <= on(k) /\ on(k) <= track
      BY <1>1, <1>4, <1>5, <2>2, <3>1
    <3> QED
      BY <1>1, <1>4, <3>2 DEF InSweep
  <2>4. ASSUME NEW k \in i+1 .. N PROVE InSweep(head, track, on(k))
    <3>1. i < N /\ i+1 \in 1 .. N /\ k \in 1 .. N /\ (k = i+1 \/ i+1 < k)
      BY <1>1, <2>2
    <3>2. on(i+1) \in Int /\ on(k) \in Int /\ on(i+1) \notin head .. track
      BY <1>2, <2>2, <3>1
    <3>3. k = i+1 \/ InSweep(head, on(i+1), on(k))
      BY <1>3, <3>1
    <3>4. InSweep(head, track, on(i+1))
      BY <1>1, <1>4, <1>5, <3>2 DEF InSweep
    <3> QED
      BY <1>1, <1>4, <3>2, <3>3, <3>4 DEF InSweep
  <2> QED
    BY <2>3, <2>4 DEF i, head, on, N
<1>6. CASE ~(head <= track)
  <2>1. i = SkipTo(list, turn, 0, track)
    BY <1>6 DEF Position, Track
  <2> HIDE DEF i, on, head
  <2>2. /\ turn \in 1 .. N /\ \A k \in 2 .. turn : on(k) \in head .. Tracks[u]
        /\ turn < N => on(turn+1) \notin head .. Tracks[u]
    BY <1>1, SkipToIs DEF on
  <2> HIDE DEF turn
  <2>3. /\ i \in turn .. N /\ \A k \in turn+1 .. i : on(k) \in 0 .. track
        /\ i < N => on(i+1) \notin 0 .. track
    BY <1>1, <2>1, <2>2, SkipToIs DEF on
  <2> HIDE DEF N
  <2>4. ASSUME NEW k \in turn+1 .. N PROVE on(k) < head /\ on(k) \in Int
    <3>1. turn < N /\ turn+1 \in 1 .. N /\ k \in 1 .. N /\ (k = turn+1 \/ turn+1 < k)
      BY <1>1, <2>2
    <3>2. on(turn+1) \in Int /\ on(k) \in Int /\ on(turn+1) < head
      BY <1>2, <1>4, <1>1, <2>2, <3>1
    <3>3. k = turn+1 \/ InSweep(head, on(turn+1), on(k))
      BY <1>3, <3>1
    <3> QED
      BY <1>4, <3>2, <3>3 DEF InSweep
  <2>5. ASSUME NEW k \in 1 .. i PROVE InSweep(head, on(k), track)
    <3>1. CASE k \in turn+1 .. i
      <4>1. on(k) <= track /\ on(k) < head /\ on(k) \in Int
        BY <1>1, <2>2, <2>3, <2>4, <3>1
      <4> QED
        BY <1>1, <1>4, <1>6, <4>1 DEF InSweep
    <3>2. CASE k \notin turn+1 .. i
      <4>1. k = 1 \/ k \in 2 .. turn
        BY <1>1, <2>2, <2>3, <3>2
      <4>2. on(k) \in Int /\ on(k) >= head
        BY <1>1, <1>4, <2>2, <4>1
      <4> QED
        BY <1>1, <1>4, <1>6, <4>2 DEF InSweep
    <3> QED
      BY <3>1, <3>2
  <2>6. ASSUME NEW k \in i+1 .. N PROVE InSweep(head, track, on(k))
    <3>1. i < N /\ i+1 \in 1 .. N /\ k \in 1 .. N /\ (k = i+1 \/ i+1 < k) /\ k \in turn+1 .. N
          /\ i+1 \in turn+1 .. N
      BY <1>1, <2>2, <2>3
    <3>2. on(i+1) \in Int /\ on(k) \in Int /\ on(i+1) > track /\ on(i+1) < head /\ on(k) < head
      BY <1>1, <1>2, <2>3, <2>4, <3>1
    <3>3. k = i+1 \/ InSweep(head, on(i+1), on(k))
      BY <1>3, <3>1
    <3> QED
      BY <1>1, <1>4, <1>6, <3>2, <3>3 DEF InSweep
  <2> QED
    BY <2>5, <2>6 DEF i, head, on, N
<1> QED
  BY <1>5, <1>6

LEMMA SweepInserted ==
    ASSUME NEW list \in Seq(Slots), NEW s \in Slots, NEW i \in 1 .. Len(list),
           NEW track \in [Slots -> Int], InSweepOrder(list, track),
           \A k \in 1 .. i : InSweep(track[list[1]], track[list[k]], track[s]),
           \A k \in i+1 .. Len(list) : InSweep(track[list[1]], track[s], track[list[k]])
    PROVE  InSweepOrder(InsertAt(list, i+1, s), track)
<1> DEFINE more == InsertAt(list, i+1, s)
           N == Len(list)
<1> HIDE DEF more
<1>1. N \in Nat /\ i+1 \in 1 .. N+1 /\ 1 \in 1 .. N+1 /\ 1 < i+1 /\ i \in 1 .. N
  BY LenProperties
<1> HIDE DEF N
<1>2. /\ Len(more) = N+1
      /\ \A j \in 1 .. N+1 : more[j] = IF j < i+1 THEN list[j] ELSE IF j = i+1 THEN s ELSE list[j-1]
  <2> DEFINE at == i+1
  <2>1. at \in 1 .. Len(list)+1
    BY <1>1 DEF N
  <2> HIDE DEF at
  <2>2. LET r == InsertAt(list, at, s)
        IN  /\ Len(r) = Len(list)+1
            /\ \A j \in 1 .. Len(list)+1 :
                  r[j] = IF j < at THEN list[j] ELSE IF j = at THEN s ELSE list[j-1]
    BY <2>1, InsertAtElements
  <2> QED
    BY <2>2 DEF at, N, more
<1>3. more[1] = list[1]
  BY <1>1, <1>2
<1>4. ASSUME NEW j \in 1 .. N+1, NEW k \in 1 .. N+1, j < k
      PROVE  InSweep(track[list[1]], track[more[j]], track[more[k]])
  <2>1. CASE k < i+1
    <3>1. j \in 1 .. N /\ k \in 1 .. N /\ more[j] = list[j] /\ more[k] = list[k]
      BY <1>1, <1>2, <1>4, <2>1
    <3> QED
      BY <1>4, <3>1 DEF InSweepOrder, N
  <2>2. CASE k = i+1
    <3>1. j \in 1 .. i /\ more[j] = list[j] /\ more[k] = s
      BY <1>1, <1>2, <1>4, <2>2
    <3> QED
      BY <3>1
  <2>3. CASE k > i+1 /\ j = i+1
    <3>1. k-1 \in i+1 .. N /\ more[j] = s /\ more[k] = list[k-1]
      BY <1>1, <1>2, <1>4, <2>3
    <3> QED
      BY <3>1 DEF N
  <2>4. CASE k > i+1 /\ j < i+1
    <3>1. j \in 1 .. N /\ k-1 \in 1 .. N /\ j < k-1 /\ more[j] = list[j] /\ more[k] = list[k-1]
      BY <1>1, <1>2, <1>4, <2>4
    <3> QED
      BY <3>1 DEF InSweepOrder, N
  <2>5. CASE k > i+1 /\ j > i+1
    <3>1. j-1 \in 1 .. N /\ k-1 \in 1 .. N /\ j-1 < k-1 /\ more[j] = list[j-1] /\ more[k] = list[k-1]
      BY <1>1, <1>2, <1>4, <2>5
    <3> QED
      BY <3>1 DEF InSweepOrder, N
  <2> QED
    BY <1>1, <2>1, <2>2, <2>3, <2>4, <2>5
<1> QED
  BY <1>2, <1>3, <1>4 DEF InSweepOrder, more

-----------------------------------------------------------------------------
(***************************************************************************)
(* What keeps the requests on the disks, and in the order of a sweep.      *)
(***************************************************************************)
LEMMA ListsAreSlots ==
    ASSUME DriversInv
    PROVE  /\ \A u \in Units : RequestList(u) \in Seq(Slots)
           /\ TrackOf \in [Slots -> Int]
           /\ \A s \in Slots : TrackOf[s] = processTable[s].track
<1>1. TypesOK
  BY DEF DriversInv
<1>2. \A s \in Slots : processTable[s] \in ProcRec
  BY <1>1 DEF TypesOK
<1>3. \A s \in Slots : processTable[s].track \in Int
  BY <1>2 DEF ProcRec
<1> QED
  BY <1>1, <1>3, LinksAreLinks DEF TrackOf

\* A list that stays, of entries whose tracks stay.
LEMMA SweepKept ==
    ASSUME DriversInv, NEW u \in Units, InSweepOrder(RequestList(u), TrackOf),
           RequestList(u)' = RequestList(u),
           \A s \in Members(RequestList(u)) : processTable'[s].track = processTable[s].track
    PROVE  InSweepOrder(RequestList(u), TrackOf)'
<1> DEFINE q == RequestList(u)
<1>1. q \in Seq(Slots) /\ InSweepOrder(q, TrackOf)
  BY ListsAreSlots
<1>2. \A i \in 1 .. Len(q) : q[i] \in Slots /\ q[i] \in Members(q)
  BY <1>1, ElementOfSeq DEF Members
<1>3. \A i \in 1 .. Len(q) : TrackOf'[q[i]] = TrackOf[q[i]]
  <2>1. ASSUME NEW s \in Slots PROVE TrackOf[s] = processTable[s].track /\ TrackOf'[s] = processTable'[s].track
    BY DEF TrackOf
  <2>2. \A s \in Members(q) : processTable'[s].track = processTable[s].track
    OBVIOUS
  <2> HIDE DEF q
  <2> QED
    BY <1>2, <2>1, <2>2
<1>4. RequestList(u)' = q
  OBVIOUS
<1> HIDE DEF q
<1>5. InSweepOrder(q, TrackOf')
  <2>1. Len(q) \in Nat
    BY <1>1, LenProperties
  <2>2. ASSUME NEW i \in 1 .. Len(q), NEW j \in 1 .. Len(q), i < j
        PROVE  InSweep(TrackOf'[q[1]], TrackOf'[q[i]], TrackOf'[q[j]])
    <3>1. 1 \in 1 .. Len(q)
      BY <2>1, <2>2
    <3>2. InSweep(TrackOf[q[1]], TrackOf[q[i]], TrackOf[q[j]])
      BY <1>1, <2>2 DEF InSweepOrder
    <3> QED
      BY <1>3, <3>1, <3>2
  <2> QED
    BY <2>2 DEF InSweepOrder
<1> QED
  BY <1>4, <1>5 DEF InSweepOrder

LEMMA SweepsKept ==
    ASSUME DriversInv, SweepsOK, NextDisk' = NextDisk, UNCHANGED diskQ, SameFields
    PROVE  SweepsOK'
<1>1. ASSUME NEW u \in Units PROVE InSweepOrder(RequestList(u), TrackOf)'
  <2>1. RequestList(u)' = RequestList(u)
    BY DEF RequestList
  <2>2. \A s \in Members(RequestList(u)) : s \in Slots
    <3>1. RequestList(u) \in Seq(Slots)
      BY ListsAreSlots
    <3> QED
      BY <3>1, ElementOfSeq DEF Members
  <2> QED
    BY <2>1, <2>2, SweepKept DEF SweepsOK, SameFields
<1> QED
  BY <1>1 DEF SweepsOK

\* An entry of somebody who goes on in its request, or has none.
LEMMA EntriesStay ==
    ASSUME TypesOK, EntriesFit, NEW p \in Pids, NEW x, Moves(p, x), GoesOn(p),
           UNCHANGED <<test, prog>>, SameFields,
           x \in RequestPlaces => UNCHANGED line /\ pc[p] \in RequestPlaces
    PROVE  EntriesFit'
<1>1. ASSUME NEW q \in Pids PROVE EntryFits(q)'
  <2>1. EntryFits(q) /\ Slot(q) \in Slots
    BY SlotsApart DEF EntriesFit
  <2>2. CASE q = p
    <3>1. pc'[q] = x /\ (x \in RequestPlaces => CallAt(q)' = CallAt(q))
      BY <2>2, MoverIs
    <3> QED
      BY <2>1, <2>2, <3>1 DEF EntryFits, SameFields, FitsDisk, UnitOf, Slot
  <2>3. CASE q # p
    <3>1. pc'[q] = pc[q] /\ line'[q] = line[q]
      BY <2>3 DEF Moves, GoesOn, TypesOK
    <3>2. CallAt(q)' = CallAt(q)
      BY <3>1 DEF CallAt, Calls, Test
    <3> QED
      BY <2>1, <3>1, <3>2 DEF EntryFits, SameFields, FitsDisk, UnitOf, Slot
  <2> QED
    BY <2>2, <2>3
<1> QED
  BY <1>1 DEF EntriesFit

TransferPlaces == {"diskTransfer", "diskTransferred"}

\* The jobs, when only the one of the driver that moves may change.
LEMMA JobsStay ==
    ASSUME TypesOK, JobsFit, NEW p \in Pids, NEW x, Moves(p, x),
           \A v \in Units : p # Disk(v) => job'[v] = job[v],
           \A v \in Units : p = Disk(v) => JobFits(v)'
    PROVE  JobsFit'
<1>1. ASSUME NEW v \in Units PROVE JobFits(v)'
  <2>1. CASE p = Disk(v)
    BY <2>1
  <2>2. CASE p # Disk(v)
    <3>1. pc'[Disk(v)] = pc[Disk(v)] /\ job'[v] = job[v]
      BY <2>2, PidsOfStart3 DEF Moves, TypesOK
    <3> QED
      BY <3>1 DEF JobFits, JobsFit, Disk, FitsDisk
  <2> QED
    BY <2>1, <2>2
<1> QED
  BY <1>1 DEF JobsFit

LEMMA SameJobsStay ==
    ASSUME TypesOK, JobsFit, NEW p \in Pids, NEW x, Moves(p, x), UNCHANGED job,
           x \in ServingPlaces => pc[p] \in ServingPlaces,
           x \in TransferPlaces => pc[p] \in TransferPlaces
    PROVE  JobsFit'
<1>1. ASSUME NEW v \in Units, p = Disk(v) PROVE JobFits(v)'
  <2>1. JobFits(v) /\ pc'[p] = x
    BY MoverIs DEF JobsFit
  <2> QED
    BY <1>1, <2>1 DEF JobFits, FitsDisk, Disk, TransferPlaces
<1> QED
  BY <1>1, JobsStay

\* A step that leaves the lists and the jobs alone.
LEMMA StepFits ==
    ASSUME DriversInv, OnDisks, NEW p, OnTurn(p), NEW x, Moves(p, x), GoesOn(p),
           UNCHANGED <<test, prog, diskQ, job, arm>>, NextDisk' = NextDisk, SameFields,
           x \in RequestPlaces => UNCHANGED line /\ pc[p] \in RequestPlaces,
           x \in ServingPlaces => pc[p] \in ServingPlaces,
           x \in TransferPlaces => pc[p] \in TransferPlaces
    PROVE  OnDisks'
<1>1. TypesOK /\ p \in Pids
  BY DEF DriversInv, OnTurn
<1>2. EntriesFit' /\ JobsFit' /\ SweepsOK'
  BY <1>1, EntriesStay, SameJobsStay, SweepsKept DEF OnDisks
<1> QED
  BY <1>2 DEF OnDisks, ArmsFit

LEMMA PlainFits ==
    ASSUME DriversInv, OnDisks, NEW p, OnTurn(p), NEW x, Moves(p, x), GoesOn(p),
           UNCHANGED <<test, prog, processTable, diskQ, job, arm>>,
           x \in RequestPlaces => UNCHANGED line /\ pc[p] \in RequestPlaces,
           x \in ServingPlaces => pc[p] \in ServingPlaces,
           x \in TransferPlaces => pc[p] \in TransferPlaces
    PROVE  OnDisks'
<1>1. NextDisk' = NextDisk /\ SameFields
  BY DEF NextDisk, SameFields
<1> QED
  BY <1>1, StepFits

LEMMA StillFits ==
    ASSUME OnDisks, UNCHANGED <<pc, test, prog, line, processTable, diskQ, job>>, ArmsFit'
    PROVE  OnDisks'
<1>1. \A u \in Units : RequestList(u)' = RequestList(u)
  BY DEF RequestList, NextDisk
<1>2. TrackOf' = TrackOf
  BY DEF TrackOf
<1>3. SweepsOK'
  BY <1>1, <1>2 DEF OnDisks, SweepsOK, InSweepOrder
<1>4. \A p \in Pids : CallAt(p)' = CallAt(p)
  BY DEF CallAt, Calls, Test
<1>5. EntriesFit'
  BY <1>4 DEF OnDisks, EntriesFit, EntryFits, Slot, UnitOf, FitsDisk
<1>6. JobsFit'
  BY DEF OnDisks, JobsFit, JobFits, Disk, FitsDisk
<1> QED
  BY <1>3, <1>5, <1>6 DEF OnDisks

\* The entries of a list are requests that fit.
LEMMA ListFits ==
    ASSUME DriversInv, ListsInv, OnDisks, NEW u \in Units, NEW s \in Members(RequestList(u))
    PROVE  LET e == processTable[s]
           IN  s \in Slots /\ FitsDisk(u, e.track, e.first, e.sectors)
<1>1. PICK r \in Requesters(u) : s = Slot(r)
  BY DEF ListsInv, RequestsOK, SlotsOf
<1>2. /\ r \in Pids /\ Unanswered(r) /\ CallAt(r).call \in {"DiskRead", "DiskWrite"}
      /\ UnitOf(CallAt(r)) = u
  BY <1>1 DEF Requesters
<1>3. pc[r] \in RequestPlaces /\ EntryFits(r)
  BY <1>2 DEF Unanswered, RequestPlaces, OnDisks, EntriesFit
<1> QED
  BY <1>1, <1>2, <1>3, SlotsApart DEF EntryFits

\* On a disk: a track has been passed, or a sector.
LEMMA TracksAbove ==
    ASSUME NEW a \in Nat, NEW b \in Nat, NEW n \in Nat, a <= b
    PROVE  a * n <= b * n /\ a * n \in Nat /\ b * n \in Nat
<1>1. PICK d \in Nat : b = a + d
  <2>1. b - a \in Nat /\ b = a + (b - a)
    OBVIOUS
  <2> QED
    BY <2>1
<1>2. b * n = a * n + d * n
  BY <1>1
<1>3. a * n \in Nat /\ d * n \in Nat
  OBVIOUS
<1> QED
  BY <1>2, <1>3

LEMMA NextTrackFits ==
    ASSUME NEW u \in Units, NEW track, NEW n, FitsDisk(u, track, TRACK_SIZE, n), n # 0
    PROVE  FitsDisk(u, track + 1, 0, n)
<1> DEFINE T == Tracks[u]
           used == track * TRACK_SIZE
           all == T * TRACK_SIZE
<1>1. /\ T \in Nat /\ TRACK_SIZE \in Nat \ {0} /\ track \in Nat /\ track < T /\ n \in Nat
      /\ used + TRACK_SIZE + n <= all
  BY DriversAssumption DEF FitsDisk
<1> HIDE DEF T
<1>2. used \in Nat /\ all \in Nat /\ (track + 1) * TRACK_SIZE = used + TRACK_SIZE
  BY <1>1
<1> HIDE DEF used, all
<1>3. track + 1 < T
  <2>1. SUFFICES ASSUME T <= track + 1 PROVE FALSE
    BY <1>1
  <2>2. all <= (track + 1) * TRACK_SIZE
    BY <1>1, <2>1, TracksAbove DEF all
  <2> QED
    BY <1>1, <1>2, <2>2
<1>4. track + 1 \in 0 .. T - 1 /\ (track + 1) * TRACK_SIZE + 0 + n <= all
  BY <1>1, <1>2, <1>3
<1> QED
  BY <1>1, <1>4 DEF FitsDisk, T, all

LEMMA NextSectorFits ==
    ASSUME NEW u \in Units, NEW track, NEW sector, NEW n, FitsDisk(u, track, sector, n),
           n # 0, sector # TRACK_SIZE
    PROVE  FitsDisk(u, track, sector + 1, n - 1)
<1> DEFINE used == track * TRACK_SIZE
           all == Tracks[u] * TRACK_SIZE
<1>1. /\ Tracks[u] \in Nat /\ TRACK_SIZE \in Nat /\ track \in Nat /\ n \in Nat /\ sector \in Nat
      /\ sector <= TRACK_SIZE /\ track \in 0 .. Tracks[u]-1 /\ used + sector + n <= all
  BY DriversAssumption DEF FitsDisk
<1>2. used \in Nat /\ all \in Nat
  BY <1>1
<1> HIDE DEF used, all
<1>3. used + (sector + 1) + (n - 1) <= all /\ sector + 1 \in 0 .. TRACK_SIZE /\ n - 1 \in Nat
  BY <1>1, <1>2
<1> QED
  BY <1>1, <1>3 DEF FitsDisk, used, all

-----------------------------------------------------------------------------
(***************************************************************************)
(* Step by step: interrupts, the clock driver and the sleepers.            *)
(***************************************************************************)
LEMMA InterruptsFit ==
    ASSUME DriversInv, OnDisks, (\E u \in Units : DiskInterrupt(u)) \/ ClockInterrupt \/ TimeSlice
    PROVE  OnDisks'
<1> USE DEF sleepVars, diskVars, userVars
<1>1. ASSUME NEW u \in Units, DiskInterrupt(u) PROVE OnDisks'
  <2>1. arm \in [Units -> Nat] /\ \A v \in Units : arm[v] \in 0 .. Tracks[v]-1 /\ Tracks[v] \in Nat
    BY DriversAssumption DEF OnDisks, ArmsFit
  <2> DEFINE track == device[u].track
  <2>2. \/ arm' = [arm EXCEPT ![u] = track] /\ track \in 0 .. Tracks[u]-1
        \/ arm' = arm
    BY <1>1 DEF DiskInterrupt
  <2> HIDE DEF track
  <2>3. ArmsFit'
    BY <2>1, <2>2 DEF ArmsFit
  <2>4. UNCHANGED <<pc, test, prog, line, processTable, diskQ, job>>
    BY <1>1 DEF DiskInterrupt
  <2> QED
    BY <2>3, <2>4, StillFits
<1>2. CASE ClockInterrupt
  <2>1. ArmsFit'
    BY <1>2 DEF ClockInterrupt, OnDisks, ArmsFit
  <2> QED
    BY <1>2, <2>1, StillFits DEF ClockInterrupt
<1>3. CASE TimeSlice
  <2>1. ArmsFit'
    BY <1>3 DEF TimeSlice, OnDisks, ArmsFit
  <2> QED
    BY <1>3, <2>1, StillFits DEF TimeSlice
<1> QED
  BY <1>1, <1>2, <1>3

\* A step to where nobody has a request and no driver serves one.
QuietPlaces == Positions \ (RequestPlaces \cup ServingPlaces)
LEMMA QuietFits ==
    ASSUME DriversInv, OnDisks, OnTurn(me), NEW x \in QuietPlaces, Then(x), GoesOn(me),
           UNCHANGED <<test, prog, processTable, diskQ, job, arm>>
    PROVE  OnDisks'
<1>1. Moves(me, x) /\ x \notin RequestPlaces /\ x \notin ServingPlaces /\ x \notin TransferPlaces
  BY DEF Then, Moves, QuietPlaces, TransferPlaces, ServingPlaces
<1> QED
  BY <1>1, PlainFits

LEMMA SleepQFields ==
    ASSUME TypesOK, NEW s, AddToSleepQ(s) \/ RemoveFromSleepQ(s)
    PROVE  NextDisk' = NextDisk /\ SameFields
<1>1. processTable \in [Slots -> ProcRec]
  BY DEF TypesOK
<1>2. ASSUME NEW t \in Slots
      PROVE  \E link : processTable'[t] \in {processTable[t], [processTable[t] EXCEPT !.nextSleeperProc = link]}
  <2>1. CASE AddToSleepQ(s)
    <3> DEFINE l == Last(Sleepers)
               e == [processTable[l] EXCEPT !.nextSleeperProc = s]
    <3>1. processTable' = processTable \/ processTable' = [processTable EXCEPT ![l] = e]
      BY <2>1 DEF AddToSleepQ
    <3>2. processTable'[t] = processTable[t] \/ (t = l /\ processTable'[t] = e)
      <4> HIDE DEF l, e
      <4> QED
        BY <1>1, <3>1
    <3>3. t = l => e = [processTable[t] EXCEPT !.nextSleeperProc = s]
      OBVIOUS
    <3> HIDE DEF l, e
    <3> QED
      BY <3>2, <3>3
  <2>2. CASE RemoveFromSleepQ(s)
    <3> DEFINE link == processTable[s].nextSleeperProc
    <3>1. processTable'[t] \in {processTable[t], [processTable[t] EXCEPT !.nextSleeperProc = link]}
      BY <2>2 DEF RemoveFromSleepQ
    <3> HIDE DEF link
    <3> QED
      BY <3>1
  <2> QED
    BY <2>1, <2>2
<1>3. ASSUME NEW t \in Slots
      PROVE  /\ processTable'[t].nextDiskProc = processTable[t].nextDiskProc
             /\ processTable'[t].track = processTable[t].track
             /\ processTable'[t].first = processTable[t].first
             /\ processTable'[t].sectors = processTable[t].sectors
  <2>1. processTable[t] \in ProcRec
    BY <1>1
  <2> QED
    BY <1>2, <2>1 DEF ProcRec
<1> QED
  BY <1>3 DEF NextDisk, SameFields

LEMMA ClockDriverFits ==
    ASSUME DriversInv, OnDisks, ClockDriver
    PROVE  OnDisks'
<1> USE DEF sleepVars, diskVars, userVars
<1>0. /\ \A x \in ClockPlaces \cup {"gone"} : x \in QuietPlaces
      /\ ClockPlaces = {"ClockDriver", "clockLoop", "clockTick", "clockScan", "clockWalk", "clockNext"}
  BY DEF ClockPlaces, QuietPlaces, Positions, RequestPlaces, ServingPlaces
<1>1. OnTurn(me) /\ GoesOn(me) /\ UNCHANGED <<test, prog, diskQ, job, arm>>
  <2>1. OnTurn(me)
    BY RunsAt DEF ClockDriver, ClockStart, ClockLoop, ClockTick, ClockScan, ClockWake, ClockNext, ClockDone
  <2>2. UNCHANGED <<test, prog, line, diskQ, job, arm>>
    BY DEF ClockDriver, ClockStart, ClockLoop, ClockTick, ClockScan, ClockWake, ClockNext, ClockDone
  <2> QED
    BY <2>1, <2>2 DEF GoesOn
<1>2. CASE ClockWake
  <2>1. Then("clockNext") /\ RemoveFromSleepQ(ptr)
    BY <1>2 DEF ClockWake
  <2>2. NextDisk' = NextDisk /\ SameFields
    BY <2>1, SleepQFields DEF DriversInv
  <2>3. /\ Moves(me, "clockNext") /\ "clockNext" \notin RequestPlaces
        /\ "clockNext" \notin ServingPlaces /\ "clockNext" \notin TransferPlaces
    BY <2>1 DEF Moves, Then, Positions, RequestPlaces, ServingPlaces, TransferPlaces
  <2> QED
    BY <1>1, <2>2, <2>3, StepFits
<1>3. CASE ~ClockWake
  <2>1. UNCHANGED processTable /\ \E x \in ClockPlaces \cup {"gone"} : Then(x)
    BY <1>0, <1>3 DEF ClockDriver, ClockStart, ClockLoop, ClockTick, ClockScan, ClockNext, ClockDone
  <2> QED
    BY <1>0, <1>1, <2>1, QuietFits
<1> QED
  BY <1>2, <1>3

LEMMA SleepCallFits ==
    ASSUME DriversInv, OnDisks, SleepCall
    PROVE  OnDisks'
<1> USE DEF sleepVars, diskVars, userVars
<1>1. /\ OnTurn(me) /\ me # IDLE /\ me \in Pids /\ pc[me] = "user" /\ TypesOK
  BY MakesIt DEF SleepCall, DriversInv
<1>2. UNCHANGED <<test, prog, diskQ, job, arm>>
  BY DEF SleepCall
<1>3. CASE Call.seconds < 0
  <2>1. CallIsOver /\ UNCHANGED <<sys, pc, processTable>>
    BY <1>3 DEF SleepCall
  <2>2. GoesOn(me) /\ Then("user") /\ "user" \in QuietPlaces
    BY <1>1, <2>1
    DEF CallIsOver, GoesOn, Then, TypesOK, QuietPlaces, Positions, RequestPlaces, ServingPlaces
  <2> QED
    BY <1>1, <1>2, <2>1, <2>2, QuietFits
<1>4. CASE ~(Call.seconds < 0)
  <2> DEFINE s == Slot(me)
             end == Int32(now + Call.seconds)
             a == [processTable[s] EXCEPT !.pid = me]
             b == [a EXCEPT !.startTime = now]
             e == [b EXCEPT !.sleepEndTime = end]
  <2>1. /\ processTable' = [processTable EXCEPT ![s].pid = me, ![s].startTime = now,
                                                ![s].sleepEndTime = end]
        /\ Then("sleepAdd") /\ UNCHANGED line
    BY <1>4 DEF SleepCall
  <2>2. s \in Slots /\ processTable \in [Slots -> ProcRec] /\ processTable[s] \in ProcRec
    BY <1>1, SlotsApart DEF TypesOK
  <2> HIDE DEF s, end
  <2>3. /\ e.nextDiskProc = processTable[s].nextDiskProc /\ e.track = processTable[s].track
        /\ e.first = processTable[s].first /\ e.sectors = processTable[s].sectors
    BY <2>2 DEF ProcRec
  <2>4. \A t \in Slots : processTable'[t] = IF t = s THEN e ELSE processTable[t]
    BY <2>1, <2>2
  <2> HIDE DEF e
  <2>5. NextDisk' = NextDisk /\ SameFields
    BY <2>3, <2>4 DEF NextDisk, SameFields
  <2>6. /\ Moves(me, "sleepAdd") /\ GoesOn(me) /\ "sleepAdd" \notin RequestPlaces
        /\ "sleepAdd" \notin ServingPlaces /\ "sleepAdd" \notin TransferPlaces
    BY <2>1 DEF Moves, Then, GoesOn, Positions, RequestPlaces, ServingPlaces, TransferPlaces
  <2> QED
    BY <1>1, <1>2, <2>5, <2>6, StepFits
<1> QED
  BY <1>3, <1>4

\* Who sleeps is in no request, whatever its entry holds.
LEMMA SleepAddFits ==
    ASSUME DriversInv, OnDisks, SleepAdd
    PROVE  OnDisks'
<1> USE DEF sleepVars, diskVars, userVars
<1>1. /\ OnTurn(me) /\ me # IDLE /\ me \in Pids /\ pc[me] = "sleepAdd" /\ TypesOK
      /\ CallAt(me).call = "Sleep"
  BY InCallIs DEF SleepAdd, UserPlaces, DriversInv, ProgramFor, Inside
<1>2. /\ UNCHANGED <<test, prog, line, diskQ, job, arm>> /\ GoesOn(me)
      /\ \/ Then("spins") /\ UNCHANGED processTable
         \/ Then("block") /\ AddToSleepQ(Slot(me))
  BY DEF SleepAdd, GoesOn
<1>3. NextDisk' = NextDisk /\ SameFields
  <2>1. CASE UNCHANGED processTable
    BY <2>1 DEF NextDisk, SameFields
  <2>2. CASE AddToSleepQ(Slot(me))
    BY <1>1, <2>2, SleepQFields
  <2> QED
    BY <1>2, <2>1, <2>2
<1>4. PICK x \in {"spins", "block"} : Moves(me, x)
  BY <1>2 DEF Moves, Then, Positions
<1>5. x \notin ServingPlaces /\ x \notin TransferPlaces
  BY DEF ServingPlaces, TransferPlaces
<1>6. EntriesFit'
  <2>1. ASSUME NEW q \in Pids PROVE EntryFits(q)'
    <3>1. EntryFits(q) /\ Slot(q) \in Slots
      BY SlotsApart DEF OnDisks, EntriesFit
    <3>2. CallAt(q)' = CallAt(q)
      BY <1>2 DEF CallAt, Calls, Test
    <3>3. q # me => pc'[q] = pc[q]
      BY <1>1, <1>4 DEF Moves, TypesOK
    <3> QED
      BY <1>1, <1>3, <3>1, <3>2, <3>3 DEF EntryFits, SameFields, FitsDisk, UnitOf, Slot
  <2> QED
    BY <2>1 DEF EntriesFit
<1>7. JobsFit' /\ SweepsOK' /\ ArmsFit'
  BY <1>1, <1>2, <1>3, <1>4, <1>5, SameJobsStay, SweepsKept DEF OnDisks, ArmsFit
<1> QED
  BY <1>6, <1>7 DEF OnDisks

-----------------------------------------------------------------------------
(***************************************************************************)
(* The disk drivers.                                                       *)
(***************************************************************************)
\* A driver has gone on with its job: the requests stay as they are.
LEMMA JobGoesOn ==
    ASSUME DriversInv, OnDisks, NEW u \in Units, OnTurn(me), me = Disk(u),
           \A v \in Units : me = Disk(v) => v = u,
           NEW x \in Positions \ RequestPlaces, Then(x), NEW j, job' = [job EXCEPT ![u] = j],
           UNCHANGED <<test, prog, line, processTable, diskQ, arm>>,
           FitsDisk(u, j.track, j.sector, j.sectors - j.done),
           x \in TransferPlaces => j.done # j.sectors /\ j.sector # TRACK_SIZE
    PROVE  OnDisks'
<1>1. TypesOK /\ me \in Pids /\ Moves(me, x) /\ GoesOn(me) /\ x \notin RequestPlaces
  BY DEF DriversInv, OnTurn, Then, Moves, GoesOn
<1>2. NextDisk' = NextDisk /\ SameFields
  BY DEF NextDisk, SameFields
<1>3. job'[u] = j /\ \A v \in Units : v # u => job'[v] = job[v]
  <2>1. job \in [Units -> JobRec]
    BY <1>1 DEF TypesOK
  <2> QED
    BY <2>1
<1>4. JobFits(u)'
  <2>1. pc'[Disk(u)] = x
    BY <1>1, MoverIs
  <2>2. JobFits(u)' <=>
          /\ job'[u].track \in 0 .. Tracks[u]-1 /\ job'[u].sector \in 0 .. TRACK_SIZE
          /\ pc'[Disk(u)] \in ServingPlaces =>
                FitsDisk(u, job'[u].track, job'[u].sector, job'[u].sectors - job'[u].done)
          /\ pc'[Disk(u)] \in {"diskTransfer", "diskTransferred"} =>
                job'[u].done # job'[u].sectors /\ job'[u].sector # TRACK_SIZE
    BY DEF JobFits, FitsDisk, Disk
  <2> QED
    BY <1>3, <2>1, <2>2 DEF FitsDisk, TransferPlaces
<1>5. EntriesFit' /\ JobsFit' /\ SweepsOK'
  <2>1. \A v \in Units : me # Disk(v) => job'[v] = job[v]
    BY <1>3
  <2>2. \A v \in Units : me = Disk(v) => JobFits(v)'
    BY <1>4
  <2>3. JobsFit'
    BY <1>1, <2>1, <2>2, JobsStay DEF OnDisks
  <2> QED
    BY <1>1, <1>2, <2>3, EntriesStay, SweepsKept DEF OnDisks
<1> QED
  BY <1>5 DEF OnDisks, ArmsFit

\* The job of a driver that serves a request.
LEMMA JobIs ==
    ASSUME DriversInv, OnDisks, NEW u \in Units, pc[Disk(u)] \in ServingPlaces
    PROVE  LET j == job[u]
           IN  /\ j \in JobRec /\ FitsDisk(u, j.track, j.sector, j.sectors - j.done)
               /\ j.sectors - j.done \in Nat /\ j.sectors \in Int /\ j.done \in Int
               /\ j.track \in Int /\ j.sector \in Int
               /\ pc[Disk(u)] \in TransferPlaces => j.done # j.sectors /\ j.sector # TRACK_SIZE
<1>1. job[u] \in JobRec
  BY DEF DriversInv, TypesOK
<1>2. job[u].sectors \in Int /\ job[u].done \in Int /\ job[u].track \in Int /\ job[u].sector \in Int
  BY <1>1 DEF JobRec
<1>3. JobFits(u)
  BY DEF OnDisks, JobsFit
<1> QED
  BY <1>1, <1>2, <1>3 DEF JobFits, FitsDisk, TransferPlaces

LEMMA DiskTakeFits ==
    ASSUME DriversInv, ListsInv, OnDisks, NEW u \in Units, DiskTake(u)
    PROVE  OnDisks'
<1> USE DEF sleepVars, diskVars, userVars
<1>1. /\ OnTurn(me) /\ me = Disk(u) /\ \A v \in Units : me = Disk(v) => v = u
  BY DiskRunsAt DEF DiskTake
<1>2. GoesOn(me) /\ UNCHANGED <<test, prog, line, processTable, diskQ, arm>>
  BY DEF DiskTake, GoesOn
<1>3. CASE pc[me] = "diskWoken" /\ IsZapped(sys)
  <2>1. Then("gone") /\ UNCHANGED job /\ "gone" \in QuietPlaces
    BY <1>3 DEF DiskTake, QuietPlaces, Positions, RequestPlaces, ServingPlaces
  <2> QED
    BY <1>1, <1>2, <2>1, QuietFits
<1>4. CASE ~(pc[me] = "diskWoken" /\ IsZapped(sys)) /\ diskQ[u] = NULL
  <2>1. Then("diskLoop") /\ UNCHANGED job /\ "diskLoop" \in QuietPlaces
    BY <1>4 DEF DiskTake, QuietPlaces, Positions, RequestPlaces, ServingPlaces
  <2> QED
    BY <1>1, <1>2, <2>1, QuietFits
<1>5. CASE ~(pc[me] = "diskWoken" /\ IsZapped(sys)) /\ diskQ[u] # NULL
  <2> DEFINE e == processTable[diskQ[u]]
             j == [owner |-> e.pid, op |-> e.operation, track |-> e.track, sector |-> e.first,
                   sectors |-> e.sectors, done |-> 0, data |-> e.buffer]
  <2>1. job' = [job EXCEPT ![u] = j] /\ Then("diskSeek")
    BY <1>5 DEF DiskTake, TakeMutex
  <2>2. FitsDisk(u, e.track, e.first, e.sectors)
    BY <1>5, HeadIs, ListFits
  <2>3. e.sectors - 0 = e.sectors
    BY <2>2 DEF FitsDisk
  <2> HIDE DEF e
  <2>4. j.track = e.track /\ j.sector = e.first /\ j.sectors = e.sectors /\ j.done = 0
    OBVIOUS
  <2>5. FitsDisk(u, j.track, j.sector, j.sectors - j.done)
    BY <2>2, <2>3, <2>4
  <2> HIDE DEF j
  <2>6. "diskSeek" \in Positions \ RequestPlaces /\ "diskSeek" \notin TransferPlaces
    BY DEF Positions, RequestPlaces, TransferPlaces
  <2> QED
    BY <1>1, <1>2, <2>1, <2>5, <2>6, JobGoesOn
<1> QED
  BY <1>3, <1>4, <1>5

LEMMA DiskSectorFits ==
    ASSUME DriversInv, OnDisks, NEW u \in Units, DiskSector(u)
    PROVE  OnDisks'
<1> USE DEF sleepVars, diskVars, userVars
<1>1. /\ OnTurn(me) /\ me = Disk(u) /\ \A v \in Units : me = Disk(v) => v = u
      /\ pc[me] = "diskSector" /\ pc[Disk(u)] \in ServingPlaces
  BY DiskRunsAt DEF DiskSector, ServingPlaces
<1>2. GoesOn(me) /\ UNCHANGED <<test, prog, line, processTable, diskQ, arm>>
  BY DEF DiskSector, GoesOn
<1> DEFINE j == job[u]
<1>3. /\ j \in JobRec /\ FitsDisk(u, j.track, j.sector, j.sectors - j.done)
      /\ j.sectors - j.done \in Nat /\ j.sectors \in Int /\ j.done \in Int
  BY <1>1, JobIs
<1>4. job \in [Units -> JobRec]
  BY DEF DriversInv, TypesOK
<1>5. /\ {"diskUnlink", "diskTransfer", "diskSeek"} \subseteq Positions \ RequestPlaces
      /\ "diskUnlink" \notin TransferPlaces /\ "diskSeek" \notin TransferPlaces
  BY DEF Positions, RequestPlaces, TransferPlaces
<1>6. CASE j.done # j.sectors /\ j.sector = TRACK_SIZE
  <2> DEFINE k == [j EXCEPT !.track = @ + 1, !.sector = 0]
  <2>1. job' = [job EXCEPT ![u].track = @ + 1, ![u].sector = 0] /\ Then("diskSeek")
    BY <1>6 DEF DiskSector, TakeMutex, NextTrack
  <2>2. /\ k.track = j.track + 1 /\ k.sector = 0 /\ k.sectors = j.sectors /\ k.done = j.done
    BY <1>3 DEF JobRec
  <2>3. job' = [job EXCEPT ![u] = k]
    BY <1>4, <2>1
  <2> HIDE DEF j, k
  <2>4. FitsDisk(u, j.track + 1, 0, j.sectors - j.done)
    <3>1. j.sectors - j.done # 0
      BY <1>3, <1>6
    <3> QED
      BY <1>3, <1>6, <3>1, NextTrackFits
  <2> QED
    BY <1>1, <1>2, <1>5, <2>1, <2>2, <2>3, <2>4, JobGoesOn
<1>7. CASE j.done = j.sectors \/ j.sector # TRACK_SIZE
  <2>1. /\ UNCHANGED job
        /\ \/ Then("diskUnlink")
           \/ Then("diskTransfer") /\ j.done # j.sectors /\ j.sector # TRACK_SIZE
    BY <1>7 DEF DiskSector, TakeMutex
  <2>2. job' = [job EXCEPT ![u] = j]
    BY <1>4, <2>1
  <2> HIDE DEF j
  <2>3. PICK x \in {"diskUnlink", "diskTransfer"} :
          Then(x) /\ (x = "diskTransfer" => j.done # j.sectors /\ j.sector # TRACK_SIZE)
    BY <2>1
  <2> QED
    BY <1>1, <1>2, <1>3, <1>5, <2>2, <2>3, JobGoesOn
<1> QED
  BY <1>6, <1>7

LEMMA DiskTransferredFits ==
    ASSUME DriversInv, OnDisks, NEW u \in Units, DiskTransferred(u)
    PROVE  OnDisks'
<1> USE DEF sleepVars, diskVars, userVars
<1>1. /\ OnTurn(me) /\ me = Disk(u) /\ \A v \in Units : me = Disk(v) => v = u
      /\ pc[Disk(u)] \in ServingPlaces /\ pc[Disk(u)] \in TransferPlaces
  BY DiskRunsAt DEF DiskTransferred, ServingPlaces, TransferPlaces
<1> DEFINE j == job[u]
           k == [j EXCEPT !.done = @ + 1, !.sector = @ + 1]
<1>2. /\ UNCHANGED <<test, prog, line, processTable, diskQ, arm>> /\ Then("diskSector")
      /\ job' = [job EXCEPT ![u].done = @ + 1, ![u].sector = @ + 1]
  BY DEF DiskTransferred
<1>3. /\ j \in JobRec /\ FitsDisk(u, j.track, j.sector, j.sectors - j.done)
      /\ j.sectors - j.done \in Nat /\ j.sectors \in Int /\ j.done \in Int
      /\ j.done # j.sectors /\ j.sector # TRACK_SIZE
  BY <1>1, JobIs
<1>4. job \in [Units -> JobRec]
  BY DEF DriversInv, TypesOK
<1>5. k.track = j.track /\ k.sector = j.sector + 1 /\ k.sectors = j.sectors /\ k.done = j.done + 1
  BY <1>3 DEF JobRec
<1>6. job' = [job EXCEPT ![u] = k]
  BY <1>2, <1>4
<1> HIDE DEF j, k
<1>7. FitsDisk(u, j.track, j.sector + 1, j.sectors - (j.done + 1))
  <2>1. j.sectors - j.done # 0 /\ (j.sectors - j.done) - 1 = j.sectors - (j.done + 1)
    BY <1>3
  <2> QED
    BY <1>3, <2>1, NextSectorFits
<1>8. "diskSector" \in Positions \ RequestPlaces /\ "diskSector" \notin TransferPlaces
  BY DEF Positions, RequestPlaces, TransferPlaces
<1> QED
  BY <1>1, <1>2, <1>5, <1>6, <1>7, <1>8, JobGoesOn

LEMMA DiskUnlinkFits ==
    ASSUME DriversInv, ListsInv, OnDisks, NEW u \in Units, DiskUnlink(u)
    PROVE  OnDisks'
<1> USE DEF sleepVars, diskVars, userVars
<1>1. OnTurn(me) /\ me \in Pids /\ TypesOK
  BY DiskRunsAt DEF DiskUnlink, DriversInv
<1>2. Unlinked(u)
  BY DiskUnlinkLists
<1>3. /\ UNCHANGED <<test, prog, line, job, arm>> /\ GoesOn(me) /\ Moves(me, "diskNotify")
      /\ "diskNotify" \notin RequestPlaces \cup ServingPlaces \cup TransferPlaces
  BY DEF DiskUnlink, GoesOn, Moves, Then, Positions, RequestPlaces, ServingPlaces, TransferPlaces
<1>4. EntriesFit' /\ JobsFit'
  BY <1>1, <1>2, <1>3, EntriesStay, SameJobsStay DEF OnDisks, Unlinked
<1>5. ASSUME NEW v \in Units PROVE InSweepOrder(RequestList(v), TrackOf)'
  <2>1. RequestList(v) \in Seq(Slots) /\ InSweepOrder(RequestList(v), TrackOf) /\ TrackOf' = TrackOf
        /\ TrackOf \in [Slots -> Int]
    BY <1>2, ListsAreSlots DEF OnDisks, SweepsOK, Unlinked, SameFields, TrackOf
  <2> DEFINE q == RequestList(v)
  <2>2. RequestList(v)' = q \/ (RequestList(v)' = Tail(q) /\ q # <<>>)
    BY <1>2 DEF Unlinked
  <2> HIDE DEF q
  <2>3. InSweepOrder(q, TrackOf) /\ (q # <<>> => InSweepOrder(Tail(q), TrackOf))
    BY <2>1, SweepTail DEF q
  <2>4. InSweepOrder(RequestList(v)', TrackOf')
    BY <2>1, <2>2, <2>3
  <2> QED
    BY <2>4 DEF InSweepOrder
<1> QED
  BY <1>3, <1>4, <1>5 DEF OnDisks, SweepsOK, ArmsFit

LEMMA DiskDriverFits ==
    ASSUME DriversInv, ListsInv, OnDisks, NEW u \in Units, DiskDriver(u)
    PROVE  OnDisks'
<1> USE DEF sleepVars, diskVars, userVars
<1>1. CASE DiskWait(u) \/ DiskNotify(u)
  <2>1. OnTurn(me)
    BY <1>1, DiskRunsAt DEF DiskWait, DiskNotify
  <2>2. GoesOn(me) /\ UNCHANGED <<test, prog, processTable, diskQ, job, arm>>
    BY <1>1 DEF DiskWait, DiskNotify, GoesOn
  <2>3. \E x \in {"gone", "diskWoken", "diskNotified"} : Then(x)
    BY <1>1 DEF DiskWait, DiskNotify
  <2>4. {"gone", "diskWoken", "diskNotified"} \subseteq QuietPlaces
    BY DEF QuietPlaces, Positions, RequestPlaces, ServingPlaces
  <2> QED
    BY <2>1, <2>2, <2>3, <2>4, QuietFits
<1>2. CASE DiskSeek(u) \/ DiskSeekDone(u) \/ DiskTransfer(u)
  <2>1. OnTurn(me) /\ pc[me] \in ServingPlaces
    BY <1>2, DiskRunsAt DEF DiskSeek, DiskSeekDone, DiskTransfer, ServingPlaces
  <2>2. GoesOn(me) /\ UNCHANGED <<test, prog, processTable, diskQ, job, arm>>
    BY <1>2 DEF DiskSeek, DiskSeekDone, DiskTransfer, GoesOn
  <2>3. \E x \in {"diskSeekDone", "diskSector", "diskTransferred"} :
          Then(x) /\ (x = "diskTransferred" => pc[me] \in TransferPlaces)
    BY <1>2, DiskRunsAt DEF DiskSeek, DiskSeekDone, DiskTransfer, TransferPlaces
  <2>4. \A x \in {"diskSeekDone", "diskSector", "diskTransferred"} :
          x \in Positions /\ x \notin RequestPlaces /\ (x \in TransferPlaces => x = "diskTransferred")
    BY DEF Positions, RequestPlaces, TransferPlaces
  <2>5. PICK x : Moves(me, x) /\ x \notin RequestPlaces /\ (x \in TransferPlaces => pc[me] \in TransferPlaces)
    BY <2>3, <2>4 DEF Moves, Then
  <2> QED
    BY <2>1, <2>2, <2>5, PlainFits
<1> QED
  BY <1>1, <1>2, DiskTakeFits, DiskSectorFits, DiskTransferredFits, DiskUnlinkFits DEF DiskDriver

-----------------------------------------------------------------------------
(***************************************************************************)
(* The users.                                                              *)
(***************************************************************************)
\* A call that is made fits, if the tests' calls do.
LEMMA CallFits ==
    ASSUME RequestsFit(Tests), DriversInv, NEW p \in Pids, Inside(p, {"DiskRead", "DiskWrite"}),
           prog[p] \in {"start3"} \cup DOMAIN Test.code, IsRequest(CallAt(p))
    PROVE  FitsDisk(UnitOf(CallAt(p)), CallAt(p).track, CallAt(p).first, CallAt(p).sectors)
<1>1. Inside(p, ListCalls)
  BY DEF Inside, ListCalls
<1>2. /\ test \in DOMAIN Tests /\ prog[p] \in DOMAIN Tests[test].code
      /\ Calls(prog[p]) = Tests[test].code[prog[p]]
      /\ line[p] \in DOMAIN Tests[test].code[prog[p]]
  BY <1>1, CallsOfTests
<1>3. CallAt(p) = Tests[test].code[prog[p]][line[p]]
  BY <1>2 DEF CallAt
<1> QED
  BY <1>2, <1>3 DEF RequestsFit

\* Whoever writes its request is in no list yet.
LEMMA NotListed ==
    ASSUME ListsInv, NEW p \in Pids, pc[p] \notin AnswerPlaces, NEW u \in Units
    PROVE  Slot(p) \notin Members(RequestList(u))
<1>1. SUFFICES ASSUME Slot(p) \in Members(RequestList(u)) PROVE FALSE
  OBVIOUS
<1>2. PICK r \in Requesters(u) : Slot(p) = Slot(r)
  BY <1>1 DEF ListsInv, RequestsOK, SlotsOf
<1>3. r \in Pids /\ pc[r] \in AnswerPlaces
  BY <1>2 DEF Requesters, Unanswered, AnswerPlaces
<1> QED
  BY <1>2, <1>3, SlotsApart

LEMMA RequestFits ==
    ASSUME DriversInv, ListsInv, OnDisks, OnTurn(me), me # IDLE, pc[me] \in {"user", "diskWrite"},
           NEW c, NEW op, NEW data, Request(c, op, data), c = CallAt(me),
           FitsDisk(UnitOf(c), c.track, c.first, c.sectors),
           UNCHANGED <<test, prog, line, diskQ, job, arm>>
    PROVE  OnDisks'
<1> DEFINE s == Slot(me)
           e == [processTable[s] EXCEPT !.pid = me, !.track = c.track, !.first = c.first,
                     !.sectors = c.sectors, !.operation = op, !.buffer = data]
<1>1. /\ me \in Pids /\ TypesOK /\ s \in Slots /\ processTable[s] \in ProcRec
      /\ processTable \in [Slots -> ProcRec]
  BY SlotsApart DEF DriversInv, TypesOK, OnTurn
<1>2. processTable' = [processTable EXCEPT ![s] = e] /\ Then("diskAdd")
  BY DEF Request
<1>3. /\ e.nextSleeperProc = processTable[s].nextSleeperProc
      /\ e.nextDiskProc = processTable[s].nextDiskProc
      /\ e.pid = me /\ e.track = c.track /\ e.first = c.first /\ e.sectors = c.sectors
  BY <1>1 DEF ProcRec
<1> HIDE DEF s, e
<1>4. NextDisk' = NextDisk /\ processTable'[s] = e
  BY <1>1, <1>2, <1>3, EntryWritten DEF s, OwnEntry
<1>5. \A t \in Slots : t # s => processTable'[t] = processTable[t]
  BY <1>1, <1>2
<1>6. Moves(me, "diskAdd") /\ GoesOn(me)
  BY <1>2 DEF Then, Moves, Positions, GoesOn
<1>7. EntriesFit'
  <2>1. ASSUME NEW q \in Pids PROVE EntryFits(q)'
    <3>1. CallAt(q)' = CallAt(q) /\ EntryFits(q)
      BY DEF CallAt, Calls, Test, OnDisks, EntriesFit
    <3>2. CASE q = me
      <4>1. FitsDisk(UnitOf(CallAt(q)'), e.track, e.first, e.sectors)
        BY <1>3, <3>1, <3>2
      <4>2. processTable'[Slot(q)] = e
        BY <1>4, <3>2 DEF s
      <4> HIDE DEF OnDisks
      <4> QED
        BY <4>1, <4>2 DEF EntryFits, FitsDisk, UnitOf, Slot
    <3>3. CASE q # me
      <4>1. Slot(q) # s /\ Slot(q) \in Slots
        BY <1>1, <3>3, SlotsApart DEF s
      <4>2. processTable'[Slot(q)] = processTable[Slot(q)] /\ pc'[q] = pc[q]
        BY <1>1, <1>5, <1>6, <3>3, <4>1, OthersWait
      <4> QED
        BY <3>1, <4>2 DEF EntryFits, FitsDisk, UnitOf, Slot
    <3> QED
      BY <3>2, <3>3
  <2> QED
    BY <2>1 DEF EntriesFit
<1>8. SweepsOK'
  <2>1. ASSUME NEW u \in Units PROVE InSweepOrder(RequestList(u), TrackOf)'
    <3>1. RequestList(u)' = RequestList(u) /\ RequestList(u) \in Seq(Slots)
      BY <1>4, ListsAreSlots DEF RequestList
    <3>2. s \notin Members(RequestList(u))
      BY <1>1, NotListed DEF s, AnswerPlaces
    <3>3. \A t \in Members(RequestList(u)) : t \in Slots
      BY <3>1, ElementOfSeq DEF Members
    <3>4. \A t \in Members(RequestList(u)) : processTable'[t].track = processTable[t].track
      BY <1>5, <3>2, <3>3
    <3> QED
      BY <3>1, <3>4, SweepKept DEF OnDisks, SweepsOK
  <2> QED
    BY <2>1 DEF SweepsOK
<1>9. JobsFit'
  <2>1. "diskAdd" \notin ServingPlaces /\ "diskAdd" \notin TransferPlaces
    BY DEF ServingPlaces, TransferPlaces
  <2> QED
    BY <1>1, <1>6, <2>1, SameJobsStay DEF OnDisks
<1> QED
  BY <1>7, <1>8, <1>9 DEF OnDisks, ArmsFit

LEMMA RequestCallsFit ==
    ASSUME RequestsFit(Tests), DriversInv, ListsInv, OnDisks, DiskReadCall \/ DiskWriteCall
    PROVE  OnDisks'
<1> USE DEF sleepVars, diskVars, userVars
<1>1. CASE DiskReadCall
  <2>1. /\ OnTurn(me) /\ me # IDLE /\ me \in Pids /\ pc[me] = "user"
        /\ prog[me] \in {"start3"} \cup DOMAIN Test.code
        /\ Call = CallAt(me) /\ Call.call = "DiskRead" /\ Inside(me, {"DiskRead"})
    BY <1>1, MakesIt DEF DiskReadCall
  <2> DEFINE c == Call
  <2>2. Request(c, "read", BLANK) /\ UNCHANGED <<test, prog, line, diskQ, job, arm>>
    BY <1>1 DEF DiskReadCall
  <2>3. FitsDisk(UnitOf(c), c.track, c.first, c.sectors)
    BY <2>1, CallFits DEF Inside, IsRequest
  <2>4. c = CallAt(me)
    BY <2>1
  <2> HIDE DEF c
  <2> QED
    BY <2>1, <2>2, <2>3, <2>4, RequestFits
<1>2. CASE DiskWriteCall
  <2>1. /\ OnTurn(me) /\ me # IDLE /\ me \in Pids /\ pc[me] = "diskWrite"
        /\ prog[me] \in {"start3"} \cup DOMAIN Test.code
        /\ Call = CallAt(me) /\ ProgramFor(me, "diskWrite")
    BY <1>2, InCallIs DEF DiskWriteCall, UserPlaces
  <2> DEFINE c == Call
             data == Call.data
  <2>2. Request(c, "write", data) /\ UNCHANGED <<test, prog, line, diskQ, job, arm>>
    BY <1>2 DEF DiskWriteCall
  <2>3. FitsDisk(UnitOf(c), c.track, c.first, c.sectors)
    <3>1. Inside(me, {"DiskRead", "DiskWrite"}) /\ CallAt(me).call = "DiskWrite"
          /\ CallAt(me).unit \in Units /\ OnDisk(CallAt(me))
      BY <1>2, <2>1 DEF ProgramFor, Inside, DiskWriteCall
    <3> QED
      BY <2>1, <3>1, CallFits DEF IsRequest
  <2>4. c = CallAt(me)
    BY <2>1
  <2> HIDE DEF c, data
  <2> QED
    BY <2>1, <2>2, <2>3, <2>4, RequestFits
<1> QED
  BY <1>1, <1>2

LEMMA DiskAddFits ==
    ASSUME DriversInv, ListsInv, OnDisks, DiskAdd
    PROVE  OnDisks'
<1> USE DEF sleepVars, diskVars, userVars
<1>1. /\ OnTurn(me) /\ me # IDLE /\ me \in Pids /\ pc[me] = "diskAdd" /\ TypesOK
      /\ CallAt(me).call \in {"DiskRead", "DiskWrite"} /\ Call = CallAt(me)
  BY InCallIs DEF DiskAdd, UserPlaces, DriversInv, ProgramFor, Inside
<1> DEFINE s == Slot(me)
<1>2. PICK u \in Units : u = UnitOf(Call)
  BY UnitIs
<1>3. Added(u, s)
  BY <1>2, DiskAddLists
<1>4. UNCHANGED <<test, prog, line, job, arm>> /\ GoesOn(me) /\ Moves(me, "diskRing")
  BY DEF DiskAdd, GoesOn, Moves, Then, Positions
<1>5. /\ "diskRing" \notin ServingPlaces /\ "diskRing" \notin TransferPlaces
      /\ pc[me] \in RequestPlaces
  BY <1>1 DEF ServingPlaces, TransferPlaces, RequestPlaces
<1>6. EntriesFit' /\ JobsFit'
  BY <1>1, <1>3, <1>4, <1>5, EntriesStay, SameJobsStay DEF OnDisks, Added
<1>7. TrackOf' = TrackOf /\ TrackOf \in [Slots -> Int] /\ s \in Slots
      /\ (\A t \in Slots : TrackOf[t] = Track(t))
  BY <1>3, ListsAreSlots DEF Added, SameFields, TrackOf, Track
<1>8. FitsDisk(u, Track(s), processTable[s].first, processTable[s].sectors)
  <2>1. EntryFits(me)
    BY <1>1 DEF OnDisks, EntriesFit
  <2> QED
    BY <1>1, <1>2, <1>5, <2>1 DEF EntryFits, Track
<1> HIDE DEF s
<1>9. ASSUME NEW v \in Units PROVE InSweepOrder(RequestList(v), TrackOf)'
  <2> DEFINE q == RequestList(v)
  <2>1. q \in Seq(Slots) /\ InSweepOrder(q, TrackOf)
    BY ListsAreSlots DEF OnDisks, SweepsOK
  <2>2. CASE v # u
    <3>1. RequestList(v)' = q
      BY <1>3, <2>2 DEF Added
    <3> HIDE DEF q
    <3>2. InSweepOrder(RequestList(v)', TrackOf')
      BY <1>7, <2>1, <3>1
    <3> QED
      BY <3>2 DEF InSweepOrder
  <2>3. CASE v = u /\ diskQ[u] = NULL
    <3>1. RequestList(v)' = <<s>>
      BY <1>3, <2>3 DEF Added
    <3>2. InSweepOrder(<<s>>, TrackOf')
      <4>1. Len(<<s>>) = 1 /\ \A i, j \in 1 .. 1 : ~(i < j)
        OBVIOUS
      <4> QED
        BY <4>1 DEF InSweepOrder
    <3>3. InSweepOrder(RequestList(v)', TrackOf')
      BY <3>1, <3>2
    <3> QED
      BY <3>3 DEF InSweepOrder
  <2>4. CASE v = u /\ diskQ[u] # NULL
    <3> DEFINE i == Position(u, q, Track(s))
    <3>1. RequestList(v)' = InsertAt(q, i + 1, s)
      BY <1>3, <2>4 DEF Added, Track
    <3>2. Len(q) > 0
      BY <1>1, <2>4, LinksAreLinks
    <3>3. i \in 1 .. Len(q)
      BY <2>1, <3>2, PositionIs
    <3>4. Track(s) \in 0 .. Tracks[u] /\ \A k \in 1 .. Len(q) : Track(q[k]) \in 0 .. Tracks[u]
      <4>1. Tracks[u] \in Nat
        BY DriversAssumption
      <4>2. ASSUME NEW k \in 1 .. Len(q) PROVE Track(q[k]) \in 0 .. Tracks[u]-1
        <5>1. q[k] \in Members(RequestList(u))
          BY <2>4 DEF Members
        <5> QED
          BY <5>1, ListFits DEF FitsDisk, Track
      <4>3. Track(s) \in 0 .. Tracks[u]-1
        BY <1>8 DEF FitsDisk
      <4> QED
        BY <4>1, <4>2, <4>3
    <3>5. LET head == Track(q[1])
          IN  /\ \A k \in 1 .. i : InSweep(head, Track(q[k]), Track(s))
              /\ \A k \in i+1 .. Len(q) : InSweep(head, Track(s), Track(q[k]))
      <4> DEFINE track == Track(s)
      <4>1. track \in 0 .. Tracks[u] /\ i = Position(u, q, track)
        BY <3>4
      <4> HIDE DEF track, q, i
      <4>2. LET head == Track(q[1])
            IN  /\ \A k \in 1 .. Position(u, q, track) : InSweep(head, Track(q[k]), track)
                /\ \A k \in Position(u, q, track)+1 .. Len(q) : InSweep(head, track, Track(q[k]))
        BY <2>1, <3>2, <3>4, <4>1, PositionIsInOrder
      <4> QED
        BY <4>1, <4>2 DEF track
    <3> HIDE DEF i, q
    <3>6. /\ \A k \in 1 .. Len(q) : Track(q[k]) = TrackOf[q[k]]
          /\ Track(s) = TrackOf[s]
      BY <1>7, <2>1, ElementOfSeq
    <3>7. /\ \A k \in 1 .. i : InSweep(TrackOf[q[1]], TrackOf[q[k]], TrackOf[s])
          /\ \A k \in i+1 .. Len(q) : InSweep(TrackOf[q[1]], TrackOf[s], TrackOf[q[k]])
      <4>1. Len(q) \in Nat
        BY <2>1, LenProperties
      <4>2. 1 \in 1 .. Len(q) /\ (\A k \in 1 .. i : k \in 1 .. Len(q))
            /\ \A k \in i+1 .. Len(q) : k \in 1 .. Len(q)
        BY <3>3, <4>1
      <4> QED
        BY <3>5, <3>6, <4>2
    <3>8. InSweepOrder(InsertAt(q, i + 1, s), TrackOf)
      BY <1>7, <2>1, <3>3, <3>7, SweepInserted
    <3>9. InSweepOrder(RequestList(v)', TrackOf')
      BY <1>7, <3>1, <3>8
    <3> QED
      BY <3>9 DEF InSweepOrder
  <2> QED
    BY <2>2, <2>3, <2>4
<1> QED
  BY <1>4, <1>6, <1>9 DEF OnDisks, SweepsOK, ArmsFit

\* fork1: the child has no request.
LEMMA SpawnFits ==
    ASSUME DriversInv, OnDisks, UserSpawn
    PROVE  OnDisks'
<1> USE DEF sleepVars, diskVars, userVars
<1> DEFINE child == NextPid(sys)
           f == Call.f
           start == CASE f = "ClockDriver" -> "ClockDriver"
                      [] f \in {"DiskDriver0", "DiskDriver1"} -> "diskLoop"
                      [] OTHER -> "user"
<1>1. OnTurn(me) /\ me \in Pids /\ pc[me] = "user" /\ TypesOK
  BY MakesIt DEF UserSpawn, DriversInv
<1>2. /\ CanFork(sys)
      /\ prog' = [prog EXCEPT ![child] = f] /\ pc' = [pc EXCEPT ![child] = start]
      /\ line' = [line EXCEPT ![me] = @ + 1]
      /\ UNCHANGED <<test, processTable, diskQ, job, arm>>
  BY DEF UserSpawn, CallIsOver
<1>3. child \in Pids /\ ~(child < sys.next)
  BY <1>2, NextPidIs DEF DriversInv, SysOK, MachineOK
<1>4. start \in {"ClockDriver", "diskLoop", "user"}
  OBVIOUS
<1> HIDE DEF child, f, start
<1>5. \A q \in Pids : pc'[q] = IF q = child THEN start ELSE pc[q]
  BY <1>1, <1>2 DEF TypesOK
<1>6. EntriesFit'
  <2>1. ASSUME NEW q \in Pids PROVE EntryFits(q)'
    <3>1. CASE q = child \/ q = me
      <4>1. pc'[q] \notin RequestPlaces
        BY <1>1, <1>4, <1>5, <3>1 DEF RequestPlaces
      <4> QED
        BY <4>1 DEF EntryFits
    <3>2. CASE q # child /\ q # me
      <4>1. pc'[q] = pc[q] /\ line'[q] = line[q] /\ prog'[q] = prog[q] /\ EntryFits(q)
        BY <1>1, <1>2, <1>5, <3>2 DEF TypesOK, OnDisks, EntriesFit
      <4>2. CallAt(q)' = CallAt(q)
        <5>1. pc'[q] = pc[q] /\ line'[q] = line[q] /\ prog'[q] = prog[q] /\ test' = test
          BY <1>2, <4>1
        <5>2. \A g : Calls(g)' = Calls(g)
          BY <5>1 DEF Calls, Test
        <5> QED
          BY <5>1, <5>2 DEF CallAt
      <4> QED
        BY <1>2, <4>1, <4>2 DEF EntryFits, FitsDisk, UnitOf, Slot
    <3> QED
      BY <3>1, <3>2
  <2> QED
    BY <2>1 DEF EntriesFit
<1>7. JobsFit'
  <2>1. ASSUME NEW u \in Units PROVE JobFits(u)'
    <3>1. JobFits(u) /\ Disk(u) \in Pids
      BY PidsOfStart3 DEF OnDisks, JobsFit
    <3>2. pc'[Disk(u)] \in ServingPlaces => pc'[Disk(u)] = pc[Disk(u)]
      BY <1>4, <1>5, <3>1 DEF ServingPlaces
    <3>3. pc'[Disk(u)] \in {"diskTransfer", "diskTransferred"} => pc'[Disk(u)] = pc[Disk(u)]
      BY <1>4, <1>5, <3>1
    <3> QED
      BY <1>2, <3>1, <3>2, <3>3 DEF JobFits, FitsDisk, Disk
  <2> QED
    BY <2>1 DEF JobsFit
<1>8. SweepsOK'
  <2>1. NextDisk' = NextDisk /\ SameFields
    BY <1>2 DEF NextDisk, SameFields
  <2> QED
    BY <1>2, <2>1, SweepsKept DEF OnDisks
<1> QED
  BY <1>2, <1>6, <1>7, <1>8 DEF OnDisks, ArmsFit

\* The calls that ask no disk for anything, and the rest of those that do.
LEMMA QuietCallsFit ==
    ASSUME DriversInv, OnDisks,
           \/ UserWait \/ UserWaited \/ UserTerminate \/ UserCallsPhase1 \/ Return
           \/ SizeCall \/ SizeOutput \/ SizeDone \/ DiskWriteInvalid
    PROVE  OnDisks'
<1> USE DEF sleepVars, diskVars, userVars
<1>1. OnTurn(me) /\ me \in Pids /\ TypesOK
  BY MakesIt, InCallIs
  DEF UserWait, UserWaited, UserTerminate, UserCallsPhase1, Return, SizeCall, SizeOutput, SizeDone,
      DiskWriteInvalid, UserPlaces, DriversInv
<1>2. GoesOn(me) /\ UNCHANGED <<test, prog, processTable, diskQ, job, arm>>
  BY DEF UserWait, UserWaited, UserTerminate, UserCallsPhase1, Return, SizeCall, SizeOutput, SizeDone,
         DiskWriteInvalid, CallIsOver, GoesOn
<1>3. PICK x \in {"user", "waited", "gone", "size", "sizeDone", "diskWrite"} : Then(x)
  <2>1. CASE UserCallsPhase1
    <3>1. pc[me] = "user" /\ UNCHANGED pc
      BY <2>1, MakesIt DEF UserCallsPhase1
    <3>2. Then("user")
      BY <1>1, <3>1 DEF Then, TypesOK
    <3> QED
      BY <3>2
  <2>2. CASE ~UserCallsPhase1
    BY <2>2 DEF UserWait, UserWaited, UserTerminate, Return, SizeCall, SizeOutput, SizeDone,
                DiskWriteInvalid, TakeMutex
  <2> QED
    BY <2>1, <2>2
<1>4. x \in QuietPlaces
  BY DEF QuietPlaces, Positions, RequestPlaces, ServingPlaces
<1> QED
  BY <1>1, <1>2, <1>3, <1>4, QuietFits

LEMMA WaitsFit ==
    ASSUME DriversInv, OnDisks, Block \/ DiskRing
    PROVE  OnDisks'
<1> USE DEF sleepVars, diskVars, userVars
<1>1. OnTurn(me) /\ pc[me] \in RequestPlaces
  BY InCallIs DEF Block, DiskRing, UserPlaces, RequestPlaces
<1>2. GoesOn(me) /\ UNCHANGED <<test, prog, line, processTable, diskQ, job, arm>>
  BY DEF Block, DiskRing, GoesOn
<1>3. PICK x \in {"block", "return"} : Moves(me, x)
  BY DEF Block, DiskRing, Then, Moves, Positions
<1>4. x \notin ServingPlaces /\ x \notin TransferPlaces
  BY DEF ServingPlaces, TransferPlaces
<1> QED
  BY <1>1, <1>2, <1>3, <1>4, PlainFits

LEMMA UserFits ==
    ASSUME RequestsFit(Tests), DriversInv, ListsInv, OnDisks, User
    PROVE  OnDisks'
<1>1. CASE UserSpawn \/ SleepCall \/ SleepAdd
  BY <1>1, SpawnFits, SleepCallFits, SleepAddFits
<1>2. CASE DiskReadCall \/ DiskWriteCall \/ DiskAdd
  BY <1>2, RequestCallsFit, DiskAddFits
<1>3. CASE Block \/ DiskRing
  BY <1>3, WaitsFit
<1>4. CASE \/ UserWait \/ UserWaited \/ UserTerminate \/ UserCallsPhase1 \/ Return
           \/ SizeCall \/ SizeOutput \/ SizeDone \/ DiskWriteInvalid
  BY <1>4, QuietCallsFit
<1> QED
  BY <1>1, <1>2, <1>3, <1>4 DEF User

-----------------------------------------------------------------------------
(***************************************************************************)
(* The theorems.                                                           *)
(***************************************************************************)
LEMMA InitFits ==
    ASSUME Init
    PROVE  OnDisks
<1>1. /\ pc = [p \in Pids |-> "user"] /\ sleepQ = NULL /\ diskQ = [u \in Units |-> NULL]
      /\ job = [u \in Units |-> NoJob] /\ arm = [u \in Units |-> 0]
  BY DEF Init
<1>2. \A p \in Pids : pc[p] = "user"
  BY <1>1
<1>3. NextDisk \in [Slots -> Pointers] /\ NULL \in Pointers
  BY DEF Init, NoProc, NextDisk, Pointers
<1>4. \A u \in Units : RequestList(u) = <<>>
  <2>1. \A next : IsList(Slots, NULL, <<>>, NULL, next)
    BY EmptyList
  <2> QED
    BY <1>1, <1>3, <2>1, ChainIsList DEF RequestList
<1>5. SweepsOK
  <2>1. Len(<<>>) = 0 /\ 1 .. 0 = {}
    OBVIOUS
  <2> QED
    BY <1>4, <2>1 DEF SweepsOK, InSweepOrder
<1>6. EntriesFit
  BY <1>2 DEF EntriesFit, EntryFits, RequestPlaces
<1>7. \A u \in Units : Tracks[u] \in Nat \ {0} /\ TRACK_SIZE \in Nat
  BY DriversAssumption
<1>8. JobsFit
  <2>1. ASSUME NEW u \in Units PROVE JobFits(u)
    <3>1. pc[Disk(u)] = "user"
      BY <1>2, PidsOfStart3
    <3>2. job[u].track = 0 /\ job[u].sector = 0
      BY <1>1 DEF NoJob
    <3> QED
      BY <1>7, <3>1, <3>2 DEF JobFits, ServingPlaces
  <2> QED
    BY <2>1 DEF JobsFit
<1>9. ArmsFit
  BY <1>1, <1>7 DEF ArmsFit
<1> QED
  BY <1>5, <1>6, <1>8, <1>9 DEF OnDisks

LEMMA NextFits ==
    ASSUME RequestsFit(Tests), DriversInv, ListsInv, OnDisks, [Next]_vars
    PROVE  OnDisks'
<1>1. CASE UNCHANGED vars
  <2>1. UNCHANGED <<pc, test, prog, line, processTable, diskQ, job>> /\ ArmsFit'
    BY <1>1 DEF vars, OnDisks, ArmsFit
  <2> QED
    BY <2>1, StillFits
<1>2. CASE Next
  BY <1>2, InterruptsFit, ClockDriverFits, DiskDriverFits, UserFits DEF Next
<1> QED
  BY <1>1, <1>2

LEMMA RequestsAreOnDisks == SleepsOnce(Tests) /\ RequestsFit(Tests) => (Spec => []OnDisks)
<1>1. Init => OnDisks
  BY InitFits
<1>2. RequestsFit(Tests) /\ DriversInv /\ ListsInv /\ OnDisks /\ [Next]_vars => OnDisks'
  BY NextFits
<1>3. SUFFICES ASSUME SleepsOnce(Tests), RequestsFit(Tests) PROVE Spec => []OnDisks
  OBVIOUS
<1> QED
  BY <1>1, <1>2, <1>3, DriversInvariant, ListsInvariant, PTL DEF Spec

LEMMA SweepsAreInOrder ==
    ASSUME DriversInv, OnDisks
    PROVE  SweepOrder
<1> SUFFICES ASSUME NEW u \in Units
             PROVE  LET track == [i \in DOMAIN RequestList(u) |-> processTable[RequestList(u)[i]].track]
                        sweep(i) == IF track[i] >= track[1] THEN 0 ELSE 1
                    IN  \A i, j \in DOMAIN track : i < j =>
                            \/ sweep(i) < sweep(j)
                            \/ sweep(i) = sweep(j) /\ track[i] <= track[j]
  BY DEF SweepOrder
<1> DEFINE q == RequestList(u)
           track == [i \in DOMAIN q |-> processTable[q[i]].track]
           sweep(i) == IF track[i] >= track[1] THEN 0 ELSE 1
<1>1. q \in Seq(Slots) /\ InSweepOrder(q, TrackOf) /\ TrackOf \in [Slots -> Int]
      /\ \A s \in Slots : TrackOf[s] = processTable[s].track
  BY ListsAreSlots DEF OnDisks, SweepsOK
<1> HIDE DEF q
<1>2. DOMAIN q = 1 .. Len(q) /\ Len(q) \in Nat /\ \A i \in 1 .. Len(q) : q[i] \in Slots
  BY <1>1, LenProperties, ElementOfSeq
<1>3. DOMAIN track = 1 .. Len(q)
      /\ \A i \in 1 .. Len(q) : track[i] = TrackOf[q[i]] /\ track[i] \in Int
  BY <1>1, <1>2
<1> HIDE DEF track
<1>4. ASSUME NEW i \in DOMAIN track, NEW j \in DOMAIN track, i < j
      PROVE  sweep(i) < sweep(j) \/ (sweep(i) = sweep(j) /\ track[i] <= track[j])
  <2>1. i \in 1 .. Len(q) /\ j \in 1 .. Len(q) /\ 1 \in 1 .. Len(q)
    BY <1>2, <1>3
  <2>2. InSweep(track[1], track[i], track[j])
    BY <1>1, <1>3, <1>4, <2>1 DEF InSweepOrder
  <2>3. track[1] \in Int /\ track[i] \in Int /\ track[j] \in Int
    BY <1>3, <2>1
  <2> QED
    BY <2>2, <2>3 DEF InSweep
<1> QED
  BY <1>4 DEF track, q

\* SweepOrder, for every test whose requests are on the disk and in which no function sleeps
\* twice: whatever arrives while a driver is at work, its list stays in the order of its sweep.
THEOREM SweepsInOrder == SleepsOnce(Tests) /\ RequestsFit(Tests) => (Spec => []SweepOrder)
<1>1. DriversInv /\ OnDisks => SweepOrder
  BY SweepsAreInOrder
<1>2. SUFFICES ASSUME SleepsOnce(Tests), RequestsFit(Tests) PROVE Spec => []SweepOrder
  OBVIOUS
<1> QED
  BY <1>1, <1>2, DriversInvariant, RequestsAreOnDisks, PTL

LEMMA TimeAlways == Spec => [](now <= Test.end)
<1>1. Init => now <= Test.end
  <2>1. ASSUME Init PROVE now <= Test.end
    <3>1. now = 0 /\ Test.end \in Nat
      BY <2>1, TestsAssumption DEF Init, Test
    <3> QED
      BY <3>1
  <2> QED
    BY <2>1
<1>2. DriversInv /\ [Next]_vars /\ now <= Test.end => (now <= Test.end)'
  BY TimePasses
<1> QED
  BY <1>1, <1>2, DriversInvariant, PTL DEF Spec

\* DriversTypeOK, for the same tests: no transfer leaves its disk, on whatever track it ends.
THEOREM DriversTypes == SleepsOnce(Tests) /\ RequestsFit(Tests) => (Spec => []DriversTypeOK)
<1>1. DriversInv /\ OnDisks /\ now <= Test.end => DriversTypeOK
  <2>1. SUFFICES ASSUME DriversInv, OnDisks, now <= Test.end PROVE DriversTypeOK
    OBVIOUS
  <2>2. TypesOK /\ sys \in Machines(Boxes, {"running"})
    BY <2>1 DEF DriversInv, SysOK, MachineOK
  <2>3. sys.cur \in Pids \cup {IDLE}
    BY <2>2 DEF Machines
  <2>4. now \in 0 .. Test.end
    <3>1. now \in Nat /\ Test.end \in Nat
      BY <2>2, TestsAssumption DEF TypesOK, Test
    <3> QED
      BY <2>1, <3>1
  <2>5. \A s \in Slots : /\ processTable[s].nextSleeperProc \in Pointers
                         /\ processTable[s].nextDiskProc \in Pointers
    <3>1. \A s \in Slots : processTable[s] \in ProcRec
      BY <2>2 DEF TypesOK
    <3> QED
      BY <3>1 DEF ProcRec
  <2>6. \A u \in Units : /\ arm[u] \in 0 .. Tracks[u]-1
                         /\ job[u].track \in 0 .. Tracks[u]-1
                         /\ job[u].sector \in 0 .. TRACK_SIZE
    BY <2>1 DEF OnDisks, ArmsFit, JobsFit, JobFits
  <2>7. line \in [Pids -> Nat]
    BY <2>2 DEF TypesOK
  <2> QED
    BY <2>2, <2>3, <2>4, <2>5, <2>6, <2>7 DEF DriversTypeOK, TypesOK
<1>2. SUFFICES ASSUME SleepsOnce(Tests), RequestsFit(Tests) PROVE Spec => []DriversTypeOK
  OBVIOUS
<1> QED
  BY <1>1, <1>2, DriversInvariant, RequestsAreOnDisks, TimeAlways, PTL
=============================================================================
