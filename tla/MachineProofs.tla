--------------------------- MODULE MachineProofs ---------------------------
(***************************************************************************)
(* Lemmas about the machine of LowerPhases, for the proofs about the       *)
(* phases that run on it: where a process is while it does not run, and    *)
(* that no call loses it or has it in two places.                          *)
(***************************************************************************)
EXTENDS LowerPhases, LinkedLists

-----------------------------------------------------------------------------
(***************************************************************************)
(* Functions that are defined from one number to the next.                 *)
(***************************************************************************)
\* g has the steps, and they stay in X.
Steps(N, X, g) == g \in [1 .. N -> [X -> X]]
Iterated(N, X, a, g) ==
    \E f : f \in [0 .. N -> X] /\ f[0] = a /\ \A i \in 1 .. N : f[i] = g[i][f[i-1]]

\* There is one, and it stays where its steps do.
LEMMA Iterates ==
    ASSUME NEW N \in Nat, NEW X, NEW a \in X, NEW g, Steps(N, X, g)
    PROVE  Iterated(N, X, a, g)
<1>0. SUFFICES ASSUME g \in [1 .. N -> [X -> X]]
               PROVE  \E f : f \in [0 .. N -> X] /\ f[0] = a /\ \A i \in 1 .. N : f[i] = g[i][f[i-1]]
  BY DEF Steps, Iterated
<1> DEFINE Up(n, f) == f[0] = a /\ \A i \in 1 .. n : f[i] = g[i][f[i-1]]
           bad == {n \in 0 .. N : ~ \E f \in [0 .. n -> X] : Up(n, f)}
<1>1. SUFFICES ASSUME bad # {} PROVE FALSE
  <2>1. N \in 0 .. N
    OBVIOUS
  <2>2. N \notin bad
    BY <1>1
  <2>3. \E f \in [0 .. N -> X] : Up(N, f)
    BY <2>1, <2>2
  <2> QED
    BY <2>3
<1>2. PICK n \in bad : \A k \in bad : n <= k
  <2>1. bad \in SUBSET Nat
    OBVIOUS
  <2> HIDE DEF bad
  <2> QED
    BY <1>1, <2>1, LeastElement
<1>3. n \in 0 .. N /\ ~ \E f \in [0 .. n -> X] : Up(n, f)
  BY <1>2
<1>4. CASE n = 0
  <2>1. [i \in 0 .. 0 |-> a] \in [0 .. n -> X] /\ Up(n, [i \in 0 .. 0 |-> a])
    BY <1>4
  <2> QED
    BY <2>1, <1>3
<1>5. CASE n # 0
  <2>1. n-1 \in 0 .. N /\ n-1 \notin bad /\ n \in 1 .. N
    <3>1. n-1 \in 0 .. N /\ n \in 1 .. N /\ ~(n <= n-1)
      BY <1>3, <1>5
    <3> HIDE DEF bad
    <3> QED
      BY <1>2, <3>1
  <2>2. PICK f \in [0 .. n-1 -> X] : Up(n-1, f)
    BY <2>1
  <2> DEFINE h == [i \in 0 .. n |-> IF i = n THEN g[n][f[n-1]] ELSE f[i]]
  <2>3. f[n-1] \in X /\ g[n][f[n-1]] \in X
    <3>1. n-1 \in 0 .. n-1
      BY <2>1
    <3>2. f[n-1] \in X
      BY <3>1, <2>2
    <3>3. g[n] \in [X -> X]
      BY <1>0, <2>1
    <3> QED
      BY <3>2, <3>3
  <2>4. h \in [0 .. n -> X]
    BY <2>1, <2>3
  <2>5. h[0] = a
    BY <2>1, <2>2
  <2>6. ASSUME NEW i \in 1 .. n PROVE h[i] = g[i][h[i-1]]
    <3>1. CASE i = n
      <4>1. h[n] = g[n][f[n-1]] /\ h[n-1] = f[n-1]
        BY <2>1
      <4> QED
        BY <3>1, <4>1
    <3>2. CASE i # n
      <4>1. i \in 1 .. n-1 /\ i-1 \in 0 .. n-1 /\ i \in 0 .. n
        BY <2>1, <3>2
      <4>2. h[i] = f[i] /\ h[i-1] = f[i-1]
        BY <2>1, <3>2, <4>1
      <4> QED
        BY <4>1, <4>2, <2>2
    <3> QED
      BY <3>1, <3>2
  <2>7. Up(n, h)
    BY <2>5, <2>6
  <2> QED
    BY <2>4, <2>7, <1>3
<1> QED
  BY <1>4, <1>5

-----------------------------------------------------------------------------
(***************************************************************************)
(* The ready list.                                                         *)
(***************************************************************************)
LEMMA InsertedKeeps ==
    ASSUME NEW prio, NEW q \in Seq(Pids), NEW p \in Pids
    PROVE  /\ Inserted(prio, q, p) \in Seq(Pids)
           /\ Members(Inserted(prio, q, p)) = Members(q) \cup {p}
           /\ Distinct(q) /\ p \notin Members(q) => Distinct(Inserted(prio, q, p))
<1> DEFINE before == {i \in DOMAIN q : prio[q[i]] <= prio[p]}
           k == Cardinality(before)
<1>1. Len(q) \in Nat /\ DOMAIN q = 1 .. Len(q)
  BY LenProperties
<1>2. IsFiniteSet(1 .. Len(q)) /\ Cardinality(1 .. Len(q)) = Len(q)
  BY <1>1, FS_Interval
<1>3. before \subseteq 1 .. Len(q)
  BY <1>1
<1>4. k \in Nat /\ k <= Len(q)
  <2> HIDE DEF before
  <2>1. IsFiniteSet(before) /\ k <= Len(q)
    BY <1>2, <1>3, FS_Subset
  <2> QED
    BY <2>1, FS_CardinalityType
<1> DEFINE i == k + 1
<1>5. i \in 1 .. Len(q)+1 /\ Inserted(prio, q, p) = InsertAt(q, i, p)
  <2>1. Inserted(prio, q, p) = InsertAt(q, i, p)
    BY DEF Inserted
  <2> HIDE DEF before
  <2>2. i \in 1 .. Len(q)+1
    BY <1>1, <1>4
  <2> QED
    BY <2>1, <2>2
<1> HIDE DEF i
<1> QED
  BY <1>5, InsertAtElements, InsertAtMembers

LEMMA InsertedAllKeeps ==
    ASSUME NEW prio, NEW q \in Seq(Pids), Distinct(q),
           NEW ps \in Seq(Pids), Distinct(ps), Members(q) \cap Members(ps) = {}
    PROVE  /\ InsertedAll(prio, q, ps) \in Seq(Pids)
           /\ Distinct(InsertedAll(prio, q, ps))
           /\ Members(InsertedAll(prio, q, ps)) = Members(q) \cup Members(ps)
<1> DEFINE N == Len(ps)
           step(f) == [i \in 0 .. N |-> IF i = 0 THEN q ELSE Inserted(prio, f[i-1], ps[i])]
           upTo == CHOOSE f : f = step(f)
           g == [i \in 1 .. N |-> [x \in Seq(Pids) |-> Inserted(prio, x, ps[i])]]
           First(n) == {ps[i] : i \in 1 .. n}
           Good(n) == /\ upTo[n] \in Seq(Pids) /\ Distinct(upTo[n])
                      /\ Members(upTo[n]) = Members(q) \cup First(n)
           bad == {n \in 0 .. N : ~Good(n)}
<1>1. N \in Nat /\ \A i \in 1 .. N : ps[i] \in Pids
  BY LenProperties, ElementOfSeq
<1>2. InsertedAll(prio, q, ps) = upTo[N]
  BY DEF InsertedAll
<1>3. \E f : f = step(f)
  <2>1. \A i \in 1 .. N, x \in Seq(Pids) : Inserted(prio, x, ps[i]) \in Seq(Pids)
    BY <1>1, InsertedKeeps
  <2>2. g \in [1 .. N -> [Seq(Pids) -> Seq(Pids)]]
    BY <2>1
  <2>3. \A i \in 1 .. N, x \in Seq(Pids) : g[i][x] = Inserted(prio, x, ps[i])
    OBVIOUS
  <2> HIDE DEF g, N
  <2>5. PICK f : f \in [0 .. N -> Seq(Pids)] /\ f[0] = q /\ \A i \in 1 .. N : f[i] = g[i][f[i-1]]
    <3>1. N \in Nat
      BY <1>1
    <3>2. Steps(N, Seq(Pids), g)
      BY <2>2 DEF Steps
    <3>3. Iterated(N, Seq(Pids), q, g)
      BY <3>1, <3>2, Iterates
    <3> QED
      BY <3>3 DEF Iterated
  <2>6. ASSUME NEW i \in 0 .. N
        PROVE  f[i] = IF i = 0 THEN q ELSE Inserted(prio, f[i-1], ps[i])
    <3>1. CASE i = 0
      BY <3>1, <2>5
    <3>2. CASE i # 0
      <4>1. i \in 1 .. N /\ i-1 \in 0 .. N /\ f[i-1] \in Seq(Pids)
        BY <3>2, <1>1, <2>5
      <4> QED
        BY <3>2, <4>1, <2>3, <2>5
    <3> QED
      BY <3>1, <3>2
  <2>7. f = step(f)
    BY <2>5, <2>6
  <2> QED
    BY <2>7
<1>4. upTo = step(upTo)
  BY <1>3
<1>5. \A i \in 0 .. N : upTo[i] = IF i = 0 THEN q ELSE Inserted(prio, upTo[i-1], ps[i])
  <2> HIDE DEF upTo, N
  <2> QED
    BY <1>4
<1> HIDE DEF upTo, step, g, N
<1>6. bad = {}
  <2>1. SUFFICES ASSUME bad # {} PROVE FALSE
    OBVIOUS
  <2>2. PICK n \in bad : \A k \in bad : n <= k
    <3>1. bad \in SUBSET Nat
      BY <1>1
    <3> HIDE DEF bad
    <3> QED
      BY <2>1, <3>1, LeastElement
  <2>3. n \in 0 .. N /\ ~Good(n)
    BY <2>2
  <2>4. CASE n = 0
    <3>1. upTo[n] = q /\ First(n) = {}
      BY <2>3, <2>4, <1>5
    <3> QED
      BY <3>1, <2>3
  <2>5. CASE n # 0
    <3>1. n-1 \in 0 .. N /\ n \in 1 .. N /\ n-1 \notin bad
      <4>1. n \in 0 .. N /\ n-1 \in 0 .. N /\ n \in 1 .. N /\ ~(n <= n-1)
        BY <2>3, <2>5, <1>1
      <4> HIDE DEF bad
      <4> QED
        BY <2>2, <4>1
    <3>2. Good(n-1)
      BY <3>1
    <3>3. ps[n] \in Pids /\ ps[n] \notin Members(q) /\ ps[n] \notin First(n-1)
      <4>1. ps[n] \in Members(ps)
        BY <3>1 DEF Members, N
      <4>2. \A i \in 1 .. n-1 : i \in 1 .. N /\ i # n
        <5>1. N \in Nat /\ n \in 1 .. N
          BY <1>1, <3>1
        <5> QED
          BY <5>1
      <4>3. \A i \in 1 .. n-1 : ps[i] # ps[n]
        BY <3>1, <4>2 DEF Distinct, N
      <4> QED
        BY <3>1, <4>1, <4>3, <1>1
    <3>4. upTo[n] = Inserted(prio, upTo[n-1], ps[n])
      BY <3>1, <1>5, <2>5
    <3>5. /\ upTo[n] \in Seq(Pids) /\ Distinct(upTo[n])
          /\ Members(upTo[n]) = Members(upTo[n-1]) \cup {ps[n]}
      <4> DEFINE r == upTo[n-1]
      <4>1. r \in Seq(Pids) /\ Distinct(r) /\ Members(r) = Members(q) \cup First(n-1)
        BY <3>2
      <4>2. ps[n] \in Pids /\ ps[n] \notin Members(r)
        BY <4>1, <3>3
      <4> HIDE DEF r, First
      <4>3. /\ Inserted(prio, r, ps[n]) \in Seq(Pids) /\ Distinct(Inserted(prio, r, ps[n]))
            /\ Members(Inserted(prio, r, ps[n])) = Members(r) \cup {ps[n]}
        BY <4>1, <4>2, InsertedKeeps
      <4> QED
        BY <4>3, <3>4 DEF r
    <3>6. First(n) = First(n-1) \cup {ps[n]}
      BY <3>1
    <3>7. Good(n)
      BY <3>2, <3>5, <3>6
    <3> QED
      BY <3>7, <2>3
  <2> QED
    BY <2>4, <2>5
<1>7. Good(N)
  <2>1. N \in 0 .. N
    BY <1>1
  <2> QED
    BY <1>6, <2>1
<1> QED
  BY <1>2, <1>7 DEF Members, N

-----------------------------------------------------------------------------
(***************************************************************************)
(* The dispatcher: who runs or is ready to.                                *)
(***************************************************************************)
BoxRec == [slots : Nat, held : Nat, senders : Seq(Pids), receivers : Seq(Pids)]
Lives == {"unborn", "live", "quit", "joined"}
SemRec == [count : Int, waiting : Seq(Pids)]

\* The machines with the mailboxes B and the semaphores S.
Machines(B, S) ==
    [cur : Pids \cup {IDLE}, ready : Seq(Pids), next : Nat \ {0}, prio : [Pids -> Int],
     life : [Pids -> Lives], parent : [Pids -> Pids \cup {IDLE}], code : [Pids -> Int],
     quits : [Pids -> Seq(Pids)], joining : SUBSET Pids,
     got : [Pids -> Pids \cup {NoChildren}], zappers : [Pids -> Seq(Pids)],
     box : [B -> BoxRec], sem : [S -> SemRec]]

Awake(m) == Members(m.ready) \cup ({m.cur} \ {IDLE})

QueueOK(m) == Distinct(m.ready) /\ m.cur \notin Members(m.ready)

\* n is m but for who runs and who is ready.
SameButQueue(n, m) ==
    /\ n.next = m.next /\ n.prio = m.prio /\ n.life = m.life /\ n.parent = m.parent
    /\ n.code = m.code /\ n.quits = m.quits /\ n.joining = m.joining /\ n.got = m.got
    /\ n.zappers = m.zappers /\ n.box = m.box /\ n.sem = m.sem

LEMMA PidsAreNoIdle == IDLE \notin Pids /\ Pids \subseteq Nat
BY LowerPhasesAssumption DEF Pids, IDLE

\* What is in a machine.
LEMMA Queues ==
    ASSUME NEW B, NEW S, NEW m \in Machines(B, S), NEW c \in Pids \cup {IDLE}, NEW q \in Seq(Pids)
    PROVE  LET n == [m EXCEPT !.cur = c, !.ready = q]
           IN  /\ n \in Machines(B, S) /\ n.cur = c /\ n.ready = q
               /\ SameButQueue(n, m)
BY DEF Machines, SameButQueue

LEMMA RunningKeeps ==
    ASSUME NEW B, NEW S, NEW m \in Machines(B, S), NEW q \in Seq(Pids), Distinct(q)
    PROVE  /\ Running(m, q) \in Machines(B, S)
           /\ SameButQueue(Running(m, q), m)
           /\ QueueOK(Running(m, q))
           /\ Awake(Running(m, q)) = Members(q)
<1>1. CASE q = <<>>
  <2> DEFINE n == [m EXCEPT !.cur = IDLE, !.ready = <<>>]
  <2>1. <<>> \in Seq(Pids) /\ Running(m, q) = n
    BY <1>1 DEF Running
  <2>2. n \in Machines(B, S) /\ n.cur = IDLE /\ n.ready = <<>> /\ SameButQueue(n, m)
    BY <2>1, Queues
  <2> HIDE DEF n
  <2>3. Members(<<>>) = {} /\ Distinct(<<>>)
    BY DEF Members, Distinct
  <2> QED
    BY <1>1, <2>1, <2>2, <2>3 DEF Awake, QueueOK
<1>2. CASE q # <<>>
  <2> DEFINE n == [m EXCEPT !.cur = Head(q), !.ready = Tail(q)]
  <2>1. /\ Head(q) \in Pids /\ Tail(q) \in Seq(Pids) /\ Head(q) = q[1]
        /\ Members(q) = Members(Tail(q)) \cup {Head(q)}
        /\ Len(q) \in Nat \ {0} /\ Len(Tail(q)) = Len(q) - 1
        /\ \A i \in 1 .. Len(q)-1 : Tail(q)[i] = q[i+1]
    BY <1>2, TailMembers
  <2>2. Running(m, q) = n
    BY <1>2 DEF Running
  <2>3. n \in Machines(B, S) /\ n.cur = Head(q) /\ n.ready = Tail(q) /\ SameButQueue(n, m)
    BY <2>1, Queues
  <2> HIDE DEF n
  <2>4. Distinct(Tail(q)) /\ Head(q) \notin Members(Tail(q))
    BY <2>1 DEF Distinct, Members
  <2>5. Head(q) # IDLE
    BY <2>1, PidsAreNoIdle
  <2> QED
    BY <2>1, <2>2, <2>3, <2>4, <2>5 DEF Awake, QueueOK
<1> QED
  BY <1>1, <1>2

\* Those of ready, and cur if there is one, are awake.
LEMMA DispatchedKeeps ==
    ASSUME NEW B, NEW S, NEW m \in Machines(B, S), NEW q \in Seq(Pids), Distinct(q),
           m.cur \notin Members(q)
    PROVE  /\ Dispatched(m, q) \in Machines(B, S)
           /\ SameButQueue(Dispatched(m, q), m)
           /\ QueueOK(Dispatched(m, q))
           /\ Awake(Dispatched(m, q)) = Members(q) \cup ({m.cur} \ {IDLE})
<1>1. CASE m.cur = IDLE
  <2>1. Dispatched(m, q) = Running(m, q)
    BY <1>1 DEF Dispatched
  <2> QED
    BY <1>1, <2>1, RunningKeeps
<1>2. CASE m.cur # IDLE /\ q # <<>> /\ m.prio[Head(q)] < m.prio[m.cur]
  <2> DEFINE r == Inserted(m.prio, q, m.cur)
  <2>1. Dispatched(m, q) = Running(m, r)
    BY <1>2 DEF Dispatched
  <2>2. m.cur \in Pids
    BY <1>2 DEF Machines
  <2>3. r \in Seq(Pids) /\ Distinct(r) /\ Members(r) = Members(q) \cup {m.cur}
    BY <2>2, InsertedKeeps
  <2> HIDE DEF r
  <2> QED
    BY <1>2, <2>1, <2>3, RunningKeeps
<1>3. CASE m.cur # IDLE /\ ~(q # <<>> /\ m.prio[Head(q)] < m.prio[m.cur])
  <2> DEFINE n == [m EXCEPT !.ready = q]
  <2>1. Dispatched(m, q) = n
    BY <1>3 DEF Dispatched
  <2>2. n \in Machines(B, S) /\ n.cur = m.cur /\ n.ready = q /\ SameButQueue(n, m)
    BY DEF Machines, SameButQueue
  <2> HIDE DEF n
  <2> QED
    BY <1>3, <2>1, <2>2 DEF Awake, QueueOK
<1> QED
  BY <1>1, <1>2, <1>3

LEMMA UnblockedKeeps ==
    ASSUME NEW B, NEW S, NEW m \in Machines(B, S), QueueOK(m), NEW p \in Pids \ Awake(m)
    PROVE  /\ Unblocked(m, p) \in Machines(B, S)
           /\ SameButQueue(Unblocked(m, p), m)
           /\ QueueOK(Unblocked(m, p))
           /\ Awake(Unblocked(m, p)) = Awake(m) \cup {p}
<1> DEFINE r == Inserted(m.prio, m.ready, p)
<1>1. m.ready \in Seq(Pids) /\ m.cur \in Pids \cup {IDLE}
  BY DEF Machines
<1>2. r \in Seq(Pids) /\ Distinct(r) /\ Members(r) = Members(m.ready) \cup {p}
  BY <1>1, InsertedKeeps DEF QueueOK, Awake
<1>3. Unblocked(m, p) = Dispatched(m, r)
  BY DEF Unblocked
<1> HIDE DEF r
<1>4. m.cur \notin Members(r)
  BY <1>1, <1>2, PidsAreNoIdle DEF QueueOK, Awake
<1> QED
  BY <1>2, <1>3, <1>4, DispatchedKeeps DEF Awake

LEMMA YieldedKeeps ==
    ASSUME NEW B, NEW S, NEW m \in Machines(B, S), QueueOK(m)
    PROVE  /\ Yielded(m) \in Machines(B, S)
           /\ SameButQueue(Yielded(m), m)
           /\ QueueOK(Yielded(m))
           /\ Awake(Yielded(m)) = Awake(m) \ {m.cur}
<1>1. m.ready \in Seq(Pids) /\ Distinct(m.ready)
  BY DEF Machines, QueueOK
<1>2. Awake(m) \ {m.cur} = Members(m.ready)
  BY DEF Awake, QueueOK
<1> QED
  BY <1>1, <1>2, RunningKeeps DEF Yielded

LEMMA SlicedKeeps ==
    ASSUME NEW B, NEW S, NEW m \in Machines(B, S), QueueOK(m), HasEqual(m)
    PROVE  /\ Sliced(m) \in Machines(B, S)
           /\ SameButQueue(Sliced(m), m)
           /\ QueueOK(Sliced(m))
           /\ Awake(Sliced(m)) = Awake(m)
<1> DEFINE r == Inserted(m.prio, m.ready, m.cur)
<1>1. m.ready \in Seq(Pids) /\ m.cur \in Pids
  BY DEF Machines, HasEqual
<1>2. r \in Seq(Pids) /\ Distinct(r) /\ Members(r) = Members(m.ready) \cup {m.cur}
  BY <1>1, InsertedKeeps DEF QueueOK
<1>3. Sliced(m) = Running(m, r)
  BY DEF Sliced
<1> HIDE DEF r
<1> QED
  BY <1>1, <1>2, <1>3, RunningKeeps, PidsAreNoIdle DEF Awake

-----------------------------------------------------------------------------
(***************************************************************************)
(* Where a process is: it runs, is ready, waits to join, or is in one of   *)
(* the lists of the mailboxes, the semaphores and the zapped.              *)
(***************************************************************************)
Index(B, S) ==
    ({"senders", "receivers"} \X B) \cup ({"waiting"} \X S) \cup ({"zappers"} \X Pids)

\* The zappers of a process that has quit have been woken.
List(m, x) ==
    IF x[1] = "senders" THEN m.box[x[2]].senders
    ELSE IF x[1] = "receivers" THEN m.box[x[2]].receivers
    ELSE IF x[1] = "waiting" THEN m.sem[x[2]].waiting
    ELSE IF m.life[x[2]] = "live" THEN m.zappers[x[2]] ELSE <<>>

\* Nobody is in two places.
Seated(m, B, S) ==
    /\ \A x \in Index(B, S) :
          /\ Distinct(List(m, x))
          /\ Members(List(m, x)) \cap (Awake(m) \cup m.joining) = {}
    /\ \A x, y \in Index(B, S) : x # y => Members(List(m, x)) \cap Members(List(m, y)) = {}
    /\ Awake(m) \cap m.joining = {}

\* Whoever is somewhere lives, and has been forked.  Nobody who has quit lives.
Known(m, B, S) ==
    /\ \A p \in Awake(m) \cup m.joining : m.life[p] = "live"
    /\ \A x \in Index(B, S) : \A p \in Members(List(m, x)) : m.life[p] = "live"
    /\ \A p \in Pids : m.life[p] = "live" => p < m.next
    /\ \A p \in Pids : p >= m.next => m.zappers[p] = <<>>
    /\ \A p \in Pids : \A q \in Members(m.quits[p]) : m.life[q] # "live" /\ q < m.next

MachineOK(m, B, S) == m \in Machines(B, S) /\ QueueOK(m) /\ Seated(m, B, S) /\ Known(m, B, S)

LEMMA ListsAreLists ==
    ASSUME NEW B, NEW S, NEW m \in Machines(B, S), NEW x \in Index(B, S)
    PROVE  List(m, x) \in Seq(Pids)
<1>1. CASE x \in {"senders", "receivers"} \X B
  <2>1. m.box[x[2]] \in BoxRec /\ x[1] \in {"senders", "receivers"}
    BY <1>1 DEF Machines
  <2> QED
    BY <2>1 DEF List, BoxRec
<1>2. CASE x \in {"waiting"} \X S
  <2>1. m.sem[x[2]] \in SemRec /\ x[1] = "waiting"
    BY <1>2 DEF Machines
  <2> QED
    BY <2>1 DEF List, SemRec
<1>3. CASE x \in {"zappers"} \X Pids
  <2>1. m.zappers[x[2]] \in Seq(Pids) /\ x[1] = "zappers" /\ <<>> \in Seq(Pids)
    BY <1>3 DEF Machines
  <2> QED
    BY <2>1 DEF List
<1> QED
  BY <1>1, <1>2, <1>3 DEF Index

\* cur goes to the end of list x.
LEMMA Blocks ==
    ASSUME NEW B, NEW S, NEW m, MachineOK(m, B, S), m.cur # IDLE, NEW x \in Index(B, S),
           NEW n \in Machines(B, S), QueueOK(n), Awake(n) = Awake(m) \ {m.cur},
           n.joining = m.joining, n.next = m.next, n.life = m.life, n.quits = m.quits,
           \A p \in Pids : p >= m.next => n.zappers[p] = <<>>,
           List(n, x) = Append(List(m, x), m.cur),
           \A y \in Index(B, S) : y # x => List(n, y) = List(m, y)
    PROVE  MachineOK(n, B, S)
<1>1. m.cur \in Awake(m) /\ m.cur \in Pids
  BY DEF MachineOK, Machines, Awake
<1>2. List(m, x) \in Seq(Pids) /\ Distinct(List(m, x)) /\ m.cur \notin Members(List(m, x))
  BY <1>1, ListsAreLists DEF MachineOK, Seated
<1>3. /\ Members(List(n, x)) = Members(List(m, x)) \cup {m.cur}
      /\ Distinct(List(n, x))
  BY <1>1, <1>2, AppendMembers, AppendDistinct
<1>4. \A y \in Index(B, S) :
        /\ Members(List(n, y)) \subseteq Members(List(m, y)) \cup {m.cur}
        /\ y # x => Members(List(n, y)) = Members(List(m, y)) /\ Distinct(List(n, y))
  BY <1>3 DEF MachineOK, Seated
<1>5. \A y \in Index(B, S) : m.cur \notin Members(List(m, y))
  BY <1>1 DEF MachineOK, Seated
<1>6. m.cur \notin m.joining
  BY <1>1 DEF MachineOK, Seated
<1>7. Seated(n, B, S)
  <2>1. Seated(m, B, S)
    BY DEF MachineOK
  <2>2. ASSUME NEW y \in Index(B, S)
        PROVE  /\ Distinct(List(n, y))
               /\ Members(List(n, y)) \cap (Awake(n) \cup n.joining) = {}
    <3>1. Members(List(m, y)) \cap (Awake(m) \cup m.joining) = {}
      BY <2>1 DEF Seated
    <3> QED
      BY <3>1, <1>3, <1>4, <1>6
  <2>3. ASSUME NEW y \in Index(B, S), NEW z \in Index(B, S), y # z
        PROVE  Members(List(n, y)) \cap Members(List(n, z)) = {}
    <3>1. Members(List(m, y)) \cap Members(List(m, z)) = {}
      BY <2>1, <2>3 DEF Seated
    <3> QED
      BY <3>1, <2>3, <1>3, <1>4, <1>5
  <2>4. Awake(n) \cap n.joining = {}
    BY <2>1 DEF Seated
  <2> QED
    BY <2>2, <2>3, <2>4 DEF Seated
<1>8. Known(n, B, S)
  BY <1>1, <1>4 DEF MachineOK, Known
<1> QED
  BY <1>7, <1>8 DEF MachineOK

\* The first of list x is awake.
LEMMA Wakes ==
    ASSUME NEW B, NEW S, NEW m, MachineOK(m, B, S), NEW x \in Index(B, S), List(m, x) # <<>>,
           NEW n \in Machines(B, S), QueueOK(n), Awake(n) = Awake(m) \cup {Head(List(m, x))},
           n.joining = m.joining, n.next = m.next, n.life = m.life, n.zappers = m.zappers,
           n.quits = m.quits,
           List(n, x) = Tail(List(m, x)),
           \A y \in Index(B, S) : y # x => List(n, y) = List(m, y)
    PROVE  MachineOK(n, B, S)
<1> DEFINE h == Head(List(m, x))
<1>1. List(m, x) \in Seq(Pids) /\ Distinct(List(m, x))
  BY ListsAreLists DEF MachineOK, Seated
<1>2. /\ h \in Pids /\ h \in Members(List(m, x))
      /\ Members(List(m, x)) = Members(List(n, x)) \cup {h}
      /\ Distinct(List(n, x)) /\ h \notin Members(List(n, x))
  <2>1. /\ h \in Pids /\ h \in Members(List(m, x)) /\ h = List(m, x)[1]
        /\ Members(List(m, x)) = Members(List(n, x)) \cup {h}
        /\ Len(List(m, x)) \in Nat \ {0} /\ Len(List(n, x)) = Len(List(m, x)) - 1
        /\ \A i \in 1 .. Len(List(m, x))-1 : List(n, x)[i] = List(m, x)[i+1]
    BY <1>1, TailMembers
  <2> QED
    BY <1>1, <2>1 DEF Distinct, Members
<1> HIDE DEF h
<1>3. \A y \in Index(B, S) :
        /\ Members(List(n, y)) \subseteq Members(List(m, y))
        /\ h \notin Members(List(n, y)) /\ Distinct(List(n, y))
  BY <1>2 DEF MachineOK, Seated
<1>4. h \notin m.joining /\ m.life[h] = "live"
  BY <1>2 DEF MachineOK, Seated, Known
<1>5. Awake(n) = Awake(m) \cup {h}
  BY DEF h
<1>6. Seated(n, B, S)
  BY <1>3, <1>4, <1>5 DEF MachineOK, Seated
<1>7. Known(n, B, S)
  BY <1>3, <1>4, <1>5 DEF MachineOK, Known
<1> QED
  BY <1>6, <1>7 DEF MachineOK

\* Nobody is anywhere else.
LEMMA Stays ==
    ASSUME NEW B, NEW S, NEW m, MachineOK(m, B, S),
           NEW n \in Machines(B, S), QueueOK(n), Awake(n) \subseteq Awake(m),
           n.joining = m.joining, n.next = m.next, n.life = m.life, n.zappers = m.zappers,
           n.quits = m.quits,
           \A y \in Index(B, S) : List(n, y) = List(m, y)
    PROVE  MachineOK(n, B, S)
<1>1. Seated(n, B, S)
  BY DEF MachineOK, Seated
<1>2. Known(n, B, S)
  BY DEF MachineOK, Known
<1> QED
  BY <1>1, <1>2 DEF MachineOK
-----------------------------------------------------------------------------
(***************************************************************************)
(* The calls.  Each leaves the machine in order, and what it does to a     *)
(* mailbox or a semaphore is the box or semaphore with one entry changed.  *)
(***************************************************************************)
SentBox(box, p) ==
    IF box.receivers # <<>> THEN [box EXCEPT !.receivers = Tail(@)]
    ELSE IF box.held < box.slots THEN [box EXCEPT !.held = @ + 1]
    ELSE [box EXCEPT !.senders = Append(@, p)]
CondSentBox(box) ==
    IF box.receivers # <<>> THEN [box EXCEPT !.receivers = Tail(@)]
    ELSE IF box.held < box.slots THEN [box EXCEPT !.held = @ + 1] ELSE box
ReceivedBox(box, p) ==
    IF box.held = 0 THEN [box EXCEPT !.receivers = Append(@, p)]
    ELSE IF box.senders = <<>> THEN [box EXCEPT !.held = @ - 1]
    ELSE [box EXCEPT !.senders = Tail(@)]

\* n is m but for the places of the processes.
SameProcesses(n, m) ==
    /\ n.next = m.next /\ n.prio = m.prio /\ n.life = m.life /\ n.parent = m.parent
    /\ n.code = m.code /\ n.quits = m.quits

SameButBox(n, m, b, box) ==
    /\ SameProcesses(n, m) /\ n.joining = m.joining /\ n.got = m.got
    /\ n.zappers = m.zappers /\ n.sem = m.sem
    /\ n.box = [m.box EXCEPT ![b] = box]

WithBox(m, b, box) == [m EXCEPT !.box = [@ EXCEPT ![b] = box]]

\* What a call makes of a box.
LEMMA CondSentBoxIs ==
    ASSUME NEW box \in BoxRec
    PROVE  LET new == CondSentBox(box)
           IN  /\ new \in BoxRec /\ new.slots = box.slots /\ new.senders = box.senders
               /\ new.held = IF box.receivers = <<>> /\ box.held < box.slots
                             THEN box.held + 1 ELSE box.held
               /\ new.receivers = IF box.receivers = <<>> THEN <<>> ELSE Tail(box.receivers)
<1>1. /\ box.held \in Nat /\ box.slots \in Nat /\ box.senders \in Seq(Pids)
      /\ box.receivers \in Seq(Pids)
  BY DEF BoxRec
<1>2. CASE box.receivers # <<>>
  <2>1. Tail(box.receivers) \in Seq(Pids)
    BY <1>1, <1>2, TailMembers
  <2> QED
    BY <1>2, <2>1 DEF CondSentBox, BoxRec
<1>3. CASE box.receivers = <<>>
  BY <1>1, <1>3 DEF CondSentBox, BoxRec
<1> QED
  BY <1>2, <1>3

LEMMA SentBoxIs ==
    ASSUME NEW box \in BoxRec, NEW p \in Pids
    PROVE  LET new == SentBox(box, p)
               full == box.receivers = <<>> /\ ~(box.held < box.slots)
           IN  /\ new \in BoxRec /\ new.slots = box.slots
               /\ new.senders = IF full THEN Append(box.senders, p) ELSE box.senders
               /\ new.held = IF box.receivers = <<>> /\ box.held < box.slots
                             THEN box.held + 1 ELSE box.held
               /\ new.receivers = IF box.receivers = <<>> THEN <<>> ELSE Tail(box.receivers)
<1>1. /\ box.held \in Nat /\ box.slots \in Nat /\ box.senders \in Seq(Pids)
      /\ box.receivers \in Seq(Pids)
  BY DEF BoxRec
<1>2. CASE box.receivers # <<>> \/ box.held < box.slots
  <2>1. SentBox(box, p) = CondSentBox(box)
    BY <1>2 DEF SentBox, CondSentBox
  <2> QED
    BY <1>1, <1>2, <2>1, CondSentBoxIs
<1>3. CASE ~(box.receivers # <<>> \/ box.held < box.slots)
  <2>1. Append(box.senders, p) \in Seq(Pids)
    BY <1>1, AppendProperties
  <2> QED
    BY <1>1, <1>3, <2>1 DEF SentBox, BoxRec
<1> QED
  BY <1>2, <1>3

LEMMA ReceivedBoxIs ==
    ASSUME NEW box \in BoxRec, NEW p \in Pids
    PROVE  LET new == ReceivedBox(box, p)
           IN  /\ new \in BoxRec /\ new.slots = box.slots
               /\ new.senders = IF box.held = 0 \/ box.senders = <<>> THEN box.senders
                                ELSE Tail(box.senders)
               /\ new.held = IF box.held = 0 \/ box.senders # <<>> THEN box.held
                             ELSE box.held - 1
               /\ new.receivers = IF box.held = 0 THEN Append(box.receivers, p)
                                  ELSE box.receivers
<1>1. /\ box.held \in Nat /\ box.slots \in Nat /\ box.senders \in Seq(Pids)
      /\ box.receivers \in Seq(Pids)
  BY DEF BoxRec
<1>2. CASE box.held = 0
  <2>1. Append(box.receivers, p) \in Seq(Pids)
    BY <1>1, AppendProperties
  <2> QED
    BY <1>1, <1>2, <2>1 DEF ReceivedBox, BoxRec
<1>3. CASE box.held # 0 /\ box.senders = <<>>
  BY <1>1, <1>3 DEF ReceivedBox, BoxRec
<1>4. CASE box.held # 0 /\ box.senders # <<>>
  <2>1. Tail(box.senders) \in Seq(Pids)
    BY <1>1, <1>4, TailMembers
  <2> QED
    BY <1>1, <1>4, <2>1 DEF ReceivedBox, BoxRec
<1> QED
  BY <1>2, <1>3, <1>4

\* A machine with another box b.
LEMMA BoxChanges ==
    ASSUME NEW B, NEW S, NEW m \in Machines(B, S), NEW b \in B, NEW box \in BoxRec
    PROVE  LET n == WithBox(m, b, box)
           IN  /\ n \in Machines(B, S) /\ SameButBox(n, m, b, box)
               /\ n.cur = m.cur /\ n.ready = m.ready
<1> DEFINE n == WithBox(m, b, box)
<1> USE DEF WithBox
<1>1. [m.box EXCEPT ![b] = box] \in [B -> BoxRec]
  <2>1. m.box \in [B -> BoxRec]
    BY DEF Machines
  <2> HIDE DEF BoxRec
  <2> QED
    BY <2>1
<1>2. n \in Machines(B, S)
  <2> HIDE DEF BoxRec
  <2> QED
    BY <1>1 DEF Machines
<1>3. /\ n.box = [m.box EXCEPT ![b] = box] /\ n.cur = m.cur /\ n.ready = m.ready
      /\ n.joining = m.joining /\ n.got = m.got /\ n.zappers = m.zappers /\ n.sem = m.sem
      /\ SameProcesses(n, m)
  BY DEF Machines, SameProcesses
<1> QED
  BY <1>2, <1>3 DEF SameButBox

\* The lists of a machine with another box b.
OtherLists(n, m, b, box, B, S) ==
    /\ <<"senders", b>> \in Index(B, S) /\ <<"receivers", b>> \in Index(B, S)
    /\ List(n, <<"senders", b>>) = box.senders
    /\ List(m, <<"senders", b>>) = m.box[b].senders
    /\ List(n, <<"receivers", b>>) = box.receivers
    /\ List(m, <<"receivers", b>>) = m.box[b].receivers
    /\ \A y \in Index(B, S) : y # <<"senders", b>> /\ y # <<"receivers", b>> =>
          List(n, y) = List(m, y)

LEMMA BoxLists ==
    ASSUME NEW B, NEW S, NEW m \in Machines(B, S), NEW b \in B, NEW box \in BoxRec,
           NEW n \in Machines(B, S), SameButBox(n, m, b, box)
    PROVE  OtherLists(n, m, b, box, B, S)
<1>1. m.box \in [B -> BoxRec] /\ n.box = [m.box EXCEPT ![b] = box]
  BY DEF Machines, SameButBox
<1>2. n.box[b] = box /\ \A c \in B : c # b => n.box[c] = m.box[c]
  BY <1>1
<1>3. <<"senders", b>> \in Index(B, S) /\ <<"receivers", b>> \in Index(B, S)
  BY DEF Index
<1>4. /\ List(n, <<"senders", b>>) = box.senders
      /\ List(m, <<"senders", b>>) = m.box[b].senders
      /\ List(n, <<"receivers", b>>) = box.receivers
      /\ List(m, <<"receivers", b>>) = m.box[b].receivers
  BY <1>2 DEF List
<1>5. ASSUME NEW y \in Index(B, S), y # <<"senders", b>>, y # <<"receivers", b>>
      PROVE  List(n, y) = List(m, y)
  <2>1. CASE y \in {"senders", "receivers"} \X B
    <3>1. y[2] \in B /\ y[2] # b
      BY <1>5, <2>1
    <3>2. n.box[y[2]] = m.box[y[2]]
      BY <3>1, <1>2
    <3> QED
      BY <2>1, <3>2 DEF List
  <2>2. CASE y \in {"waiting"} \X S
    BY <2>2 DEF List, SameButBox
  <2>3. CASE y \in {"zappers"} \X Pids
    BY <2>3 DEF List, SameButBox, SameProcesses
  <2> QED
    BY <2>1, <2>2, <2>3 DEF Index
<1> QED
  BY <1>3, <1>4, <1>5 DEF OtherLists

\* Whoever is put at the end of a list of box b, or taken from its front.
LEMMA BoxBlocks ==
    ASSUME NEW B, NEW S, NEW m, MachineOK(m, B, S), m.cur # IDLE, NEW b \in B,
           NEW box \in BoxRec,
           \/ /\ box.senders = Append(m.box[b].senders, m.cur)
              /\ box.receivers = m.box[b].receivers
           \/ /\ box.receivers = Append(m.box[b].receivers, m.cur)
              /\ box.senders = m.box[b].senders
    PROVE  LET n == Yielded(WithBox(m, b, box))
           IN  MachineOK(n, B, S) /\ SameButBox(n, m, b, box) /\ Awake(n) = Awake(m) \ {m.cur}
<1> DEFINE w == WithBox(m, b, box)
           n == Yielded(w)
<1>1. m \in Machines(B, S) /\ QueueOK(m)
  BY DEF MachineOK
<1>2. /\ w \in Machines(B, S) /\ SameButBox(w, m, b, box) /\ w.cur = m.cur /\ w.ready = m.ready
  BY <1>1, BoxChanges
<1> HIDE DEF w
<1>3. QueueOK(w) /\ Awake(w) = Awake(m)
  BY <1>1, <1>2 DEF QueueOK, Awake
<1>4. /\ n \in Machines(B, S) /\ SameButQueue(n, w) /\ QueueOK(n)
      /\ Awake(n) = Awake(m) \ {m.cur}
  BY <1>2, <1>3, YieldedKeeps
<1> HIDE DEF n
<1>5. SameButBox(n, m, b, box)
  BY <1>2, <1>4 DEF SameButBox, SameButQueue, SameProcesses
<1>6. /\ <<"senders", b>> \in Index(B, S) /\ <<"receivers", b>> \in Index(B, S)
      /\ List(n, <<"senders", b>>) = box.senders
      /\ List(m, <<"senders", b>>) = m.box[b].senders
      /\ List(n, <<"receivers", b>>) = box.receivers
      /\ List(m, <<"receivers", b>>) = m.box[b].receivers
      /\ \A y \in Index(B, S) : y # <<"senders", b>> /\ y # <<"receivers", b>> =>
            List(n, y) = List(m, y)
  <2>1. OtherLists(n, m, b, box, B, S)
    BY <1>1, <1>4, <1>5, BoxLists
  <2> QED
    BY <2>1 DEF OtherLists
<1>7. /\ n.joining = m.joining /\ n.next = m.next /\ n.life = m.life /\ n.zappers = m.zappers
      /\ n.quits = m.quits
  BY <1>5 DEF SameButBox, SameProcesses
<1>8. \A p \in Pids : p >= m.next => n.zappers[p] = <<>>
  BY <1>7 DEF MachineOK, Known
<1>9. CASE /\ box.senders = Append(m.box[b].senders, m.cur)
           /\ box.receivers = m.box[b].receivers
  <2>1. List(n, <<"senders", b>>) = Append(List(m, <<"senders", b>>), m.cur)
    BY <1>9, <1>6
  <2>2. \A y \in Index(B, S) : y # <<"senders", b>> => List(n, y) = List(m, y)
    BY <1>9, <1>6
  <2>3. MachineOK(n, B, S)
    BY <1>4, <1>6, <1>7, <1>8, <2>1, <2>2, Blocks
  <2> QED
    BY <2>3, <1>4, <1>5 DEF n, w
<1>10. CASE /\ box.receivers = Append(m.box[b].receivers, m.cur)
            /\ box.senders = m.box[b].senders
  <2>1. List(n, <<"receivers", b>>) = Append(List(m, <<"receivers", b>>), m.cur)
    BY <1>10, <1>6
  <2>2. \A y \in Index(B, S) : y # <<"receivers", b>> => List(n, y) = List(m, y)
    BY <1>10, <1>6
  <2>3. MachineOK(n, B, S)
    BY <1>4, <1>6, <1>7, <1>8, <2>1, <2>2, Blocks
  <2> QED
    BY <2>3, <1>4, <1>5 DEF n, w
<1> QED
  BY <1>9, <1>10

LEMMA SenderWakes ==
    ASSUME NEW B, NEW S, NEW m, MachineOK(m, B, S), NEW b \in B, NEW box \in BoxRec,
           m.box[b].senders # <<>>, box.senders = Tail(m.box[b].senders),
           box.receivers = m.box[b].receivers
    PROVE  LET h == Head(m.box[b].senders)
               n == Unblocked(WithBox(m, b, box), h)
           IN  /\ MachineOK(n, B, S) /\ SameButBox(n, m, b, box)
               /\ Awake(n) = Awake(m) \cup {h}
<1> DEFINE x == <<"senders", b>>
           h == Head(m.box[b].senders)
           w == WithBox(m, b, box)
           n == Unblocked(w, h)
<1>1. m \in Machines(B, S) /\ QueueOK(m)
  BY DEF MachineOK
<1>2. /\ w \in Machines(B, S) /\ SameButBox(w, m, b, box) /\ w.cur = m.cur /\ w.ready = m.ready
  BY <1>1, BoxChanges
<1> HIDE DEF w
<1>3. QueueOK(w) /\ Awake(w) = Awake(m)
  BY <1>1, <1>2 DEF QueueOK, Awake
<1>4. x \in Index(B, S) /\ List(m, x) = m.box[b].senders
  BY DEF Index, List
<1>5. h \in Pids \ Awake(m)
  <2>1. List(m, x) \in Seq(Pids)
    BY <1>1, <1>4, ListsAreLists
  <2>2. h \in Pids /\ h \in Members(List(m, x))
    BY <1>4, <2>1, TailMembers
  <2> QED
    BY <1>4, <2>2 DEF MachineOK, Seated
<1>6. h = Head(List(m, x))
  BY <1>4
<1> HIDE DEF h
<1>7. /\ n \in Machines(B, S) /\ SameButQueue(n, w) /\ QueueOK(n)
      /\ Awake(n) = Awake(m) \cup {h}
  BY <1>2, <1>3, <1>5, UnblockedKeeps
<1> HIDE DEF n, x
<1>8. SameButBox(n, m, b, box)
  BY <1>2, <1>7 DEF SameButBox, SameButQueue, SameProcesses
<1>9. /\ <<"senders", b>> \in Index(B, S) /\ <<"receivers", b>> \in Index(B, S)
      /\ List(n, <<"senders", b>>) = box.senders
      /\ List(m, <<"senders", b>>) = m.box[b].senders
      /\ List(n, <<"receivers", b>>) = box.receivers
      /\ List(m, <<"receivers", b>>) = m.box[b].receivers
      /\ \A y \in Index(B, S) : y # <<"senders", b>> /\ y # <<"receivers", b>> =>
            List(n, y) = List(m, y)
  <2>1. OtherLists(n, m, b, box, B, S)
    BY <1>1, <1>7, <1>8, BoxLists
  <2> QED
    BY <2>1 DEF OtherLists
<1> USE DEF x
<1>10. /\ List(n, x) = Tail(List(m, x))
       /\ \A y \in Index(B, S) : y # x => List(n, y) = List(m, y)
  BY <1>4, <1>9
<1>11. /\ n.joining = m.joining /\ n.next = m.next /\ n.life = m.life /\ n.zappers = m.zappers
       /\ n.quits = m.quits
  BY <1>8 DEF SameButBox, SameProcesses
<1> HIDE DEF x
<1>12. List(m, x) # <<>> /\ Awake(n) = Awake(m) \cup {Head(List(m, x))}
  BY <1>4, <1>6, <1>7
<1>13. MachineOK(n, B, S)
  BY <1>4, <1>7, <1>10, <1>11, <1>12, Wakes
<1> QED
  BY <1>7, <1>8, <1>13 DEF n, w, h

LEMMA ReceiverWakes ==
    ASSUME NEW B, NEW S, NEW m, MachineOK(m, B, S), NEW b \in B, NEW box \in BoxRec,
           m.box[b].receivers # <<>>, box.receivers = Tail(m.box[b].receivers),
           box.senders = m.box[b].senders
    PROVE  LET h == Head(m.box[b].receivers)
               n == Unblocked(WithBox(m, b, box), h)
           IN  /\ MachineOK(n, B, S) /\ SameButBox(n, m, b, box)
               /\ Awake(n) = Awake(m) \cup {h}
<1> DEFINE x == <<"receivers", b>>
           h == Head(m.box[b].receivers)
           w == WithBox(m, b, box)
           n == Unblocked(w, h)
<1>1. m \in Machines(B, S) /\ QueueOK(m)
  BY DEF MachineOK
<1>2. /\ w \in Machines(B, S) /\ SameButBox(w, m, b, box) /\ w.cur = m.cur /\ w.ready = m.ready
  BY <1>1, BoxChanges
<1> HIDE DEF w
<1>3. QueueOK(w) /\ Awake(w) = Awake(m)
  BY <1>1, <1>2 DEF QueueOK, Awake
<1>4. x \in Index(B, S) /\ List(m, x) = m.box[b].receivers
  BY DEF Index, List
<1>5. h \in Pids \ Awake(m)
  <2>1. List(m, x) \in Seq(Pids)
    BY <1>1, <1>4, ListsAreLists
  <2>2. h \in Pids /\ h \in Members(List(m, x))
    BY <1>4, <2>1, TailMembers
  <2> QED
    BY <1>4, <2>2 DEF MachineOK, Seated
<1>6. h = Head(List(m, x))
  BY <1>4
<1> HIDE DEF h
<1>7. /\ n \in Machines(B, S) /\ SameButQueue(n, w) /\ QueueOK(n)
      /\ Awake(n) = Awake(m) \cup {h}
  BY <1>2, <1>3, <1>5, UnblockedKeeps
<1> HIDE DEF n, x
<1>8. SameButBox(n, m, b, box)
  BY <1>2, <1>7 DEF SameButBox, SameButQueue, SameProcesses
<1>9. /\ <<"senders", b>> \in Index(B, S) /\ <<"receivers", b>> \in Index(B, S)
      /\ List(n, <<"senders", b>>) = box.senders
      /\ List(m, <<"senders", b>>) = m.box[b].senders
      /\ List(n, <<"receivers", b>>) = box.receivers
      /\ List(m, <<"receivers", b>>) = m.box[b].receivers
      /\ \A y \in Index(B, S) : y # <<"senders", b>> /\ y # <<"receivers", b>> =>
            List(n, y) = List(m, y)
  <2>1. OtherLists(n, m, b, box, B, S)
    BY <1>1, <1>7, <1>8, BoxLists
  <2> QED
    BY <2>1 DEF OtherLists
<1> USE DEF x
<1>10. /\ List(n, x) = Tail(List(m, x))
       /\ \A y \in Index(B, S) : y # x => List(n, y) = List(m, y)
  BY <1>4, <1>9
<1>11. /\ n.joining = m.joining /\ n.next = m.next /\ n.life = m.life /\ n.zappers = m.zappers
       /\ n.quits = m.quits
  BY <1>8 DEF SameButBox, SameProcesses
<1> HIDE DEF x
<1>12. List(m, x) # <<>> /\ Awake(n) = Awake(m) \cup {Head(List(m, x))}
  BY <1>4, <1>6, <1>7
<1>13. MachineOK(n, B, S)
  BY <1>4, <1>7, <1>10, <1>11, <1>12, Wakes
<1> QED
  BY <1>7, <1>8, <1>13 DEF n, w, h

\* Only the messages held in a box are others.
LEMMA BoxHolds ==
    ASSUME NEW B, NEW S, NEW m, MachineOK(m, B, S), NEW b \in B, NEW box \in BoxRec,
           box.senders = m.box[b].senders, box.receivers = m.box[b].receivers
    PROVE  LET n == WithBox(m, b, box)
           IN  MachineOK(n, B, S) /\ SameButBox(n, m, b, box) /\ Awake(n) = Awake(m)
<1> DEFINE w == WithBox(m, b, box)
<1>1. m \in Machines(B, S) /\ QueueOK(m)
  BY DEF MachineOK
<1>2. /\ w \in Machines(B, S) /\ SameButBox(w, m, b, box) /\ w.cur = m.cur /\ w.ready = m.ready
  BY <1>1, BoxChanges
<1> HIDE DEF w
<1>3. QueueOK(w) /\ Awake(w) = Awake(m)
  BY <1>1, <1>2 DEF QueueOK, Awake
<1>4. /\ List(w, <<"senders", b>>) = box.senders
      /\ List(m, <<"senders", b>>) = m.box[b].senders
      /\ List(w, <<"receivers", b>>) = box.receivers
      /\ List(m, <<"receivers", b>>) = m.box[b].receivers
      /\ \A y \in Index(B, S) : y # <<"senders", b>> /\ y # <<"receivers", b>> =>
            List(w, y) = List(m, y)
  <2>1. OtherLists(w, m, b, box, B, S)
    BY <1>1, <1>2, BoxLists
  <2> QED
    BY <2>1 DEF OtherLists
<1>5. \A y \in Index(B, S) : List(w, y) = List(m, y)
  BY <1>4
<1>6. MachineOK(w, B, S)
  BY <1>2, <1>3, <1>5, Stays DEF SameButBox, SameProcesses
<1> QED
  BY <1>2, <1>3, <1>6 DEF w

LEMMA CondSentKeeps ==
    ASSUME NEW B, NEW S, NEW m, MachineOK(m, B, S), NEW b \in B
    PROVE  LET n == CondSent(m, b)
           IN  /\ MachineOK(n, B, S) /\ SameButBox(n, m, b, CondSentBox(m.box[b]))
               /\ Awake(n) = Awake(m) \cup (IF m.box[b].receivers = <<>> THEN {}
                                            ELSE {Head(m.box[b].receivers)})
<1>1. m \in Machines(B, S) /\ m.box[b] \in BoxRec
  BY DEF MachineOK, Machines
<1> DEFINE box == CondSentBox(m.box[b])
<1>2. /\ box \in BoxRec /\ box.senders = m.box[b].senders
      /\ box.receivers = IF m.box[b].receivers = <<>> THEN <<>> ELSE Tail(m.box[b].receivers)
  BY <1>1, CondSentBoxIs
<1>3. CASE m.box[b].receivers # <<>>
  <2>1. CondSent(m, b) = Unblocked(WithBox(m, b, box), Head(m.box[b].receivers))
    BY <1>3 DEF CondSent, CondSentBox, WithBox
  <2> HIDE DEF box
  <2> QED
    BY <1>2, <1>3, <2>1, ReceiverWakes DEF box
<1>4. CASE m.box[b].receivers = <<>> /\ m.box[b].held < m.box[b].slots
  <2>1. CondSent(m, b) = WithBox(m, b, box)
    BY <1>4 DEF CondSent, CondSentBox, WithBox
  <2> HIDE DEF box
  <2> QED
    BY <1>2, <1>4, <2>1, BoxHolds DEF box
<1>5. CASE m.box[b].receivers = <<>> /\ ~(m.box[b].held < m.box[b].slots)
  <2>1. CondSent(m, b) = m /\ box = m.box[b]
    BY <1>5 DEF CondSent, CondSentBox
  <2>2. m.box = [m.box EXCEPT ![b] = m.box[b]]
    BY <1>1 DEF Machines
  <2> QED
    BY <1>5, <2>1, <2>2 DEF SameButBox, SameProcesses
<1> QED
  BY <1>3, <1>4, <1>5

LEMMA SentKeeps ==
    ASSUME NEW B, NEW S, NEW m, MachineOK(m, B, S), m.cur # IDLE, NEW b \in B
    PROVE  LET n == Sent(m, b)
           IN  MachineOK(n, B, S) /\ SameButBox(n, m, b, SentBox(m.box[b], m.cur))
<1>1. m \in Machines(B, S) /\ m.box[b] \in BoxRec /\ m.cur \in Pids
  BY DEF MachineOK, Machines
<1>2. CASE m.box[b].receivers # <<>> \/ m.box[b].held < m.box[b].slots
  <2>1. Sent(m, b) = CondSent(m, b)
    BY <1>2 DEF Sent
  <2>2. SentBox(m.box[b], m.cur) = CondSentBox(m.box[b])
    BY <1>2 DEF SentBox, CondSentBox
  <2> QED
    BY <2>1, <2>2, CondSentKeeps
<1>3. CASE m.box[b].receivers = <<>> /\ ~(m.box[b].held < m.box[b].slots)
  <2> DEFINE box == SentBox(m.box[b], m.cur)
  <2>1. /\ box \in BoxRec /\ box.senders = Append(m.box[b].senders, m.cur)
        /\ box.receivers = m.box[b].receivers
    <3>1. m.box[b].held \in Nat /\ m.box[b].slots \in Nat
      BY <1>1 DEF BoxRec
    <3> QED
      BY <1>1, <1>3, <3>1, SentBoxIs
  <2>2. Sent(m, b) = Yielded(WithBox(m, b, box))
    BY <1>3 DEF Sent, SentBox, WithBox
  <2> HIDE DEF box
  <2> QED
    BY <2>1, <2>2, BoxBlocks DEF box
<1> QED
  BY <1>2, <1>3

LEMMA ReceivedKeeps ==
    ASSUME NEW B, NEW S, NEW m, MachineOK(m, B, S), m.cur # IDLE, NEW b \in B
    PROVE  LET n == Received(m, b)
           IN  MachineOK(n, B, S) /\ SameButBox(n, m, b, ReceivedBox(m.box[b], m.cur))
<1>1. m \in Machines(B, S) /\ m.box[b] \in BoxRec /\ m.cur \in Pids
  BY DEF MachineOK, Machines
<1> DEFINE box == ReceivedBox(m.box[b], m.cur)
<1>2. /\ box \in BoxRec
      /\ box.senders = IF m.box[b].held = 0 \/ m.box[b].senders = <<>> THEN m.box[b].senders
                       ELSE Tail(m.box[b].senders)
      /\ box.receivers = IF m.box[b].held = 0 THEN Append(m.box[b].receivers, m.cur)
                         ELSE m.box[b].receivers
  BY <1>1, ReceivedBoxIs
<1>3. CASE m.box[b].held = 0
  <2>1. Received(m, b) = Yielded(WithBox(m, b, box))
    BY <1>3 DEF Received, ReceivedBox, WithBox
  <2> HIDE DEF box
  <2> QED
    BY <1>2, <1>3, <2>1, BoxBlocks DEF box
<1>4. CASE m.box[b].held # 0 /\ m.box[b].senders = <<>>
  <2>1. Received(m, b) = WithBox(m, b, box)
    BY <1>4 DEF Received, ReceivedBox, WithBox
  <2> HIDE DEF box
  <2> QED
    BY <1>2, <1>4, <2>1, BoxHolds DEF box
<1>5. CASE m.box[b].held # 0 /\ m.box[b].senders # <<>>
  <2>1. Received(m, b) = Unblocked(WithBox(m, b, box), Head(m.box[b].senders))
    BY <1>5 DEF Received, ReceivedBox, WithBox
  <2> HIDE DEF box
  <2> QED
    BY <1>2, <1>5, <2>1, SenderWakes DEF box
<1> QED
  BY <1>3, <1>4, <1>5

\* A time slice changes who runs only.
LEMMA SlicedIsOK ==
    ASSUME NEW B, NEW S, NEW m, MachineOK(m, B, S), HasEqual(m)
    PROVE  /\ MachineOK(Sliced(m), B, S) /\ SameButQueue(Sliced(m), m)
           /\ Awake(Sliced(m)) = Awake(m)
<1> DEFINE n == Sliced(m)
<1>1. n \in Machines(B, S) /\ SameButQueue(n, m) /\ QueueOK(n) /\ Awake(n) = Awake(m)
  BY SlicedKeeps DEF MachineOK
<1> HIDE DEF n
<1>2. \A y \in Index(B, S) : List(n, y) = List(m, y)
  BY <1>1 DEF SameButQueue, List
<1>3. MachineOK(n, B, S)
  BY <1>1, <1>2, Stays DEF SameButQueue
<1> QED
  BY <1>1, <1>3 DEF n
-----------------------------------------------------------------------------
(***************************************************************************)
(* Semaphores.                                                             *)
(***************************************************************************)
SameButSem(n, m) ==
    /\ SameProcesses(n, m) /\ n.joining = m.joining /\ n.got = m.got
    /\ n.zappers = m.zappers /\ n.box = m.box

WithSem(m, s, sem) == [m EXCEPT !.sem = [@ EXCEPT ![s] = sem]]

LEMMA SemChanges ==
    ASSUME NEW B, NEW S, NEW m \in Machines(B, S), NEW s \in S, NEW sem \in SemRec
    PROVE  LET n == WithSem(m, s, sem)
           IN  /\ n \in Machines(B, S) /\ SameButSem(n, m) /\ n.cur = m.cur /\ n.ready = m.ready
               /\ n.sem = [m.sem EXCEPT ![s] = sem]
<1> DEFINE n == WithSem(m, s, sem)
<1> USE DEF WithSem
<1>1. [m.sem EXCEPT ![s] = sem] \in [S -> SemRec]
  <2>1. m.sem \in [S -> SemRec]
    BY DEF Machines
  <2> HIDE DEF SemRec
  <2> QED
    BY <2>1
<1>2. n \in Machines(B, S)
  <2> HIDE DEF SemRec
  <2> QED
    BY <1>1 DEF Machines
<1>3. /\ n.sem = [m.sem EXCEPT ![s] = sem] /\ n.cur = m.cur /\ n.ready = m.ready
      /\ n.joining = m.joining /\ n.got = m.got /\ n.zappers = m.zappers /\ n.box = m.box
      /\ SameProcesses(n, m)
  BY DEF Machines, SameProcesses
<1> QED
  BY <1>2, <1>3 DEF SameButSem

\* The lists of a machine with another semaphore s.
OtherWaiting(n, m, s, sem, B, S) ==
    /\ <<"waiting", s>> \in Index(B, S)
    /\ List(n, <<"waiting", s>>) = sem.waiting
    /\ List(m, <<"waiting", s>>) = m.sem[s].waiting
    /\ \A y \in Index(B, S) : y # <<"waiting", s>> => List(n, y) = List(m, y)

LEMMA SemLists ==
    ASSUME NEW B, NEW S, NEW m \in Machines(B, S), NEW s \in S, NEW sem \in SemRec,
           NEW n \in Machines(B, S), SameButSem(n, m), n.sem = [m.sem EXCEPT ![s] = sem]
    PROVE  OtherWaiting(n, m, s, sem, B, S)
<1>1. m.sem \in [S -> SemRec]
  BY DEF Machines
<1>2. n.sem[s] = sem /\ \A t \in S : t # s => n.sem[t] = m.sem[t]
  BY <1>1
<1>3. <<"waiting", s>> \in Index(B, S)
  BY DEF Index
<1>4. /\ List(n, <<"waiting", s>>) = sem.waiting
      /\ List(m, <<"waiting", s>>) = m.sem[s].waiting
  BY <1>2 DEF List
<1>5. ASSUME NEW y \in Index(B, S), y # <<"waiting", s>>
      PROVE  List(n, y) = List(m, y)
  <2>1. CASE y \in {"senders", "receivers"} \X B
    BY <2>1 DEF List, SameButSem
  <2>2. CASE y \in {"waiting"} \X S
    <3>1. y[2] \in S /\ y[2] # s
      BY <1>5, <2>2
    <3>2. n.sem[y[2]] = m.sem[y[2]]
      BY <3>1, <1>2
    <3> QED
      BY <2>2, <3>2 DEF List
  <2>3. CASE y \in {"zappers"} \X Pids
    BY <2>3 DEF List, SameButSem, SameProcesses
  <2> QED
    BY <2>1, <2>2, <2>3 DEF Index
<1> QED
  BY <1>3, <1>4, <1>5 DEF OtherWaiting

LEMMA SemPedKeeps ==
    ASSUME NEW B, NEW S, NEW m, MachineOK(m, B, S), m.cur # IDLE, NEW s \in S
    PROVE  MachineOK(SemPed(m, s), B, S) /\ SameButSem(SemPed(m, s), m)
<1>1. m \in Machines(B, S) /\ QueueOK(m) /\ m.sem[s] \in SemRec /\ m.cur \in Pids
  BY DEF MachineOK, Machines
<1>2. m.sem[s].count \in Int /\ m.sem[s].waiting \in Seq(Pids)
  BY <1>1 DEF SemRec
<1>3. CASE m.sem[s].count > 0
  <2> DEFINE sem == [m.sem[s] EXCEPT !.count = @ - 1]
             w == WithSem(m, s, sem)
  <2>1. sem \in SemRec /\ sem.waiting = m.sem[s].waiting
    BY <1>1, <1>2 DEF SemRec
  <2>2. SemPed(m, s) = w
    BY <1>3 DEF SemPed, WithSem
  <2> HIDE DEF sem
  <2>3. /\ w \in Machines(B, S) /\ SameButSem(w, m) /\ w.cur = m.cur /\ w.ready = m.ready
        /\ w.sem = [m.sem EXCEPT ![s] = sem]
    BY <1>1, <2>1, SemChanges
  <2> HIDE DEF w
  <2>4. QueueOK(w) /\ Awake(w) = Awake(m)
    BY <1>1, <2>3 DEF QueueOK, Awake
  <2>5. OtherWaiting(w, m, s, sem, B, S)
    BY <1>1, <2>1, <2>3, SemLists
  <2>6. \A y \in Index(B, S) : List(w, y) = List(m, y)
    BY <2>1, <2>5 DEF OtherWaiting
  <2>7. MachineOK(w, B, S)
    BY <2>3, <2>4, <2>6, Stays DEF SameButSem, SameProcesses
  <2> QED
    BY <2>2, <2>3, <2>7
<1>4. CASE ~(m.sem[s].count > 0)
  <2> DEFINE sem == [m.sem[s] EXCEPT !.waiting = Append(@, m.cur)]
             w == WithSem(m, s, sem)
             n == Yielded(w)
             x == <<"waiting", s>>
  <2>1. sem \in SemRec /\ sem.waiting = Append(m.sem[s].waiting, m.cur)
    <3>1. Append(m.sem[s].waiting, m.cur) \in Seq(Pids)
      BY <1>1, <1>2, AppendProperties
    <3> QED
      BY <1>1, <1>2, <3>1 DEF SemRec
  <2>2. SemPed(m, s) = n
    BY <1>4 DEF SemPed, WithSem
  <2> HIDE DEF sem
  <2>3. /\ w \in Machines(B, S) /\ SameButSem(w, m) /\ w.cur = m.cur /\ w.ready = m.ready
        /\ w.sem = [m.sem EXCEPT ![s] = sem]
    BY <1>1, <2>1, SemChanges
  <2> HIDE DEF w
  <2>4. QueueOK(w) /\ Awake(w) = Awake(m)
    BY <1>1, <2>3 DEF QueueOK, Awake
  <2>5. /\ n \in Machines(B, S) /\ SameButQueue(n, w) /\ QueueOK(n)
        /\ Awake(n) = Awake(m) \ {m.cur}
    BY <2>3, <2>4, YieldedKeeps
  <2> HIDE DEF n
  <2>6. SameButSem(n, m) /\ n.sem = [m.sem EXCEPT ![s] = sem]
    BY <2>3, <2>5 DEF SameButSem, SameButQueue, SameProcesses
  <2>7. OtherWaiting(n, m, s, sem, B, S)
    BY <1>1, <2>1, <2>5, <2>6, SemLists
  <2>8. /\ x \in Index(B, S) /\ List(n, x) = Append(List(m, x), m.cur)
        /\ \A y \in Index(B, S) : y # x => List(n, y) = List(m, y)
    BY <2>1, <2>7 DEF OtherWaiting
  <2> HIDE DEF x
  <2>9. /\ n.joining = m.joining /\ n.next = m.next /\ n.life = m.life /\ n.zappers = m.zappers
        /\ n.quits = m.quits
    BY <2>6 DEF SameButSem, SameProcesses
  <2>10. \A p \in Pids : p >= m.next => n.zappers[p] = <<>>
    BY <2>9 DEF MachineOK, Known
  <2>11. MachineOK(n, B, S)
    BY <2>5, <2>8, <2>9, <2>10, Blocks
  <2> QED
    BY <2>2, <2>6, <2>11
<1> QED
  BY <1>3, <1>4

LEMMA SemVedKeeps ==
    ASSUME NEW B, NEW S, NEW m, MachineOK(m, B, S), NEW s \in S
    PROVE  MachineOK(SemVed(m, s), B, S) /\ SameButSem(SemVed(m, s), m)
<1>1. m \in Machines(B, S) /\ QueueOK(m) /\ m.sem[s] \in SemRec
  BY DEF MachineOK, Machines
<1>2. m.sem[s].count \in Int /\ m.sem[s].waiting \in Seq(Pids)
  BY <1>1 DEF SemRec
<1>3. CASE m.sem[s].waiting = <<>>
  <2> DEFINE sem == [m.sem[s] EXCEPT !.count = @ + 1]
             w == WithSem(m, s, sem)
  <2>1. sem \in SemRec /\ sem.waiting = m.sem[s].waiting
    BY <1>1, <1>2 DEF SemRec
  <2>2. SemVed(m, s) = w
    BY <1>3 DEF SemVed, WithSem
  <2> HIDE DEF sem
  <2>3. /\ w \in Machines(B, S) /\ SameButSem(w, m) /\ w.cur = m.cur /\ w.ready = m.ready
        /\ w.sem = [m.sem EXCEPT ![s] = sem]
    BY <1>1, <2>1, SemChanges
  <2> HIDE DEF w
  <2>4. QueueOK(w) /\ Awake(w) = Awake(m)
    BY <1>1, <2>3 DEF QueueOK, Awake
  <2>5. OtherWaiting(w, m, s, sem, B, S)
    BY <1>1, <2>1, <2>3, SemLists
  <2>6. \A y \in Index(B, S) : List(w, y) = List(m, y)
    BY <2>1, <2>5 DEF OtherWaiting
  <2>7. MachineOK(w, B, S)
    BY <2>3, <2>4, <2>6, Stays DEF SameButSem, SameProcesses
  <2> QED
    BY <2>2, <2>3, <2>7
<1>4. CASE m.sem[s].waiting # <<>>
  <2> DEFINE sem == [m.sem[s] EXCEPT !.waiting = Tail(@)]
             h == Head(m.sem[s].waiting)
             w == WithSem(m, s, sem)
             n == Unblocked(w, h)
             x == <<"waiting", s>>
  <2>1. sem \in SemRec /\ sem.waiting = Tail(m.sem[s].waiting)
    <3>1. Tail(m.sem[s].waiting) \in Seq(Pids)
      BY <1>2, <1>4, TailMembers
    <3> QED
      BY <1>1, <1>2, <3>1 DEF SemRec
  <2>2. SemVed(m, s) = n
    BY <1>4 DEF SemVed, WithSem
  <2> HIDE DEF sem
  <2>3. /\ w \in Machines(B, S) /\ SameButSem(w, m) /\ w.cur = m.cur /\ w.ready = m.ready
        /\ w.sem = [m.sem EXCEPT ![s] = sem]
    BY <1>1, <2>1, SemChanges
  <2> HIDE DEF w
  <2>4. QueueOK(w) /\ Awake(w) = Awake(m)
    BY <1>1, <2>3 DEF QueueOK, Awake
  <2>5. x \in Index(B, S) /\ List(m, x) = m.sem[s].waiting
    BY DEF Index, List
  <2>6. h \in Pids \ Awake(m) /\ h = Head(List(m, x))
    <3>1. h \in Pids /\ h \in Members(List(m, x))
      BY <1>2, <1>4, <2>5, TailMembers
    <3> QED
      BY <2>5, <3>1 DEF MachineOK, Seated
  <2> HIDE DEF h
  <2>7. /\ n \in Machines(B, S) /\ SameButQueue(n, w) /\ QueueOK(n)
        /\ Awake(n) = Awake(m) \cup {h}
    BY <2>3, <2>4, <2>6, UnblockedKeeps
  <2> HIDE DEF n
  <2>8. SameButSem(n, m) /\ n.sem = [m.sem EXCEPT ![s] = sem]
    BY <2>3, <2>7 DEF SameButSem, SameButQueue, SameProcesses
  <2>9. OtherWaiting(n, m, s, sem, B, S)
    BY <1>1, <2>1, <2>7, <2>8, SemLists
  <2>10. /\ x \in Index(B, S) /\ List(m, x) # <<>> /\ List(n, x) = Tail(List(m, x))
         /\ \A y \in Index(B, S) : y # x => List(n, y) = List(m, y)
    BY <1>4, <2>1, <2>9 DEF OtherWaiting
  <2> HIDE DEF x
  <2>11. /\ n.joining = m.joining /\ n.next = m.next /\ n.life = m.life
         /\ n.zappers = m.zappers /\ n.quits = m.quits
    BY <2>8 DEF SameButSem, SameProcesses
  <2>12. MachineOK(n, B, S)
    BY <2>6, <2>7, <2>10, <2>11, Wakes
  <2> QED
    BY <2>2, <2>8, <2>12
<1> QED
  BY <1>3, <1>4

-----------------------------------------------------------------------------
(***************************************************************************)
(* Processes come and go.                                                  *)
(***************************************************************************)
\* fork1 gives a pid nobody has had.
LEMMA NextPidIs ==
    ASSUME NEW B, NEW S, NEW m \in Machines(B, S), CanFork(m)
    PROVE  NextPid(m) \in Pids /\ ~(NextPid(m) < m.next)
<1> DEFINE Free(q) == \A r \in InUse(m) : r % MAXPROC # q % MAXPROC
           Fit(q) == Free(q) /\ \A o \in m.next .. q-1 : \E r \in InUse(m) : r % MAXPROC = o % MAXPROC
           free == {q \in m.next .. MaxPid : Free(q)}
<1>1. m.next \in Nat \ {0} /\ MaxPid \in Nat
  BY LowerPhasesAssumption DEF Machines
<1>2. free \in SUBSET Nat /\ free # {}
  BY <1>1 DEF CanFork
<1>3. PICK q \in free : \A k \in free : q <= k
  <2> HIDE DEF free
  <2> QED
    BY <1>2, LeastElement
<1>4. ASSUME NEW o \in m.next .. q-1
      PROVE  \E r \in InUse(m) : r % MAXPROC = o % MAXPROC
  <2>1. q \in m.next .. MaxPid
    BY <1>3
  <2>2. o \in m.next .. MaxPid /\ ~(q <= o)
    BY <1>1, <2>1
  <2>3. o \notin free
    BY <1>3, <2>2
  <2>4. ~Free(o)
    BY <2>2, <2>3
  <2> QED
    BY <2>4
<1>5. q \in m.next .. MaxPid /\ Fit(q)
  BY <1>3, <1>4
<1>6. NextPid(m) = CHOOSE x \in m.next .. MaxPid : Fit(x)
  BY DEF NextPid
<1> HIDE DEF Fit, free
<1>7. NextPid(m) \in m.next .. MaxPid
  BY <1>5, <1>6
<1> QED
  BY <1>1, <1>7 DEF Pids

LEMMA MembersArePids ==
    ASSUME NEW q \in Seq(Pids)
    PROVE  Members(q) \subseteq Pids
BY ElementOfSeq, LenProperties DEF Members

LEMMA AwakeArePids ==
    ASSUME NEW B, NEW S, NEW m \in Machines(B, S)
    PROVE  Awake(m) \subseteq Pids
<1>1. m.ready \in Seq(Pids) /\ m.cur \in Pids \cup {IDLE}
  BY DEF Machines
<1>2. Members(m.ready) \subseteq Pids
  BY <1>1, MembersArePids
<1> QED
  BY <1>1, <1>2 DEF Awake

\* n is m with process q in it.
Grown(n, m, q) ==
    /\ n.next = q + 1 /\ n.life = [m.life EXCEPT ![q] = "live"] /\ n.quits = m.quits
    /\ n.joining = m.joining /\ n.got = m.got /\ n.zappers = m.zappers
    /\ n.box = m.box /\ n.sem = m.sem

LEMMA ForkedKeeps ==
    ASSUME NEW B, NEW S, NEW m, MachineOK(m, B, S), CanFork(m), NEW prio \in Int
    PROVE  /\ MachineOK(Forked(m, prio), B, S) /\ Grown(Forked(m, prio), m, NextPid(m))
           /\ Awake(Forked(m, prio)) = Awake(m) \cup {NextPid(m)}
<1> DEFINE q == NextPid(m)
           w == [m EXCEPT !.life[q] = "live", !.prio[q] = prio, !.parent[q] = m.cur,
                          !.next = q + 1]
           n == Unblocked(w, q)
<1>1. m \in Machines(B, S) /\ QueueOK(m) /\ Seated(m, B, S) /\ Known(m, B, S)
  BY DEF MachineOK
<1>2. q \in Pids /\ ~(q < m.next)
  BY <1>1, NextPidIs
<1>3. Forked(m, prio) = n
  BY DEF Forked
<1> HIDE DEF q
<1>4. q \in Nat /\ m.next \in Nat \ {0} /\ Pids \subseteq Nat
  BY <1>1, <1>2, PidsAreNoIdle DEF Machines
<1>5. /\ [m.life EXCEPT ![q] = "live"] \in [Pids -> Lives]
      /\ [m.prio EXCEPT ![q] = prio] \in [Pids -> Int]
      /\ [m.parent EXCEPT ![q] = m.cur] \in [Pids -> Pids \cup {IDLE}]
      /\ q + 1 \in Nat \ {0}
  <2>1. /\ m.life \in [Pids -> Lives] /\ m.prio \in [Pids -> Int]
        /\ m.parent \in [Pids -> Pids \cup {IDLE}] /\ m.cur \in Pids \cup {IDLE}
    BY <1>1 DEF Machines
  <2>2. [m.life EXCEPT ![q] = "live"] \in [Pids -> Lives]
    BY <2>1 DEF Lives
  <2>3. [m.prio EXCEPT ![q] = prio] \in [Pids -> Int]
    BY <2>1
  <2>4. [m.parent EXCEPT ![q] = m.cur] \in [Pids -> Pids \cup {IDLE}]
    BY <2>1
  <2>5. q + 1 \in Nat \ {0}
    BY <1>4
  <2> QED
    BY <2>2, <2>3, <2>4, <2>5
<1>6. w \in Machines(B, S)
  BY <1>1, <1>5 DEF Machines
<1>7. w.cur = m.cur /\ w.ready = m.ready /\ Grown(w, m, q)
  BY <1>1 DEF Machines, Grown
<1> HIDE DEF w
<1>8. QueueOK(w) /\ Awake(w) = Awake(m)
  BY <1>1, <1>7 DEF QueueOK, Awake
<1>9. m.life[q] # "live"
  BY <1>1, <1>2 DEF Known
<1>10. q \notin Awake(m) /\ q \notin m.joining /\ \A x \in Index(B, S) : q \notin Members(List(m, x))
  BY <1>1, <1>9 DEF Known
<1>11. /\ n \in Machines(B, S) /\ SameButQueue(n, w) /\ QueueOK(n)
       /\ Awake(n) = Awake(m) \cup {q}
  <2>1. q \in Pids \ Awake(w)
    BY <1>2, <1>8, <1>10
  <2> QED
    BY <1>6, <1>8, <2>1, UnblockedKeeps
<1> HIDE DEF n
<1>12. Grown(n, m, q)
  BY <1>7, <1>11 DEF Grown, SameButQueue
<1>13. m.life \in [Pids -> Lives]
  BY <1>1 DEF Machines
<1>14. n.life[q] = "live" /\ \A p \in Pids : p # q => n.life[p] = m.life[p]
  BY <1>12, <1>13, <1>2 DEF Grown
<1>15. ASSUME NEW y \in Index(B, S) PROVE List(n, y) = List(m, y)
  <2>1. CASE y \in ({"senders", "receivers"} \X B) \cup ({"waiting"} \X S)
    BY <2>1, <1>12 DEF List, Grown
  <2>2. CASE y \in {"zappers"} \X Pids
    <3>1. y[1] = "zappers" /\ y[2] \in Pids /\ n.zappers = m.zappers
      BY <2>2, <1>12 DEF Grown
    <3>2. CASE y[2] = q
      <4>1. m.zappers[q] = <<>>
        <5>1. q >= m.next
          BY <1>2, <1>4
        <5> QED
          BY <1>1, <1>2, <5>1 DEF Known
      <4> QED
        BY <3>1, <3>2, <4>1 DEF List
    <3>3. CASE y[2] # q
      BY <3>1, <3>3, <1>14 DEF List
    <3> QED
      BY <3>2, <3>3
  <2> QED
    BY <2>1, <2>2 DEF Index
<1>16. Seated(n, B, S)
  <2>1. n.joining = m.joining
    BY <1>12 DEF Grown
  <2> QED
    BY <1>1, <1>10, <1>11, <1>15, <2>1 DEF Seated
<1>17. Known(n, B, S)
  <2>1. /\ n.joining = m.joining /\ n.zappers = m.zappers /\ n.quits = m.quits
        /\ n.next = q + 1
    BY <1>12 DEF Grown
  <2>2. \A p \in Awake(n) \cup n.joining : n.life[p] = "live"
    <3>1. m.joining \in SUBSET Pids /\ Awake(m) \subseteq Pids
      BY <1>1, AwakeArePids DEF Machines
    <3> QED
      BY <1>1, <1>11, <1>14, <2>1, <3>1 DEF Known
  <2>3. \A x \in Index(B, S) : \A p \in Members(List(n, x)) : n.life[p] = "live"
    <3>1. ASSUME NEW x \in Index(B, S), NEW p \in Members(List(n, x))
          PROVE  n.life[p] = "live"
      <4>1. List(n, x) = List(m, x) /\ List(m, x) \in Seq(Pids)
        BY <1>1, <1>15, ListsAreLists
      <4>2. p \in Pids
        BY <4>1, ElementOfSeq, LenProperties DEF Members
      <4> QED
        BY <1>1, <1>14, <4>1, <4>2 DEF Known
    <3> QED
      BY <3>1
  <2>4. \A p \in Pids : n.life[p] = "live" => p < n.next
    <3>1. ASSUME NEW p \in Pids, n.life[p] = "live" PROVE p < n.next
      <4>1. p = q \/ p < m.next
        BY <1>1, <1>14, <3>1 DEF Known
      <4>2. p \in Nat
        BY <1>4
      <4> QED
        BY <1>2, <1>4, <2>1, <4>1, <4>2
    <3> QED
      BY <3>1
  <2>5. \A p \in Pids : p >= n.next => n.zappers[p] = <<>>
    <3>1. ASSUME NEW p \in Pids, p >= n.next PROVE p >= m.next
      <4>1. p \in Nat
        BY <1>4
      <4> QED
        BY <3>1, <4>1, <1>2, <1>4, <2>1
    <3> QED
      BY <3>1, <2>1, <1>1 DEF Known
  <2>6. \A p \in Pids : \A r \in Members(n.quits[p]) : n.life[r] # "live" /\ r < n.next
    <3>1. ASSUME NEW p \in Pids, NEW r \in Members(n.quits[p])
          PROVE  n.life[r] # "live" /\ r < n.next
      <4>1. m.quits[p] \in Seq(Pids) /\ r \in Members(m.quits[p])
        BY <1>1, <2>1, <3>1 DEF Machines
      <4>2. r \in Pids /\ r \in Nat
        BY <4>1, <1>4, MembersArePids
      <4>3. m.life[r] # "live" /\ r < m.next
        BY <1>1, <4>1 DEF Known
      <4>4. r # q /\ r < q + 1
        BY <1>2, <1>4, <4>2, <4>3
      <4> QED
        BY <1>14, <2>1, <4>2, <4>3, <4>4
    <3> QED
      BY <3>1
  <2> QED
    BY <2>2, <2>3, <2>4, <2>5, <2>6 DEF Known
<1>18. MachineOK(n, B, S)
  BY <1>11, <1>16, <1>17 DEF MachineOK
<1> QED
  BY <1>3, <1>11, <1>12, <1>18 DEF n, q

\* n is m but for where the processes are, who is told what of whom, and the
\* lives of those that are joined.
SameButKin(n, m) ==
    n.next = m.next /\ n.box = m.box /\ n.sem = m.sem

LEMMA JoinedKeeps ==
    ASSUME NEW B, NEW S, NEW m, MachineOK(m, B, S), m.cur # IDLE
    PROVE  MachineOK(Joined(m), B, S) /\ SameButKin(Joined(m), m)
<1> DEFINE p == m.cur
           n == Joined(m)
<1>1. m \in Machines(B, S) /\ QueueOK(m) /\ Seated(m, B, S) /\ Known(m, B, S) /\ p \in Pids
  BY DEF MachineOK, Machines
<1>2. /\ m.quits \in [Pids -> Seq(Pids)] /\ m.life \in [Pids -> Lives]
      /\ m.got \in [Pids -> Pids \cup {NoChildren}] /\ m.joining \in SUBSET Pids
  BY <1>1 DEF Machines
<1>3. CASE m.quits[p] # <<>>
  <2> DEFINE h == Head(m.quits[p])
             w == [m EXCEPT !.got[p] = h, !.quits[p] = Tail(@), !.life[h] = "joined"]
  <2>1. n = w
    BY <1>3 DEF Joined
  <2>2. m.quits[p] \in Seq(Pids)
    BY <1>1, <1>2
  <2>3. /\ h \in Pids /\ h \in Members(m.quits[p]) /\ Tail(m.quits[p]) \in Seq(Pids)
        /\ Members(Tail(m.quits[p])) \subseteq Members(m.quits[p])
    BY <2>2, <1>3, TailMembers
  <2> HIDE DEF h
  <2>4. m.life[h] # "live"
    BY <1>1, <2>3 DEF Known
  <2>5. /\ [m.got EXCEPT ![p] = h] \in [Pids -> Pids \cup {NoChildren}]
        /\ [m.quits EXCEPT ![p] = Tail(@)] \in [Pids -> Seq(Pids)]
        /\ [m.life EXCEPT ![h] = "joined"] \in [Pids -> Lives]
    <3>1. [m.got EXCEPT ![p] = h] \in [Pids -> Pids \cup {NoChildren}]
      BY <1>2, <2>3
    <3>2. [m.quits EXCEPT ![p] = Tail(@)] \in [Pids -> Seq(Pids)]
      BY <1>2, <2>3
    <3>3. [m.life EXCEPT ![h] = "joined"] \in [Pids -> Lives]
      BY <1>2 DEF Lives
    <3> QED
      BY <3>1, <3>2, <3>3
  <2>6. w \in Machines(B, S)
    BY <1>1, <2>5 DEF Machines
  <2>7. /\ w.cur = m.cur /\ w.ready = m.ready /\ w.next = m.next /\ w.joining = m.joining
        /\ w.zappers = m.zappers /\ w.box = m.box /\ w.sem = m.sem
        /\ w.life = [m.life EXCEPT ![h] = "joined"]
        /\ w.quits = [m.quits EXCEPT ![p] = Tail(@)]
    BY <1>1 DEF Machines
  <2> HIDE DEF w
  <2>8. QueueOK(w) /\ Awake(w) = Awake(m)
    BY <1>1, <2>7 DEF QueueOK, Awake
  <2>9. /\ w.life[h] # "live" /\ \A r \in Pids : w.life[r] = "live" <=> m.life[r] = "live"
        /\ \A r \in Pids : Members(w.quits[r]) \subseteq Members(m.quits[r])
    BY <1>2, <2>3, <2>4, <2>7
  <2>10. \A y \in Index(B, S) : List(w, y) = List(m, y)
    <3>1. ASSUME NEW y \in Index(B, S) PROVE List(w, y) = List(m, y)
      <4>1. CASE y \in ({"senders", "receivers"} \X B) \cup ({"waiting"} \X S)
        BY <4>1, <2>7 DEF List
      <4>2. CASE y \in {"zappers"} \X Pids
        <5>1. y[1] = "zappers" /\ y[2] \in Pids
          BY <4>2
        <5> QED
          BY <5>1, <2>7, <2>9 DEF List
      <4> QED
        BY <4>1, <4>2 DEF Index
    <3> QED
      BY <3>1
  <2>11. Seated(w, B, S)
    BY <1>1, <2>7, <2>8, <2>10 DEF Seated
  <2>12. Known(w, B, S)
    <3>1. /\ \A r \in Awake(w) \cup w.joining : r \in Pids /\ m.life[r] = "live"
          /\ \A x \in Index(B, S) : \A r \in Members(List(w, x)) : r \in Pids /\ m.life[r] = "live"
      BY <1>1, <1>2, <2>7, <2>8, <2>10, AwakeArePids, ListsAreLists, MembersArePids DEF Known
    <3>2. \A r \in Pids : \A q \in Members(w.quits[r]) : w.life[q] # "live" /\ q < w.next
      <4>1. ASSUME NEW r \in Pids, NEW q \in Members(w.quits[r])
            PROVE  w.life[q] # "live" /\ q < w.next
        <5>1. q \in Members(m.quits[r]) /\ m.quits[r] \in Seq(Pids)
          BY <4>1, <2>9, <1>2
        <5>2. q \in Pids /\ m.life[q] # "live" /\ q < m.next
          BY <5>1, <1>1, MembersArePids DEF Known
        <5> QED
          BY <5>2, <2>7, <2>9
      <4> QED
        BY <4>1
    <3> QED
      BY <1>1, <2>7, <2>9, <3>1, <3>2 DEF Known
  <2> QED
    BY <2>1, <2>6, <2>7, <2>8, <2>11, <2>12 DEF MachineOK, SameButKin
<1>4. CASE m.quits[p] = <<>> /\ LiveChildren(m, p) = {}
  <2> DEFINE w == [m EXCEPT !.got[p] = NoChildren]
  <2>1. n = w
    BY <1>4 DEF Joined
  <2>2. [m.got EXCEPT ![p] = NoChildren] \in [Pids -> Pids \cup {NoChildren}]
    BY <1>2
  <2>3. w \in Machines(B, S)
    BY <1>1, <2>2 DEF Machines
  <2>4. /\ w.cur = m.cur /\ w.ready = m.ready /\ w.next = m.next /\ w.joining = m.joining
        /\ w.zappers = m.zappers /\ w.box = m.box /\ w.sem = m.sem
        /\ w.life = m.life /\ w.quits = m.quits
    BY <1>1 DEF Machines
  <2> HIDE DEF w
  <2>5. QueueOK(w) /\ Awake(w) = Awake(m) /\ \A y \in Index(B, S) : List(w, y) = List(m, y)
    BY <1>1, <2>4 DEF QueueOK, Awake, List
  <2>6. MachineOK(w, B, S)
    BY <2>3, <2>4, <2>5, Stays
  <2> QED
    BY <2>1, <2>4, <2>6 DEF SameButKin
<1>5. CASE m.quits[p] = <<>> /\ LiveChildren(m, p) # {}
  <2> DEFINE w == [m EXCEPT !.joining = @ \cup {p}]
             y == Yielded(w)
  <2>1. n = y
    BY <1>5 DEF Joined
  <2>2. m.joining \cup {p} \in SUBSET Pids
    BY <1>1, <1>2
  <2>3. w \in Machines(B, S)
    BY <1>1, <2>2 DEF Machines
  <2>4. /\ w.cur = m.cur /\ w.ready = m.ready /\ w.next = m.next /\ w.joining = m.joining \cup {p}
        /\ w.zappers = m.zappers /\ w.box = m.box /\ w.sem = m.sem
        /\ w.life = m.life /\ w.quits = m.quits
    BY <1>1 DEF Machines
  <2> HIDE DEF w
  <2>5. QueueOK(w) /\ Awake(w) = Awake(m)
    BY <1>1, <2>4 DEF QueueOK, Awake
  <2>6. /\ y \in Machines(B, S) /\ SameButQueue(y, w) /\ QueueOK(y)
        /\ Awake(y) = Awake(m) \ {p}
    BY <2>3, <2>4, <2>5, YieldedKeeps
  <2> HIDE DEF y
  <2>7. /\ y.next = m.next /\ y.joining = m.joining \cup {p}
        /\ y.zappers = m.zappers /\ y.box = m.box /\ y.sem = m.sem
        /\ y.life = m.life /\ y.quits = m.quits
    BY <2>4, <2>6 DEF SameButQueue
  <2>8. \A x \in Index(B, S) : List(y, x) = List(m, x)
    BY <2>7 DEF List
  <2>9. p \in Awake(m)
    BY <1>1 DEF Awake
  <2>10. Seated(y, B, S)
    BY <1>1, <2>6, <2>7, <2>8, <2>9 DEF Seated
  <2>11. Known(y, B, S)
    BY <1>1, <2>6, <2>7, <2>8, <2>9 DEF Known
  <2> QED
    BY <2>1, <2>6, <2>7, <2>10, <2>11 DEF MachineOK, SameButKin
<1> QED
  BY <1>3, <1>4, <1>5

LEMMA ZappedKeeps ==
    ASSUME NEW B, NEW S, NEW m, MachineOK(m, B, S), m.cur # IDLE, NEW q \in Pids
    PROVE  MachineOK(Zapped(m, q), B, S) /\ SameButKin(Zapped(m, q), m)
<1> DEFINE p == m.cur
           n == Zapped(m, q)
           x == <<"zappers", q>>
<1>1. m \in Machines(B, S) /\ QueueOK(m) /\ Seated(m, B, S) /\ Known(m, B, S) /\ p \in Pids
  BY DEF MachineOK, Machines
<1>2. CASE m.life[q] # "live"
  BY <1>2 DEF Zapped, SameButKin
<1>3. CASE m.life[q] = "live"
  <2> DEFINE w == [m EXCEPT !.zappers[q] = Append(@, p)]
             y == Yielded(w)
  <2>1. n = y
    BY <1>3 DEF Zapped
  <2>2. m.zappers \in [Pids -> Seq(Pids)]
    BY <1>1 DEF Machines
  <2>3. Append(m.zappers[q], p) \in Seq(Pids)
    BY <1>1, <2>2, AppendProperties
  <2>4. [m.zappers EXCEPT ![q] = Append(@, p)] \in [Pids -> Seq(Pids)]
    BY <2>2, <2>3
  <2>5. w \in Machines(B, S)
    BY <1>1, <2>4 DEF Machines
  <2>6. /\ w.cur = m.cur /\ w.ready = m.ready /\ w.next = m.next /\ w.joining = m.joining
        /\ w.zappers = [m.zappers EXCEPT ![q] = Append(@, p)] /\ w.box = m.box /\ w.sem = m.sem
        /\ w.life = m.life /\ w.quits = m.quits
    BY <1>1 DEF Machines
  <2> HIDE DEF w
  <2>7. QueueOK(w) /\ Awake(w) = Awake(m)
    BY <1>1, <2>6 DEF QueueOK, Awake
  <2>8. /\ y \in Machines(B, S) /\ SameButQueue(y, w) /\ QueueOK(y)
        /\ Awake(y) = Awake(m) \ {p}
    BY <2>5, <2>6, <2>7, YieldedKeeps
  <2> HIDE DEF y
  <2>9. /\ y.next = m.next /\ y.joining = m.joining
        /\ y.zappers = [m.zappers EXCEPT ![q] = Append(@, p)] /\ y.box = m.box /\ y.sem = m.sem
        /\ y.life = m.life /\ y.quits = m.quits
    BY <2>6, <2>8 DEF SameButQueue
  <2>10. y.zappers[q] = Append(m.zappers[q], p) /\ \A r \in Pids : r # q => y.zappers[r] = m.zappers[r]
    BY <2>2, <2>9
  <2>11. x \in Index(B, S) /\ List(y, x) = Append(List(m, x), p)
    BY <1>3, <2>9, <2>10 DEF Index, List
  <2>12. ASSUME NEW z \in Index(B, S), z # x PROVE List(y, z) = List(m, z)
    <3>1. CASE z \in ({"senders", "receivers"} \X B) \cup ({"waiting"} \X S)
      BY <3>1, <2>9 DEF List
    <3>2. CASE z \in {"zappers"} \X Pids
      <4>1. z[1] = "zappers" /\ z[2] \in Pids /\ z[2] # q
        BY <3>2, <2>12
      <4> QED
        BY <4>1, <2>9, <2>10 DEF List
    <3> QED
      BY <3>1, <3>2 DEF Index
  <2>13. \A r \in Pids : r >= m.next => y.zappers[r] = <<>>
    <3>1. ASSUME NEW r \in Pids, r >= m.next PROVE y.zappers[r] = <<>>
      <4>1. r # q
        <5>1. q < m.next /\ q \in Nat /\ m.next \in Nat
          BY <1>1, <1>3, PidsAreNoIdle DEF Known, Machines
        <5> QED
          BY <3>1, <5>1
      <4> QED
        BY <1>1, <3>1, <4>1, <2>10 DEF Known
    <3> QED
      BY <3>1
  <2> HIDE DEF x
  <2>14. MachineOK(y, B, S)
    BY <2>8, <2>9, <2>11, <2>12, <2>13, Blocks
  <2> QED
    BY <2>1, <2>9, <2>14 DEF SameButKin
<1> QED
  BY <1>2, <1>3

\* Those who zap cur are woken, and its parent if that waits to join; cur is nowhere.
LEMMA QuitKeeps ==
    ASSUME NEW B, NEW S, NEW m, MachineOK(m, B, S), m.cur # IDLE, NEW status \in Int
    PROVE  MachineOK(Quit(m, status), B, S) /\ SameButKin(Quit(m, status), m)
<1> DEFINE p == m.cur
           up == m.parent[p]
           joins == up \in m.joining
           woken == IF joins THEN Append(m.zappers[p], up) ELSE m.zappers[p]
           unasked == {m.quits[p][i] : i \in DOMAIN m.quits[p]}
           life == [q \in Pids |-> IF q \in unasked \/ (q = p /\ joins) THEN "joined"
                                   ELSE IF q = p THEN "quit" ELSE m.life[q]]
           got == IF joins THEN [m.got EXCEPT ![up] = p] ELSE m.got
           quits == IF joins \/ up = IDLE THEN m.quits
                    ELSE [m.quits EXCEPT ![up] = Append(m.quits[up], p)]
           w == [m EXCEPT !.life = life, !.code[p] = status, !.joining = @ \ {up},
                          !.got = got, !.quits = quits]
           ready == InsertedAll(m.prio, m.ready, woken)
           n == Running(w, ready)
           x == <<"zappers", p>>
<1>1. m \in Machines(B, S) /\ QueueOK(m) /\ Seated(m, B, S) /\ Known(m, B, S) /\ p \in Pids
  BY DEF MachineOK, Machines
<1>2. /\ m.ready \in Seq(Pids) /\ m.life \in [Pids -> Lives]
      /\ m.parent \in [Pids -> Pids \cup {IDLE}] /\ m.code \in [Pids -> Int]
      /\ m.quits \in [Pids -> Seq(Pids)] /\ m.joining \in SUBSET Pids
      /\ m.got \in [Pids -> Pids \cup {NoChildren}] /\ m.zappers \in [Pids -> Seq(Pids)]
      /\ m.next \in Nat
  BY <1>1 DEF Machines
<1>3. Quit(m, status) = n
  BY <1>2 DEF Quit
<1>4. p \in Awake(m) /\ m.life[p] = "live" /\ p < m.next /\ p \notin m.joining
  <2>1. p \in Awake(m)
    BY <1>1 DEF Awake
  <2> QED
    BY <1>1, <2>1 DEF Known, Seated
<1>5. x \in Index(B, S) /\ List(m, x) = m.zappers[p]
  BY <1>1, <1>4 DEF Index, List
<1>6. /\ m.zappers[p] \in Seq(Pids) /\ Distinct(m.zappers[p])
      /\ Members(m.zappers[p]) \cap (Awake(m) \cup m.joining) = {}
      /\ \A r \in Members(m.zappers[p]) : m.life[r] = "live"
  BY <1>1, <1>2, <1>5 DEF Seated, Known
<1>7. joins => up \in Pids /\ up # p /\ up \notin Awake(m) /\ up \notin Members(m.zappers[p])
               /\ m.life[up] = "live" /\ up # IDLE
  BY <1>1, <1>2, <1>4, <1>6, PidsAreNoIdle DEF Seated, Known
<1>8. up \in Pids \cup {IDLE}
  BY <1>1, <1>2
<1>9. unasked = Members(m.quits[p]) /\ \A r \in unasked : m.life[r] # "live"
  <2>1. m.quits[p] \in Seq(Pids)
    BY <1>1, <1>2
  <2>2. DOMAIN m.quits[p] = 1 .. Len(m.quits[p])
    BY <2>1, LenProperties
  <2>3. unasked = Members(m.quits[p])
    BY <2>2 DEF Members
  <2> QED
    BY <1>1, <2>3 DEF Known
<1> HIDE DEF up, unasked
<1>10. /\ woken \in Seq(Pids) /\ Distinct(woken)
       /\ Members(woken) = Members(m.zappers[p]) \cup (IF joins THEN {up} ELSE {})
  <2>1. CASE joins
    <3>1. woken = Append(m.zappers[p], up) /\ up \in Pids
      BY <2>1, <1>7
    <3> QED
      BY <2>1, <3>1, <1>6, <1>7, AppendMembers, AppendDistinct, AppendProperties
  <2>2. CASE ~joins
    BY <2>2, <1>6
  <2> QED
    BY <2>1, <2>2
<1>11. Members(m.ready) \subseteq Awake(m) /\ p \notin Members(m.ready) /\ Distinct(m.ready)
  BY <1>1 DEF Awake, QueueOK
<1> HIDE DEF woken, joins
<1>12. Members(m.ready) \cap Members(woken) = {}
  BY <1>6, <1>7, <1>10, <1>11
<1>13. /\ ready \in Seq(Pids) /\ Distinct(ready)
       /\ Members(ready) = Members(m.ready) \cup Members(woken)
  BY <1>2, <1>10, <1>11, <1>12, InsertedAllKeeps
<1> HIDE DEF ready
<1>14. life \in [Pids -> Lives]
  BY <1>2 DEF Lives
<1>15. /\ life[p] # "live" /\ \A r \in Pids : r # p => (life[r] = "live" <=> m.life[r] = "live")
  BY <1>1, <1>9
<1>16. got \in [Pids -> Pids \cup {NoChildren}]
  BY <1>1, <1>2
<1>17. /\ quits \in [Pids -> Seq(Pids)]
       /\ \A r \in Pids : Members(quits[r]) \subseteq Members(m.quits[r]) \cup {p}
  <2>1. CASE joins \/ up = IDLE
    BY <2>1, <1>2
  <2>2. CASE ~(joins \/ up = IDLE)
    <3>1. up \in Pids /\ quits = [m.quits EXCEPT ![up] = Append(m.quits[up], p)] /\ m.quits[up] \in Seq(Pids)
      BY <2>2, <1>2, <1>8
    <3> DEFINE a == Append(m.quits[up], p)
    <3>2. a \in Seq(Pids) /\ Members(a) = Members(m.quits[up]) \cup {p}
      BY <3>1, <1>1, AppendMembers, AppendProperties
    <3>3. quits = [m.quits EXCEPT ![up] = a]
      BY <3>1
    <3> HIDE DEF a, quits
    <3>4. quits[up] = a /\ (\A r \in Pids : r # up => quits[r] = m.quits[r])
          /\ quits \in [Pids -> Seq(Pids)]
      BY <1>2, <3>1, <3>2, <3>3
    <3> QED
      BY <3>2, <3>4
  <2> QED
    BY <2>1, <2>2
<1>18. [m.code EXCEPT ![p] = status] \in [Pids -> Int] /\ m.joining \ {up} \in SUBSET Pids
  BY <1>2
<1> HIDE DEF life, got, quits
<1>19. w \in Machines(B, S)
  BY <1>1, <1>14, <1>16, <1>17, <1>18 DEF Machines
<1>20. /\ w.next = m.next /\ w.joining = m.joining \ {up} /\ w.zappers = m.zappers
       /\ w.box = m.box /\ w.sem = m.sem /\ w.life = life /\ w.quits = quits
  BY <1>1 DEF Machines
<1> HIDE DEF w
<1>21. /\ n \in Machines(B, S) /\ SameButQueue(n, w) /\ QueueOK(n) /\ Awake(n) = Members(ready)
  BY <1>13, <1>19, RunningKeeps
<1> HIDE DEF n
<1>22. /\ n.next = m.next /\ n.joining = m.joining \ {up} /\ n.zappers = m.zappers
       /\ n.box = m.box /\ n.sem = m.sem /\ n.life = life /\ n.quits = quits
  BY <1>20, <1>21 DEF SameButQueue
<1>23. \A y \in Index(B, S) : y # x => List(n, y) = List(m, y)
  <2>1. ASSUME NEW y \in Index(B, S), y # x PROVE List(n, y) = List(m, y)
    <3>1. CASE y \in ({"senders", "receivers"} \X B) \cup ({"waiting"} \X S)
      BY <3>1, <1>22 DEF List
    <3>2. CASE y \in {"zappers"} \X Pids
      <4>1. y[1] = "zappers" /\ y[2] \in Pids /\ y[2] # p
        BY <3>2, <2>1
      <4> QED
        BY <4>1, <1>15, <1>22 DEF List
    <3> QED
      BY <3>1, <3>2 DEF Index
  <2> QED
    BY <2>1
<1>24. List(n, x) = <<>> /\ Members(<<>>) = {} /\ Distinct(<<>>)
  BY <1>15, <1>22 DEF List, Members, Distinct
<1>25. Awake(n) \subseteq (Awake(m) \ {p}) \cup Members(List(m, x)) \cup (IF joins THEN {up} ELSE {})
  BY <1>5, <1>10, <1>11, <1>13, <1>21
<1> HIDE DEF x
<1>26. Seated(n, B, S)
  <2>1. ASSUME NEW y \in Index(B, S)
        PROVE  /\ Distinct(List(n, y)) /\ Members(List(n, y)) \cap (Awake(n) \cup n.joining) = {}
    <3>1. CASE y = x
      BY <3>1, <1>24
    <3>2. CASE y # x
      <4>1. /\ List(n, y) = List(m, y) /\ Distinct(List(m, y))
            /\ Members(List(m, y)) \cap (Awake(m) \cup m.joining) = {}
            /\ Members(List(m, y)) \cap Members(List(m, x)) = {}
        BY <1>1, <1>5, <1>23, <3>2 DEF Seated
      <4>2. joins => up \in m.joining
        BY DEF joins
      <4> QED
        BY <4>1, <4>2, <1>22, <1>25
    <3> QED
      BY <3>1, <3>2
  <2>2. ASSUME NEW y \in Index(B, S), NEW z \in Index(B, S), y # z
        PROVE  Members(List(n, y)) \cap Members(List(n, z)) = {}
    BY <1>1, <1>23, <1>24, <2>2 DEF Seated
  <2>3. Awake(n) \cap n.joining = {}
    <3>1. Awake(m) \cap m.joining = {} /\ Members(List(m, x)) \cap m.joining = {}
      BY <1>1, <1>5 DEF Seated
    <3> QED
      BY <3>1, <1>22, <1>25
  <2> QED
    BY <2>1, <2>2, <2>3 DEF Seated
<1>27. Known(n, B, S)
  <2>1. \A r \in Awake(n) \cup n.joining : n.life[r] = "live"
    <3>1. ASSUME NEW r \in Awake(n) \cup n.joining PROVE n.life[r] = "live"
      <4>1. r \in Pids /\ r # p /\ m.life[r] = "live"
        BY <1>1, <1>2, <1>4, <1>5, <1>6, <1>7, <1>22, <1>25, AwakeArePids, MembersArePids DEF Known
      <4> QED
        BY <4>1, <1>15, <1>22
    <3> QED
      BY <3>1
  <2>2. \A y \in Index(B, S) : \A r \in Members(List(n, y)) : n.life[r] = "live"
    <3>1. ASSUME NEW y \in Index(B, S), NEW r \in Members(List(n, y)) PROVE n.life[r] = "live"
      <4>1. y # x /\ List(n, y) = List(m, y) /\ List(m, y) \in Seq(Pids)
        BY <3>1, <1>1, <1>23, <1>24, ListsAreLists
      <4>2. r \in Pids /\ r \in Members(List(m, y)) /\ m.life[r] = "live"
        BY <1>1, <4>1, MembersArePids DEF Known
      <4>3. r # p
        BY <1>1, <1>4, <4>2 DEF Seated
      <4> QED
        BY <4>2, <4>3, <1>15, <1>22
    <3> QED
      BY <3>1
  <2>3. \A r \in Pids : n.life[r] = "live" => r < n.next
    BY <1>1, <1>15, <1>22 DEF Known
  <2>4. \A r \in Pids : r >= n.next => n.zappers[r] = <<>>
    BY <1>1, <1>22 DEF Known
  <2>5. \A r \in Pids : \A q \in Members(n.quits[r]) : n.life[q] # "live" /\ q < n.next
    <3>1. ASSUME NEW r \in Pids, NEW q \in Members(n.quits[r])
          PROVE  n.life[q] # "live" /\ q < n.next
      <4>1. q \in Members(m.quits[r]) \/ q = p
        BY <1>17, <1>22
      <4>2. CASE q = p
        BY <4>2, <1>4, <1>15, <1>22
      <4>3. CASE q # p
        <5>1. q \in Pids /\ m.life[q] # "live" /\ q < m.next
          BY <1>1, <1>2, <4>1, <4>3, MembersArePids DEF Known
        <5> QED
          BY <4>3, <5>1, <1>15, <1>22
      <4> QED
        BY <4>2, <4>3
    <3> QED
      BY <3>1
  <2> QED
    BY <2>1, <2>2, <2>3, <2>4, <2>5 DEF Known
<1> QED
  BY <1>3, <1>21, <1>22, <1>26, <1>27 DEF MachineOK, SameButKin

-----------------------------------------------------------------------------
\* The machine a phase starts on is in order.
LEMMA MachineIsOK ==
    ASSUME NEW B, NEW S, NEW p \in Pids, NEW prio \in Int, NEW next \in Nat, p < next,
           NEW boxes \in [B -> BoxRec], NEW sems \in [S -> SemRec],
           \A b \in B : boxes[b].senders = <<>> /\ boxes[b].receivers = <<>>,
           \A s \in S : sems[s].waiting = <<>>
    PROVE  MachineOK(Machine(p, prio, next, boxes, sems), B, S)
<1> DEFINE m == Machine(p, prio, next, boxes, sems)
<1>1. Pids \subseteq Nat /\ IDLE \notin Pids /\ <<>> \in Seq(Pids) /\ {} \in SUBSET Pids
  BY PidsAreNoIdle
<1>2. /\ [q \in Pids |-> IF q = p THEN prio ELSE 0] \in [Pids -> Int]
      /\ [q \in Pids |-> IF q <= p THEN "live" ELSE "unborn"] \in [Pids -> Lives]
      /\ [q \in Pids |-> IDLE] \in [Pids -> Pids \cup {IDLE}]
      /\ [q \in Pids |-> 0] \in [Pids -> Int]
      /\ [q \in Pids |-> <<>>] \in [Pids -> Seq(Pids)]
      /\ [q \in Pids |-> NoChildren] \in [Pids -> Pids \cup {NoChildren}]
  BY <1>1 DEF Lives
<1>3. next \in Nat \ {0}
  BY <1>1
<1>4. m \in Machines(B, S)
  BY <1>1, <1>2, <1>3 DEF Machine, Machines
<1>5. /\ m.cur = p /\ m.ready = <<>> /\ m.next = next /\ m.joining = {} /\ m.box = boxes
      /\ m.sem = sems /\ m.zappers = [q \in Pids |-> <<>>] /\ m.quits = [q \in Pids |-> <<>>]
      /\ m.life = [q \in Pids |-> IF q <= p THEN "live" ELSE "unborn"]
  BY DEF Machine
<1> HIDE DEF m
<1>6. Members(<<>>) = {} /\ Distinct(<<>>)
  BY DEF Members, Distinct
<1>7. QueueOK(m) /\ Awake(m) = {p}
  BY <1>1, <1>5, <1>6 DEF QueueOK, Awake
<1>8. \A y \in Index(B, S) : List(m, y) = <<>>
  <2>1. ASSUME NEW y \in Index(B, S) PROVE List(m, y) = <<>>
    <3>1. CASE y \in {"senders", "receivers"} \X B
      BY <3>1, <1>5 DEF List
    <3>2. CASE y \in {"waiting"} \X S
      BY <3>2, <1>5 DEF List
    <3>3. CASE y \in {"zappers"} \X Pids
      BY <3>3, <1>5 DEF List
    <3> QED
      BY <3>1, <3>2, <3>3 DEF Index
  <2> QED
    BY <2>1
<1>9. Seated(m, B, S)
  BY <1>5, <1>6, <1>7, <1>8 DEF Seated
<1>10. Known(m, B, S)
  <2>1. m.life[p] = "live" /\ \A q \in Pids : m.life[q] = "live" => q <= p
    BY <1>1, <1>5
  <2>2. \A q \in Pids : m.life[q] = "live" => q < m.next
    BY <1>1, <1>5, <2>1
  <2> QED
    BY <1>5, <1>6, <1>7, <1>8, <2>1, <2>2 DEF Known
<1> QED
  BY <1>4, <1>7, <1>9, <1>10 DEF MachineOK, m
=============================================================================
