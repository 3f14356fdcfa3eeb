--------------------------- MODULE MailboxProofs ---------------------------
(***************************************************************************)
(* Proofs about the mailboxes of phase 2, for every set of processes, any  *)
(* size of the tables and any clients.                                     *)
(***************************************************************************)
EXTENDS MailboxProperties, LinkedLists

-----------------------------------------------------------------------------
(***************************************************************************)
(* The processor.  Who is not blocked is the running process or on the     *)
(* ready list, which is sorted; the sentinel is always among them.         *)
(***************************************************************************)
InOrder(q) == \A i, j \in 1 .. Len(q) : i < j => Level(q[i]) <= Level(q[j])

QueueOK(cur, q) ==
    /\ cur \in All /\ q \in Seq(All)
    /\ Distinct(q) /\ cur \notin Members(q)
    /\ InOrder(q)
    /\ \A i \in 1 .. Len(q) : Level(cur) <= Level(q[i])
    /\ Sentinel \in Members(q) \cup {cur}

Runnable(cur, q) == Members(q) \cup {cur}

LevelsOK == prio \in [Procs -> 1 .. WEAKEST-1]

LEMMA RangeIsMembers == \A S : \A q \in Seq(S) : Range(q) = Members(q) /\ DOMAIN q = 1 .. Len(q)
BY LenProperties DEF Range, Members

LEMMA LevelTypes == LevelsOK => /\ \A p \in All : Level(p) \in 1 .. WEAKEST
                                /\ \A p \in Procs : Level(p) < WEAKEST
                                /\ Level(Sentinel) = WEAKEST /\ WEAKEST = 7
BY MailboxAssumption DEF LevelsOK, Level, All, WEAKEST

\* QueueUp inserts behind all of the same or a stronger level.
LEMMA QueueUpPlace ==
    ASSUME LevelsOK, NEW q \in Seq(All), InOrder(q), NEW p \in All
    PROVE  \E i \in 1 .. Len(q)+1 :
              /\ QueueUp(q, p) = InsertAt(q, i, p)
              /\ \A j \in 1 .. i-1 : Level(q[j]) <= Level(p)
              /\ \A j \in i .. Len(q) : Level(q[j]) > Level(p)
<1> DEFINE weaker == {i \in 1 .. Len(q) : Level(q[i]) > Level(p)}
           same == {i \in DOMAIN q : Level(q[i]) <= Level(p)}
<1>1. /\ Len(q) \in Nat /\ DOMAIN q = 1 .. Len(q)
      /\ \A i \in 1 .. Len(q) : q[i] \in All /\ Level(q[i]) \in Int
      /\ Level(p) \in Int
  BY LenProperties, ElementOfSeq, LevelTypes
<1>2. PICK i \in 1 .. Len(q)+1 : /\ \A j \in 1 .. i-1 : Level(q[j]) <= Level(p)
                                 /\ \A j \in i .. Len(q) : Level(q[j]) > Level(p)
  <2>1. CASE weaker = {}
    <3>1. \A j \in 1 .. Len(q) : Level(q[j]) <= Level(p)
      BY <2>1, <1>1
    <3> QED
      BY <3>1, <1>1
  <2>2. CASE weaker # {}
    <3>1. weaker \in SUBSET Nat
      BY <1>1
    <3>2. PICK i \in weaker : \A j \in weaker : i <= j
      BY <2>2, <3>1, LeastElement
    <3>3. \A j \in 1 .. i-1 : Level(q[j]) <= Level(p)
      BY <3>2, <1>1
    <3>4. \A j \in i .. Len(q) : Level(q[i]) <= Level(q[j])
      BY <3>2, <1>1 DEF InOrder
    <3>5. \A j \in i .. Len(q) : Level(q[j]) > Level(p)
      BY <3>2, <3>4, <1>1
    <3> QED
      BY <3>2, <3>3, <3>5, <1>1
  <2> QED
    BY <2>1, <2>2
<1>3. same = 1 .. i-1
  BY <1>1, <1>2
<1>4. Cardinality(1 .. i-1) = i-1
  BY <1>1, <1>2, FS_Interval
<1>5. QueueUp(q, p) = InsertAt(q, 1 + (i-1), p)
  BY <1>3, <1>4 DEF QueueUp
<1> QED
  BY <1>2, <1>5, <1>1

LEMMA QueueUpKeeps ==
    ASSUME LevelsOK, NEW q \in Seq(All), InOrder(q), Distinct(q), NEW p \in All, p \notin Members(q)
    PROVE  /\ QueueUp(q, p) \in Seq(All) /\ InOrder(QueueUp(q, p)) /\ Distinct(QueueUp(q, p))
           /\ Members(QueueUp(q, p)) = Members(q) \cup {p}
<1> DEFINE r == QueueUp(q, p)
<1>1. PICK i \in 1 .. Len(q)+1 :
              /\ r = InsertAt(q, i, p)
              /\ \A j \in 1 .. i-1 : Level(q[j]) <= Level(p)
              /\ \A j \in i .. Len(q) : Level(q[j]) > Level(p)
  BY QueueUpPlace
<1>2. /\ Members(r) = Members(q) \cup {p} /\ Distinct(r)
      /\ r \in Seq(All) /\ Len(r) = Len(q) + 1
      /\ \A j \in 1 .. Len(q)+1 :
            r[j] = IF j < i THEN q[j] ELSE IF j = i THEN p ELSE q[j-1]
  <2> DEFINE x == InsertAt(q, i, p)
  <2>1. Members(x) = Members(q) \cup {p} /\ Distinct(x)
    BY InsertAtMembers
  <2>2. /\ x \in Seq(All) /\ Len(x) = Len(q) + 1
        /\ \A j \in 1 .. Len(q)+1 :
              x[j] = IF j < i THEN q[j] ELSE IF j = i THEN p ELSE q[j-1]
    BY InsertAtElements
  <2> HIDE DEF x
  <2> QED
    BY <1>1, <2>1, <2>2 DEF x
<1> HIDE DEF r
<1>3. /\ Len(q) \in Nat /\ Level(p) \in Int
      /\ \A j \in 1 .. Len(q) : q[j] \in All /\ Level(q[j]) \in Int
  BY LenProperties, ElementOfSeq, LevelTypes
<1>4. ASSUME NEW j \in 1 .. Len(q)+1, NEW k \in 1 .. Len(q)+1, j < k
      PROVE  Level(r[j]) <= Level(r[k])
  <2>1. CASE k < i
    <3>1. j \in 1 .. Len(q) /\ k \in 1 .. Len(q) /\ r[j] = q[j] /\ r[k] = q[k]
      BY <2>1, <1>2, <1>3, <1>4
    <3> QED
      BY <3>1, <1>4 DEF InOrder
  <2>2. CASE k = i
    <3>1. j \in 1 .. i-1 /\ r[j] = q[j] /\ r[k] = p
      BY <2>2, <1>2, <1>3, <1>4
    <3> QED
      BY <3>1, <1>1
  <2>3. CASE k > i /\ j = i
    <3>1. k-1 \in i .. Len(q) /\ k-1 \in 1 .. Len(q) /\ r[k] = q[k-1] /\ r[j] = p
      BY <2>3, <1>2, <1>3
    <3>2. Level(q[k-1]) > Level(p) /\ Level(q[k-1]) \in Int
      BY <3>1, <1>1, <1>3
    <3> QED
      BY <3>1, <3>2, <1>3
  <2>4. CASE k > i /\ j < i
    <3>0. k-1 \in i .. Len(q) /\ k-1 \in 1 .. Len(q) /\ j \in 1 .. i-1 /\ j \in 1 .. Len(q)
      BY <2>4, <1>3
    <3>1. r[k] = q[k-1] /\ r[j] = q[j]
      BY <2>4, <1>2, <1>3
    <3>2. /\ Level(q[k-1]) > Level(p) /\ Level(q[k-1]) \in Int
          /\ Level(q[j]) <= Level(p) /\ Level(q[j]) \in Int
      BY <3>0, <1>1, <1>3
    <3> QED
      BY <3>1, <3>2, <1>3
  <2>5. CASE k > i /\ j > i
    <3>1. j-1 \in 1 .. Len(q) /\ k-1 \in 1 .. Len(q) /\ j-1 < k-1
      BY <2>5, <1>3, <1>4
    <3>2. ~(j < i) /\ j # i /\ ~(k < i) /\ k # i
      BY <2>5
    <3>3. r[j] = q[j-1] /\ r[k] = q[k-1]
      BY <3>2, <1>2
    <3> QED
      BY <3>1, <3>3 DEF InOrder
  <2> QED
    BY <2>1, <2>2, <2>3, <2>4, <2>5, <1>1, <1>3, <1>4
<1>5. InOrder(r)
  BY <1>2, <1>4 DEF InOrder
<1> QED
  BY <1>2, <1>5 DEF r

\* The running process gives the processor up to the first of the ready list,
\* for ever or until it is woken.  The sentinel is never in a position to.
LEMMA SwitchKeeps ==
    ASSUME LevelsOK, NEW cur, NEW q, QueueOK(cur, q), q # <<>>
    PROVE  /\ QueueOK(Head(q), Tail(q)) /\ cur # Sentinel
           /\ Runnable(Head(q), Tail(q)) = Runnable(cur, q) \ {cur}
<1>1. /\ Head(q) \in All /\ Tail(q) \in Seq(All) /\ Len(q) \in Nat \ {0}
      /\ Head(q) = q[1] /\ Len(Tail(q)) = Len(q) - 1
      /\ \A i \in 1 .. Len(q)-1 : Tail(q)[i] = q[i+1]
      /\ Members(q) = Members(Tail(q)) \cup {Head(q)}
      /\ Distinct(Tail(q)) /\ Head(q) \notin Members(Tail(q))
  BY TailMembers DEF QueueOK
<1> DEFINE h == Head(q)
           t == Tail(q)
<1> HIDE DEF h, t
<1>2. /\ h \in All /\ t \in Seq(All) /\ Len(q) \in Nat \ {0}
      /\ h = q[1] /\ Len(t) = Len(q) - 1
      /\ \A i \in 1 .. Len(q)-1 : t[i] = q[i+1]
      /\ Members(q) = Members(t) \cup {h}
      /\ Distinct(t) /\ h \notin Members(t)
  BY <1>1 DEF h, t
<1>3. cur # Sentinel
  <2>1. q[1] \in All \ {cur} /\ Level(cur) <= Level(q[1])
    BY <1>2 DEF QueueOK
  <2> QED
    BY <2>1, LevelTypes DEF All
<1>4. \A i \in 1 .. Len(t) : Level(h) <= Level(t[i])
  BY <1>2 DEF QueueOK, InOrder
<1>5. InOrder(t)
  BY <1>2 DEF QueueOK, InOrder
<1>6. Sentinel \in Members(t) \cup {h}
  BY <1>2, <1>3 DEF QueueOK
<1>7. QueueOK(h, t)
  BY <1>2, <1>4, <1>5, <1>6 DEF QueueOK
<1>8. Runnable(h, t) = Runnable(cur, q) \ {cur}
  BY <1>2 DEF Runnable, QueueOK
<1> QED
  BY <1>3, <1>7, <1>8 DEF h, t

\* Somebody joins the ready list behind a running process that is no weaker.
LEMMA EnterKeeps ==
    ASSUME LevelsOK, NEW cur, NEW q, QueueOK(cur, q), NEW p \in All \ Runnable(cur, q),
           Level(cur) <= Level(p)
    PROVE  QueueOK(cur, QueueUp(q, p)) /\ Runnable(cur, QueueUp(q, p)) = Runnable(cur, q) \cup {p}
<1> DEFINE r == QueueUp(q, p)
<1>1. /\ r \in Seq(All) /\ InOrder(r) /\ Distinct(r) /\ Members(r) = Members(q) \cup {p}
      /\ p # cur /\ Len(q) \in Nat /\ Len(r) \in Nat
  BY QueueUpKeeps, LenProperties DEF QueueOK, Runnable
<1> HIDE DEF r
<1>2. \A x \in Members(r) : Level(cur) <= Level(x)
  BY <1>1 DEF QueueOK, Members
<1>3. \A i \in 1 .. Len(r) : Level(cur) <= Level(r[i])
  BY <1>2 DEF Members
<1> QED
  BY <1>1, <1>3 DEF QueueOK, Runnable, r

\* A stronger process takes the processor, and its holder goes back in line.
LEMMA PreemptKeeps ==
    ASSUME LevelsOK, NEW cur, NEW q, QueueOK(cur, q), NEW p \in All \ Runnable(cur, q),
           Level(p) < Level(cur)
    PROVE  QueueOK(p, QueueUp(q, cur)) /\ Runnable(p, QueueUp(q, cur)) = Runnable(cur, q) \cup {p}
<1> DEFINE r == QueueUp(q, cur)
<1>1. /\ r \in Seq(All) /\ InOrder(r) /\ Distinct(r) /\ Members(r) = Members(q) \cup {cur}
      /\ p # cur /\ p \notin Members(r) /\ cur \in All /\ Len(r) \in Nat
  BY QueueUpKeeps, LenProperties DEF QueueOK, Runnable
<1> HIDE DEF r
<1>2. \A x \in Members(r) : Level(p) <= Level(x)
  <2> SUFFICES ASSUME NEW x \in Members(r), x # cur PROVE Level(p) <= Level(x)
    BY <1>1, LevelTypes
  <2>1. PICK i \in 1 .. Len(q) : x = q[i]
    BY <1>1 DEF Members
  <2>2. x \in All /\ Level(cur) <= Level(x)
    BY <2>1, ElementOfSeq DEF QueueOK
  <2> QED
    BY <1>1, <2>2, LevelTypes
<1>3. \A i \in 1 .. Len(r) : Level(p) <= Level(r[i])
  BY <1>2 DEF Members
<1> QED
  BY <1>1, <1>3 DEF QueueOK, Runnable, r

\* A time slice ends: the processor goes to the first of the same level.
LEMMA SliceKeeps ==
    ASSUME LevelsOK, NEW cur, NEW q, QueueOK(cur, q), q # <<>>, Level(Head(q)) = Level(cur)
    PROVE  /\ QueueOK(Head(q), QueueUp(Tail(q), cur))
           /\ Runnable(Head(q), QueueUp(Tail(q), cur)) = Runnable(cur, q)
<1> DEFINE h == Head(q)
           t == Tail(q)
<1>1. QueueOK(h, t) /\ Runnable(h, t) = Runnable(cur, q) \ {cur}
  BY SwitchKeeps
<1>2. cur \in All /\ cur \in Runnable(cur, q)
  BY DEF QueueOK, Runnable
<1>3. Level(h) = Level(cur) /\ Level(cur) \in Int
  BY <1>2, LevelTypes
<1> HIDE DEF h, t
<1>4. cur \in All \ Runnable(h, t) /\ Level(h) <= Level(cur)
  BY <1>1, <1>2, <1>3
<1>5. QueueOK(h, QueueUp(t, cur)) /\ Runnable(h, QueueUp(t, cur)) = Runnable(h, t) \cup {cur}
  BY <1>1, <1>4, EnterKeeps
<1> QED
  BY <1>1, <1>2, <1>5 DEF h, t

Blockable(p) == call[p].pc # "gone"

\* unblockProc lets p run if it was blocked, and nobody else stops being able to.
LEMMA UnblockKeeps ==
    ASSUME LevelsOK, QueueOK(Current, ready), NEW p \in All, UnblockProc(p)
    PROVE  /\ QueueOK(Current', ready')
           /\ Runnable(Current', ready') =
                 IF Blockable(p) THEN Runnable(Current, ready) \cup {p}
                 ELSE Runnable(Current, ready)
<1>1. Blocked(p) <=> Blockable(p) /\ p \notin Runnable(Current, ready)
  BY RangeIsMembers DEF QueueOK, Blocked, Blockable, Runnable
<1>2. CASE ~Blocked(p)
  BY <1>1, <1>2 DEF UnblockProc
<1>3. CASE Blocked(p) /\ Level(p) >= Level(Current)
  <2>1. Level(Current) <= Level(p) /\ ~(Level(p) < Level(Current))
    BY <1>3, LevelTypes DEF QueueOK
  <2>2. ready' = QueueUp(ready, p) /\ Current' = Current
    BY <1>3, <2>1 DEF UnblockProc
  <2> QED
    BY <1>1, <1>3, <2>1, <2>2, EnterKeeps
<1>4. CASE Blocked(p) /\ Level(p) < Level(Current)
  <2>1. ~(Level(p) >= Level(Current))
    BY <1>4, LevelTypes DEF QueueOK
  <2>2. ready' = QueueUp(ready, Current) /\ Current' = p
    BY <1>4, <2>1 DEF UnblockProc
  <2> QED
    BY <1>1, <1>4, <2>2, PreemptKeeps
<1> QED
  BY <1>2, <1>3, <1>4 DEF UnblockProc

-----------------------------------------------------------------------------
(***************************************************************************)
(* Types.                                                                  *)
(***************************************************************************)
Delivery == [msg : Message \cup {NULL}, by : All, box : Boxes]

Outcomes == {"running", "halted", "out_of_bounds", "sentinel_blocked", "null_pointer"}

\* The entries of processTable on the three lists of a box are among the n taken.
Waiters(box) ==
    Members(box.waitingToReceive) \cup Members(box.waitingToSend) \cup Members(box.getCorrectOrder)

BoxOK(box, n) == box \in MailBox /\ Waiters(box) \subseteq 1 .. n

TableOK(T, n) == T \in [Boxes -> MailBox] /\ \A b \in Boxes : BoxOK(T[b], n)

ProcsOK(P) == P \in Seq(Phase2Proc) /\ Len(P) <= MAXPROC

CoreOK ==
    /\ TableOK(MailBoxTable, Len(processTable))
    /\ MailSlotTable \in [MailSlots -> MailSlot]
    /\ nextSlot \in MailSlots
    /\ numSlotsUsed \in Int
    /\ ProcsOK(processTable)
    /\ call \in [All -> Call]
    /\ delivered \in Seq(Delivery)
    /\ outcome \in Outcomes

ClientsOK ==
    /\ clients \in DOMAIN Clients
    /\ nextMid \in 0 .. MaxMid \cup {DEVICES + Len(Client.opened)}
    /\ LevelsOK
    /\ sends \in [Procs \cup {NULL} -> Nat]

TypeInv == CoreOK /\ QueueOK(Current, ready) /\ ClientsOK

LEMMA InvMailboxTypeOK == TypeInv => MailboxTypeOK
<1> SUFFICES ASSUME TypeInv PROVE MailboxTypeOK
  OBVIOUS
<1>1. ready \in Seq(All \ {Current})
  <2>1. ready \in Seq(All) /\ Current \notin Members(ready)
    BY DEF TypeInv, CoreOK, QueueOK
  <2>2. Len(ready) \in Nat /\ \A i \in 1 .. Len(ready) : ready[i] \in All \ {Current}
    BY <2>1, ElementOfSeq, LenProperties DEF Members
  <2>3. ready = [i \in 1 .. Len(ready) |-> ready[i]]
    BY <2>1, LenProperties
  <2> QED
    BY <2>2, <2>3
<1> QED
  BY <1>1 DEF TypeInv, CoreOK, ClientsOK, QueueOK, TableOK, ProcsOK, Outcomes, MailboxTypeOK

LEMMA BoxFacts ==
    ASSUME NEW box, NEW n \in Nat, BoxOK(box, n)
    PROVE  /\ box \in MailBox
           /\ Members(box.waitingToReceive) \subseteq 1 .. n
           /\ Members(box.waitingToSend) \subseteq 1 .. n
           /\ Members(box.getCorrectOrder) \subseteq 1 .. n
           /\ box.waitingToReceive \in Seq(1 .. MAXPROC)
           /\ box.waitingToSend \in Seq(1 .. MAXPROC)
           /\ box.getCorrectOrder \in Seq(1 .. MAXPROC)
           /\ box.slots \in Seq(MailSlots)
           /\ box.waitingToReceive # <<>> => Head(box.waitingToReceive) \in 1 .. n
           /\ box.waitingToSend # <<>> => Head(box.waitingToSend) \in 1 .. n
           /\ box.getCorrectOrder # <<>> => Head(box.getCorrectOrder) \in 1 .. n
<1>1. /\ box \in MailBox
      /\ Members(box.waitingToReceive) \subseteq 1 .. n
      /\ Members(box.waitingToSend) \subseteq 1 .. n
      /\ Members(box.getCorrectOrder) \subseteq 1 .. n
  BY DEF BoxOK, Waiters
<1>2. /\ box.waitingToReceive \in Seq(1 .. MAXPROC)
      /\ box.waitingToSend \in Seq(1 .. MAXPROC)
      /\ box.getCorrectOrder \in Seq(1 .. MAXPROC)
      /\ box.slots \in Seq(MailSlots)
  BY <1>1 DEF MailBox
<1>3. \A q \in Seq(1 .. MAXPROC) : q # <<>> => Head(q) \in Members(q)
  BY TailMembers
<1> QED
  BY <1>1, <1>2, <1>3

\* What a longer processTable, or shorter lists, leave true.
LEMMA BoxGrows ==
    ASSUME NEW T, NEW n \in Nat, NEW m \in Nat, n <= m, TableOK(T, n),
           NEW b \in Boxes, NEW box, BoxOK(box, m)
    PROVE  TableOK([T EXCEPT ![b] = box], m)
BY DEF TableOK, BoxOK

LEMMA BoxChanges ==
    ASSUME NEW n \in Nat, TableOK(MailBoxTable, n), NEW b \in Boxes, NEW box, BoxOK(box, n),
           MailBoxTable' = [MailBoxTable EXCEPT ![b] = box]
    PROVE  TableOK(MailBoxTable', n)
BY DEF TableOK, BoxOK

\* The new last of a list is the new entry.
LEMMA EntryAppended ==
    ASSUME NEW q \in Seq(1 .. MAXPROC), NEW n \in Nat, n < MAXPROC, Members(q) \subseteq 1 .. n
    PROVE  Append(q, n+1) \in Seq(1 .. MAXPROC) /\ Members(Append(q, n+1)) \subseteq 1 .. n+1
<1> DEFINE e == n+1
           S == 1 .. MAXPROC
<1>1. e \in S
  BY MailboxAssumption
<1>2. q \in Seq(S)
  OBVIOUS
<1> HIDE DEF e, S
<1>3. Append(q, e) \in Seq(S) /\ Members(Append(q, e)) = Members(q) \cup {e}
  BY <1>1, <1>2, AppendProperties, AppendMembers
<1> QED
  BY <1>3 DEF e, S

LEMMA EntryTaken ==
    ASSUME NEW q \in Seq(1 .. MAXPROC), q # <<>>, NEW n \in Nat, Members(q) \subseteq 1 .. n
    PROVE  Tail(q) \in Seq(1 .. MAXPROC) /\ Members(Tail(q)) \subseteq 1 .. n
BY TailMembers

\* The boxes that a process that blocks leaves behind, n being the entries taken so far.
LEMMA BlockBoxes ==
    ASSUME NEW box, NEW n \in Nat, n < MAXPROC, BoxOK(box, n),
           NEW m \in Message \cup {NULL}, NEW limit \in Nat
    PROVE  /\ BoxOK([box EXCEPT !.waitingToSend = Append(@, n+1), !.zeroSlot = m], n+1)
           /\ BoxOK([box EXCEPT !.waitingToSend = Append(@, n+1)], n+1)
           /\ BoxOK([box EXCEPT !.waitingToReceive = Append(@, n+1)], n+1)
           /\ BoxOK([box EXCEPT !.waitingToReceive = Append(@, n+1), !.recv_size = limit], n+1)
           /\ BoxOK([box EXCEPT !.getCorrectOrder = Append(@, n+1)], n+1)
<1>1. /\ box \in MailBox
      /\ Members(box.waitingToReceive) \subseteq 1 .. n+1
      /\ Members(box.waitingToSend) \subseteq 1 .. n+1
      /\ Members(box.getCorrectOrder) \subseteq 1 .. n+1
  <2>1. 1 .. n \subseteq 1 .. n+1
    OBVIOUS
  <2> QED
    BY <2>1, BoxFacts
<1>2. /\ Append(box.waitingToReceive, n+1) \in Seq(1 .. MAXPROC)
      /\ Members(Append(box.waitingToReceive, n+1)) \subseteq 1 .. n+1
  BY BoxFacts, EntryAppended
<1>3. /\ Append(box.waitingToSend, n+1) \in Seq(1 .. MAXPROC)
      /\ Members(Append(box.waitingToSend, n+1)) \subseteq 1 .. n+1
  BY BoxFacts, EntryAppended
<1>4. /\ Append(box.getCorrectOrder, n+1) \in Seq(1 .. MAXPROC)
      /\ Members(Append(box.getCorrectOrder, n+1)) \subseteq 1 .. n+1
  BY BoxFacts, EntryAppended
<1>5. BoxOK([box EXCEPT !.waitingToSend = Append(@, n+1), !.zeroSlot = m], n+1)
  BY <1>1, <1>3 DEF BoxOK, Waiters, MailBox
<1>6. BoxOK([box EXCEPT !.waitingToSend = Append(@, n+1)], n+1)
  BY <1>1, <1>3 DEF BoxOK, Waiters, MailBox
<1>7. BoxOK([box EXCEPT !.waitingToReceive = Append(@, n+1)], n+1)
  BY <1>1, <1>2 DEF BoxOK, Waiters, MailBox
<1>8. BoxOK([box EXCEPT !.waitingToReceive = Append(@, n+1), !.recv_size = limit], n+1)
  BY <1>1, <1>2 DEF BoxOK, Waiters, MailBox
<1>9. BoxOK([box EXCEPT !.getCorrectOrder = Append(@, n+1)], n+1)
  BY <1>1, <1>4 DEF BoxOK, Waiters, MailBox
<1> QED
  BY <1>5, <1>6, <1>7, <1>8, <1>9

\* Where an element of a list is.
LEMMA PlaceOf ==
    ASSUME NEW S, NEW q \in Seq(S), NEW e \in Range(q)
    PROVE  Place(q, e) \in 1 .. Len(q) /\ q[Place(q, e)] = e
<1>1. DOMAIN q = 1 .. Len(q) /\ \E i \in DOMAIN q : q[i] = e
  BY LenProperties DEF Range
<1> QED
  BY <1>1 DEF Place

LEMMA SlotTaken ==
    ASSUME NEW box \in MailBox, NEW k \in Range(box.slots)
    PROVE  LET q == box.slots
               r == RemoveAt(q, Place(q, k))
           IN  /\ k \in MailSlots
               /\ r \in Seq(MailSlots) /\ Len(r) = Len(q) - 1 /\ Len(q) \in Nat \ {0}
               /\ Distinct(q) => Distinct(r) /\ Members(r) = Members(q) \ {k}
<1> DEFINE q == box.slots
           i == Place(q, k)
<1>1. q \in Seq(MailSlots)
  BY DEF MailBox
<1>2. i \in 1 .. Len(q) /\ q[i] = k /\ Len(q) \in Nat
  BY <1>1, PlaceOf, LenProperties
<1> HIDE DEF q, i
<1>3. RemoveAt(q, i) \in Seq(MailSlots) /\ Len(RemoveAt(q, i)) = Len(q) - 1
  BY <1>1, <1>2, RemoveAtElements
<1>4. Distinct(q) => Members(RemoveAt(q, i)) = Members(q) \ {k}
  BY <1>1, <1>2, RemoveAtMembers
<1>5. Distinct(q) => Distinct(RemoveAt(q, i))
  BY <1>1, <1>2, RemoveAtDistinct
<1>6. k \in MailSlots
  BY <1>1, <1>2, ElementOfSeq
<1> QED
  BY <1>2, <1>3, <1>4, <1>5, <1>6 DEF q, i

\* The boxes that the other steps leave behind.
LEMMA OtherBoxes ==
    ASSUME NEW box, NEW n \in Nat, BoxOK(box, n), NEW m \in Message \cup {NULL}
    PROVE  /\ BoxOK([box EXCEPT !.nextInLineMessageNumber = @ + 1], n)
           /\ BoxOK([box EXCEPT !.numSlotsUsed = @ + 1], n)
           /\ BoxOK([box EXCEPT !.numSlotsUsed = @ - 1], n)
           /\ BoxOK([box EXCEPT !.status = UNUSED], n)
           /\ \A k \in MailSlots :
                BoxOK([box EXCEPT !.numMessagesSent = @ + 1, !.slots = Append(@, k)], n)
           /\ \A k \in Range(box.slots) : BoxOK(WithoutSlot(box, k), n)
           /\ box.waitingToSend # <<>> => BoxOK(WithoutSender(box), n)
           /\ box.getCorrectOrder # <<>> => BoxOK([box EXCEPT !.getCorrectOrder = Tail(@)], n)
           /\ box.waitingToReceive # <<>> =>
                /\ BoxOK([box EXCEPT !.waitingToReceive = Tail(@)], n)
                /\ BoxOK([box EXCEPT !.waitingToReceive = Tail(@), !.zeroSlot = m], n)
<1>1. /\ box \in MailBox
      /\ Members(box.waitingToReceive) \subseteq 1 .. n
      /\ Members(box.waitingToSend) \subseteq 1 .. n
      /\ Members(box.getCorrectOrder) \subseteq 1 .. n
  BY BoxFacts
<1>2. box.waitingToReceive # <<>> =>
         /\ Tail(box.waitingToReceive) \in Seq(1 .. MAXPROC)
         /\ Members(Tail(box.waitingToReceive)) \subseteq 1 .. n
  BY BoxFacts, EntryTaken
<1>3. box.waitingToSend # <<>> =>
         /\ Tail(box.waitingToSend) \in Seq(1 .. MAXPROC)
         /\ Members(Tail(box.waitingToSend)) \subseteq 1 .. n
  BY BoxFacts, EntryTaken
<1>4. box.getCorrectOrder # <<>> =>
         /\ Tail(box.getCorrectOrder) \in Seq(1 .. MAXPROC)
         /\ Members(Tail(box.getCorrectOrder)) \subseteq 1 .. n
  BY BoxFacts, EntryTaken
<1>5. BoxOK([box EXCEPT !.nextInLineMessageNumber = @ + 1], n)
  <2>1. box.nextInLineMessageNumber + 1 \in Nat
    BY <1>1 DEF MailBox
  <2>2. [box EXCEPT !.nextInLineMessageNumber = @ + 1] \in MailBox
    BY <1>1, <2>1 DEF MailBox
  <2> QED
    BY <1>1, <2>2 DEF BoxOK, Waiters, MailBox
<1>6. BoxOK([box EXCEPT !.numSlotsUsed = @ + 1], n) /\ BoxOK([box EXCEPT !.numSlotsUsed = @ - 1], n)
  <2>1. box.numSlotsUsed + 1 \in Int /\ box.numSlotsUsed - 1 \in Int
    BY <1>1 DEF MailBox
  <2>2. [box EXCEPT !.numSlotsUsed = @ + 1] \in MailBox
    BY <1>1, <2>1 DEF MailBox
  <2>3. [box EXCEPT !.numSlotsUsed = @ - 1] \in MailBox
    BY <1>1, <2>1 DEF MailBox
  <2> QED
    BY <1>1, <2>2, <2>3 DEF BoxOK, Waiters, MailBox
<1>7. BoxOK([box EXCEPT !.status = UNUSED], n)
  BY <1>1 DEF BoxOK, Waiters, MailBox
<1>8. \A k \in MailSlots : BoxOK([box EXCEPT !.numMessagesSent = @ + 1, !.slots = Append(@, k)], n)
  <2> SUFFICES ASSUME NEW k \in MailSlots
               PROVE  BoxOK([box EXCEPT !.numMessagesSent = @ + 1, !.slots = Append(@, k)], n)
    OBVIOUS
  <2>1. Append(box.slots, k) \in Seq(MailSlots)
    BY BoxFacts, AppendProperties
  <2>2. box.numMessagesSent + 1 \in Nat
    BY <1>1 DEF MailBox
  <2>3. [box EXCEPT !.numMessagesSent = @ + 1, !.slots = Append(@, k)] \in MailBox
    BY <1>1, <2>1, <2>2 DEF MailBox
  <2> QED
    BY <1>1, <2>3 DEF BoxOK, Waiters, MailBox
<1>9. \A k \in Range(box.slots) : BoxOK(WithoutSlot(box, k), n)
  <2> SUFFICES ASSUME NEW k \in Range(box.slots) PROVE BoxOK(WithoutSlot(box, k), n)
    OBVIOUS
  <2>1. RemoveAt(box.slots, Place(box.slots, k)) \in Seq(MailSlots)
    BY <1>1, SlotTaken
  <2> QED
    BY <1>1, <2>1 DEF BoxOK, Waiters, MailBox, WithoutSlot
<1>10. box.waitingToSend # <<>> => BoxOK(WithoutSender(box), n)
  BY <1>1, <1>3 DEF BoxOK, Waiters, MailBox, WithoutSender
<1>11. box.getCorrectOrder # <<>> => BoxOK([box EXCEPT !.getCorrectOrder = Tail(@)], n)
  BY <1>1, <1>4 DEF BoxOK, Waiters, MailBox
<1>12. box.waitingToReceive # <<>> => BoxOK([box EXCEPT !.waitingToReceive = Tail(@)], n)
  BY <1>1, <1>2 DEF BoxOK, Waiters, MailBox
<1>13. box.waitingToReceive # <<>> =>
          BoxOK([box EXCEPT !.waitingToReceive = Tail(@), !.zeroSlot = m], n)
  BY <1>1, <1>2 DEF BoxOK, Waiters, MailBox
<1> QED
  BY <1>5, <1>6, <1>7, <1>8, <1>9, <1>10, <1>11, <1>12, <1>13

\* What holds before each step, and after it, of all but the clients' variables.
Before == CoreOK /\ QueueOK(Current, ready) /\ LevelsOK
After == CoreOK' /\ QueueOK(Current', ready')

LEMMA SameProcessor ==
    ASSUME QueueOK(Current, ready), UNCHANGED <<Current, ready>>
    PROVE  QueueOK(Current', ready')
OBVIOUS

LEMMA CallChange ==
    ASSUME Before, NEW c \in Call
    PROVE  [call EXCEPT ![Current] = c] \in [All -> Call]
BY DEF Before, CoreOK

LEMMA HaltKeeps ==
    ASSUME Before, NEW how \in Outcomes, Halt(how)
    PROVE  After
<1>1. outcome' \in Outcomes /\ UNCHANGED core
  BY DEF Halt
<1> QED
  BY <1>1 DEF Before, After, CoreOK, core

\* A process blocks and leaves newBox behind.
LEMMA BlockKeeps ==
    ASSUME Before, NEW b \in Boxes, NEW newBox, NEW c \in Call,
           Len(processTable) < MAXPROC => BoxOK(newBox, Len(processTable) + 1),
           Block(b, newBox, c)
    PROVE  After
<1> DEFINE n == Len(processTable)
<1>1. n \in Nat /\ n <= MAXPROC /\ processTable \in Seq(Phase2Proc) /\ MAXPROC \in Nat
  BY LenProperties, MailboxAssumption DEF Before, CoreOK, ProcsOK
<1>2. CASE n = MAXPROC \/ ready = <<>>
  <2>1. Halt("out_of_bounds") \/ Halt("sentinel_blocked")
    BY <1>2 DEF Block
  <2> QED
    BY <2>1, HaltKeeps DEF Outcomes
<1>3. CASE n # MAXPROC /\ ready # <<>>
  <2>1. /\ processTable' = Append(processTable, [pid |-> Current, slotThatHoldsMyMessage |-> NULL])
        /\ MailBoxTable' = [MailBoxTable EXCEPT ![b] = newBox]
        /\ call' = [call EXCEPT ![Current] = [c EXCEPT !.entry = n+1]]
        /\ Current' = Head(ready) /\ ready' = Tail(ready)
        /\ UNCHANGED <<MailSlotTable, nextMid, nextSlot, numSlotsUsed, delivered, outcome>>
    BY <1>3 DEF Block, NextEntry
  <2>2. QueueOK(Current', ready')
    BY <2>1, <1>3, SwitchKeeps DEF Before
  <2>3. [pid |-> Current, slotThatHoldsMyMessage |-> NULL] \in Phase2Proc
    BY DEF Phase2Proc, Before, QueueOK
  <2>4. processTable' \in Seq(Phase2Proc) /\ Len(processTable') = n+1
    BY <2>1, <2>3, <1>1, AppendProperties
  <2>5. n < MAXPROC /\ n+1 \in Nat /\ n <= n+1 /\ n+1 \in 0 .. MAXPROC /\ n+1 <= MAXPROC
    BY <1>1, <1>3
  <2>6. TableOK(MailBoxTable', n+1)
    <3>1. BoxOK(newBox, n+1) /\ TableOK(MailBoxTable, n)
      BY <2>5 DEF Before, CoreOK
    <3> HIDE DEF n
    <3> QED
      BY <2>1, <2>5, <3>1, <1>1, BoxGrows
  <2>7. [c EXCEPT !.entry = n+1] \in Call
    BY <2>5 DEF Call
  <2>8. call' \in [All -> Call]
    BY <2>1, <2>7, CallChange
  <2> QED
    BY <2>1, <2>2, <2>4, <2>5, <2>6, <2>8 DEF Before, After, CoreOK, ProcsOK
<1> QED
  BY <1>2, <1>3

LEMMA PidOf ==
    ASSUME Before, NEW e \in 1 .. Len(processTable)
    PROVE  processTable[e] \in Phase2Proc /\ processTable[e].pid \in All
<1>1. processTable[e] \in Phase2Proc
  BY ElementOfSeq DEF Before, CoreOK, ProcsOK
<1> QED
  BY <1>1 DEF Phase2Proc

LEMMA TableOf ==
    ASSUME Before, NEW b \in Boxes
    PROVE  /\ Len(processTable) \in Nat /\ processTable \in Seq(Phase2Proc)
           /\ BoxOK(MailBoxTable[b], Len(processTable)) /\ MailBoxTable[b] \in MailBox
           /\ TableOK(MailBoxTable, Len(processTable))
BY LenProperties DEF Before, CoreOK, TableOK, ProcsOK, BoxOK

\* A process is woken, and the caller's box, call and count change.
WakeOK ==
    /\ TableOK(MailBoxTable', Len(processTable))
    /\ call' \in [All -> Call]
    /\ numSlotsUsed' \in Int
    /\ QueueOK(Current', ready')

LEMMA WakeNextKeeps ==
    ASSUME Before, NEW b \in Boxes, NEW box, BoxOK(box, Len(processTable)), NEW c \in Call,
           WakeNextInOrder(b, box, c)
    PROVE  WakeOK
<1> DEFINE n == Len(processTable)
           e == Head(box.getCorrectOrder)
<1>1. n \in Nat /\ TableOK(MailBoxTable, n) /\ BoxOK(box, n)
  BY TableOf
<1> HIDE DEF n
<1>2. CASE box.getCorrectOrder # <<>>
  <2>1. /\ MailBoxTable' = [MailBoxTable EXCEPT ![b] = [box EXCEPT !.getCorrectOrder = Tail(@)]]
        /\ call' = [call EXCEPT ![Current] = [c EXCEPT !.pc = "sendSort"]]
        /\ UnblockProc(processTable[e].pid)
        /\ UNCHANGED numSlotsUsed
    BY <1>2 DEF WakeNextInOrder
  <2>2. BoxOK([box EXCEPT !.getCorrectOrder = Tail(@)], n)
    BY <1>1, <1>2, OtherBoxes
  <2>3. TableOK(MailBoxTable', n)
    BY <1>1, <2>1, <2>2, BoxChanges
  <2>4. [c EXCEPT !.pc = "sendSort"] \in Call
    BY DEF Call
  <2>5. call' \in [All -> Call]
    BY <2>1, <2>4, CallChange
  <2>6. e \in 1 .. n
    BY <1>1, <1>2, BoxFacts
  <2>7. processTable[e].pid \in All
    BY <2>6, PidOf DEF n
  <2>8. QueueOK(Current', ready')
    BY <2>1, <2>7, UnblockKeeps DEF Before
  <2> QED
    BY <2>1, <2>3, <2>5, <2>8 DEF WakeOK, Before, CoreOK, n
<1>3. CASE box.getCorrectOrder = <<>>
  <2>1. /\ MailBoxTable' = [MailBoxTable EXCEPT ![b] = [box EXCEPT !.numSlotsUsed = @ + 1]]
        /\ numSlotsUsed' = numSlotsUsed + 1
        /\ call' = [call EXCEPT ![Current] = Idle]
        /\ UNCHANGED <<Current, ready>>
    BY <1>3 DEF WakeNextInOrder, Returns
  <2>2. BoxOK([box EXCEPT !.numSlotsUsed = @ + 1], n)
    BY <1>1, OtherBoxes
  <2>3. TableOK(MailBoxTable', n)
    BY <1>1, <2>1, <2>2, BoxChanges
  <2>4. Idle \in Call
    BY MailboxAssumption DEF Idle, Call, Boxes
  <2>5. call' \in [All -> Call]
    BY <2>1, <2>4, CallChange
  <2> QED
    BY <2>1, <2>3, <2>5 DEF WakeOK, Before, CoreOK, n
<1> QED
  BY <1>2, <1>3

LEMMA IdleIsCall == Idle \in Call /\ 0 \in Boxes
BY MailboxAssumption DEF Idle, Call, Boxes

LEMMA PutInSlotKeeps ==
    ASSUME Before, NEW b \in Boxes, NEW box, BoxOK(box, Len(processTable)), NEW c \in Call,
           NEW k \in MailSlots, PutInSlot(b, box, c, k)
    PROVE  After
<1> DEFINE n == Len(processTable)
           e == Head(box.waitingToReceive)
           full == [box EXCEPT !.numMessagesSent = @ + 1, !.slots = Append(@, k)]
<1>1. n \in Nat /\ TableOK(MailBoxTable, n) /\ BoxOK(box, n) /\ processTable \in Seq(Phase2Proc)
  BY TableOf
<1>2. /\ nextSlot' = k /\ UNCHANGED <<nextMid, delivered, outcome>>
      /\ MailSlotTable' = [MailSlotTable EXCEPT
                             ![k] = [status |-> CREATED, mboxID |-> b, message |-> c.msg]]
  BY DEF PutInSlot
<1>3. MailSlotTable' \in [MailSlots -> MailSlot]
  <2>1. [status |-> CREATED, mboxID |-> b, message |-> c.msg] \in MailSlot
    BY DEF MailSlot, Call
  <2> QED
    BY <1>2, <2>1 DEF Before, CoreOK
<1>4. BoxOK(full, n) /\ full.waitingToReceive = box.waitingToReceive
  <2>1. BoxOK(full, n)
    BY <1>1, OtherBoxes
  <2> QED
    BY <2>1 DEF BoxOK, MailBox
<1>5. ASSUME WakeOK, Len(processTable') = n, processTable' \in Seq(Phase2Proc)
      PROVE  After
  BY <1>2, <1>3, <1>5 DEF WakeOK, Before, After, CoreOK, ProcsOK
<1> HIDE DEF n
<1>6. CASE ReceiverToWake(box)
  <2>1. /\ processTable' = [processTable EXCEPT ![e].slotThatHoldsMyMessage = k]
        /\ MailBoxTable' = [MailBoxTable EXCEPT ![b] = [full EXCEPT !.waitingToReceive = Tail(@)]]
        /\ call' = [call EXCEPT ![Current] = [c EXCEPT !.pc = "sendWoke"]]
        /\ UnblockProc(processTable[e].pid)
        /\ UNCHANGED numSlotsUsed
    BY <1>6 DEF PutInSlot
  <2>2. box.waitingToReceive # <<>>
    BY <1>6 DEF ReceiverToWake
  <2> HIDE DEF full
  <2>3. BoxOK([full EXCEPT !.waitingToReceive = Tail(@)], n)
    BY <1>1, <1>4, <2>2, OtherBoxes
  <2>4. TableOK(MailBoxTable', n)
    BY <1>1, <2>1, <2>3, BoxChanges
  <2>5. e \in 1 .. n
    BY <1>1, <2>2, BoxFacts
  <2>6. processTable[e] \in Phase2Proc /\ processTable[e].pid \in All
    BY <2>5, PidOf DEF n
  <2>7. QueueOK(Current', ready')
    BY <2>1, <2>6, UnblockKeeps DEF Before
  <2>8. processTable' \in Seq(Phase2Proc) /\ Len(processTable') = n
    <3>1. [processTable[e] EXCEPT !.slotThatHoldsMyMessage = k] \in Phase2Proc
      BY <2>6 DEF Phase2Proc
    <3>2. processTable' = [processTable EXCEPT ![e] = [processTable[e] EXCEPT !.slotThatHoldsMyMessage = k]]
      BY <2>1
    <3> HIDE DEF e
    <3> QED
      BY <3>1, <3>2, <2>5, <1>1, ExceptSeq DEF n
  <2>9. [c EXCEPT !.pc = "sendWoke"] \in Call
    BY DEF Call
  <2>10. call' \in [All -> Call]
    BY <2>1, <2>9, CallChange
  <2> QED
    BY <1>5, <2>1, <2>4, <2>7, <2>8, <2>10 DEF WakeOK, Before, CoreOK, n
<1>7. CASE ~ReceiverToWake(box)
  <2>1. WakeNextInOrder(b, full, c) /\ UNCHANGED processTable
    BY <1>7 DEF PutInSlot
  <2> HIDE DEF full
  <2>2. WakeOK
    BY <1>4, <2>1, WakeNextKeeps DEF n
  <2> QED
    BY <1>1, <1>5, <2>1, <2>2 DEF n
<1> QED
  BY <1>6, <1>7

LEMMA PutMessageKeeps ==
    ASSUME Before, NEW b \in Boxes, NEW box, BoxOK(box, Len(processTable)), NEW c \in Call,
           PutMessage(b, box, c)
    PROVE  After
<1>1. CASE \E k \in MailSlots : PutInSlot(b, box, c, k)
  BY <1>1, PutInSlotKeeps
<1>2. CASE Halt("out_of_bounds")
  BY <1>2, HaltKeeps DEF Outcomes
<1>3. ASSUME NEW i \in MailSlots, nextSlot + i < MAXSLOTS PROVE nextSlot + i \in MailSlots
  BY <1>3, MailboxAssumption DEF MailSlots, Before, CoreOK
<1> QED
  BY <1>1, <1>2, <1>3 DEF PutMessage

\* Whoever a step wakes, its box and nothing else changed.
LEMMA WakeKeeps ==
    ASSUME Before, NEW b \in Boxes, NEW box, BoxOK(box, Len(processTable)),
           MailBoxTable' = [MailBoxTable EXCEPT ![b] = box],
           NEW e \in 1 .. Len(processTable), UnblockProc(processTable[e].pid),
           UNCHANGED <<MailSlotTable, nextMid, nextSlot, numSlotsUsed, processTable, call, outcome>>,
           delivered' \in Seq(Delivery)
    PROVE  After
<1> DEFINE n == Len(processTable)
<1>1. n \in Nat /\ TableOK(MailBoxTable, n) /\ BoxOK(box, n) /\ n' = n
  BY TableOf
<1> HIDE DEF n
<1>2. TableOK(MailBoxTable', n)
  BY <1>1, BoxChanges
<1>3. QueueOK(Current', ready')
  <2>1. processTable[e].pid \in All
    BY PidOf
  <2> QED
    BY <2>1, UnblockKeeps DEF Before
<1> QED
  BY <1>1, <1>2, <1>3 DEF Before, After, CoreOK, n

LEMMA SendMessageKeeps ==
    ASSUME Before, NEW b \in Boxes, NEW m \in Message, SendMessage(b, m)
    PROVE  After
<1> DEFINE old == MailBoxTable[b]
           box == [old EXCEPT !.nextInLineMessageNumber = @ + 1]
           number == old.nextInLineMessageNumber
           c(pc) == [Idle EXCEPT !.pc = pc, !.box = b, !.msg = m, !.number = number]
           n == Len(processTable)
<1>1. n \in Nat /\ BoxOK(old, n) /\ old \in MailBox /\ number \in Nat
  BY TableOf DEF MailBox
<1>2. BoxOK(box, n)
  BY <1>1, OtherBoxes
<1>3. c("sendZero") \in Call /\ c("sendFull") \in Call /\ c("user") \in Call
  BY <1>1, IdleIsCall DEF Call
<1>4. \/ Block(b, [box EXCEPT !.waitingToSend = Append(@, NextEntry), !.zeroSlot = m],
               c("sendZero"))
      \/ /\ ReceiverToWake(box)
         /\ MailBoxTable' = [MailBoxTable EXCEPT
                 ![b] = [box EXCEPT !.waitingToReceive = Tail(@), !.zeroSlot = m]]
         /\ UnblockProc(processTable[Head(box.waitingToReceive)].pid)
         /\ UNCHANGED <<MailSlotTable, nextMid, nextSlot, numSlotsUsed,
                          processTable, call, delivered, outcome>>
      \/ Block(b, [box EXCEPT !.waitingToSend = Append(@, NextEntry)], c("sendFull"))
      \/ PutMessage(b, box, c("user"))
  BY DEF SendMessage
<1> HIDE DEF box, c, old, number
<1>5. CASE Block(b, [box EXCEPT !.waitingToSend = Append(@, NextEntry), !.zeroSlot = m],
                 c("sendZero"))
  <2>1. n < MAXPROC =>
          BoxOK([box EXCEPT !.waitingToSend = Append(@, NextEntry), !.zeroSlot = m], n + 1)
    BY <1>1, <1>2, BlockBoxes DEF NextEntry
  <2> QED
    BY <1>3, <1>5, <2>1, BlockKeeps
<1>6. CASE Block(b, [box EXCEPT !.waitingToSend = Append(@, NextEntry)], c("sendFull"))
  <2>1. n < MAXPROC => BoxOK([box EXCEPT !.waitingToSend = Append(@, NextEntry)], n + 1)
    BY <1>1, <1>2, BlockBoxes DEF NextEntry
  <2> QED
    BY <1>3, <1>6, <2>1, BlockKeeps
<1>7. CASE PutMessage(b, box, c("user"))
  BY <1>2, <1>3, <1>7, PutMessageKeeps
<1>8. CASE /\ ReceiverToWake(box)
           /\ MailBoxTable' = [MailBoxTable EXCEPT
                 ![b] = [box EXCEPT !.waitingToReceive = Tail(@), !.zeroSlot = m]]
           /\ UnblockProc(processTable[Head(box.waitingToReceive)].pid)
           /\ UNCHANGED <<MailSlotTable, nextMid, nextSlot, numSlotsUsed,
                          processTable, call, delivered, outcome>>
  <2> DEFINE new == [box EXCEPT !.waitingToReceive = Tail(@), !.zeroSlot = m]
             e == Head(box.waitingToReceive)
  <2>1. box.waitingToReceive # <<>>
    BY <1>8 DEF ReceiverToWake
  <2>2. BoxOK(new, n) /\ e \in 1 .. n
    BY <1>1, <1>2, <2>1, OtherBoxes, BoxFacts
  <2>3. delivered' \in Seq(Delivery)
    BY <1>8 DEF Before, CoreOK
  <2> HIDE DEF new, e
  <2> QED
    BY <1>8, <2>2, <2>3, WakeKeeps DEF new, e
<1> QED
  BY <1>4, <1>5, <1>6, <1>7, <1>8

LEMMA ReturnKeeps ==
    ASSUME Before, ReturnOnly
    PROVE  After
<1>1. call' \in [All -> Call]
  BY IdleIsCall, CallChange DEF ReturnOnly, Returns
<1> QED
  BY <1>1 DEF ReturnOnly, Before, After, CoreOK

LEMMA GotKeeps ==
    ASSUME Before, NEW m \in Message \cup {NULL}, NEW b \in Boxes, Got(m, b)
    PROVE  delivered' \in Seq(Delivery)
<1>1. [msg |-> m, by |-> Current, box |-> b] \in Delivery
  BY DEF Delivery, Before, QueueOK
<1> QED
  BY <1>1, AppendProperties DEF Got, Before, CoreOK

\* The box that loses the message of slot k, and the one that loses its first
\* waiting sender too.
LEMMA TakenBoxes ==
    ASSUME NEW box, NEW n \in Nat, BoxOK(box, n), NEW k \in Range(box.slots)
    PROVE  /\ BoxOK([WithoutSlot(box, k) EXCEPT !.numSlotsUsed = @ - 1], n)
           /\ SenderToWake(box) => BoxOK(WithoutSender(WithoutSlot(box, k)), n)
<1> DEFINE rest == WithoutSlot(box, k)
<1>1. BoxOK(rest, n) /\ box \in MailBox
  BY OtherBoxes DEF BoxOK
<1>2. rest.waitingToSend = box.waitingToSend
  BY <1>1 DEF WithoutSlot, MailBox
<1> HIDE DEF rest
<1>3. BoxOK([rest EXCEPT !.numSlotsUsed = @ - 1], n)
  BY <1>1, OtherBoxes
<1>4. SenderToWake(box) => BoxOK(WithoutSender(rest), n)
  BY <1>1, <1>2, OtherBoxes DEF SenderToWake
<1> QED
  BY <1>3, <1>4 DEF rest

LEMMA TakeMessageKeeps ==
    ASSUME Before, NEW b \in Boxes, NEW k \in Range(MailBoxTable[b].slots), TakeMessage(b, k)
    PROVE  After
<1> DEFINE n == Len(processTable)
           box == MailBoxTable[b]
           rest == WithoutSlot(box, k)
           e == Head(box.waitingToSend)
<1>1. n \in Nat /\ BoxOK(box, n) /\ box \in MailBox /\ TableOK(MailBoxTable, n)
  BY TableOf
<1>2. k \in MailSlots
  BY <1>1, SlotTaken
<1>3. /\ Got(MailSlotTable[k].message, b)
      /\ MailSlotTable' = [MailSlotTable EXCEPT ![k] = CleanSlot]
      /\ UNCHANGED <<nextMid, nextSlot, processTable, outcome>>
      /\ IF SenderToWake(box)
           THEN /\ MailBoxTable' = [MailBoxTable EXCEPT ![b] = WithoutSender(rest)]
                /\ call' = [call EXCEPT ![Current] = [Idle EXCEPT !.pc = "recvWoke", !.box = b]]
                /\ UnblockProc(processTable[e].pid)
                /\ UNCHANGED numSlotsUsed
           ELSE /\ MailBoxTable' = [MailBoxTable EXCEPT
                                      ![b] = [rest EXCEPT !.numSlotsUsed = @ - 1]]
                /\ numSlotsUsed' = numSlotsUsed - 1
                /\ Returns
                /\ UNCHANGED <<Current, ready>>
  BY DEF TakeMessage
<1>4. delivered' \in Seq(Delivery)
  <2>1. MailSlotTable[k].message \in Message \cup {NULL}
    BY <1>2 DEF Before, CoreOK, MailSlot
  <2> QED
    BY <1>3, <2>1, GotKeeps
<1>5. MailSlotTable' \in [MailSlots -> MailSlot]
  <2>1. CleanSlot \in MailSlot
    BY DEF CleanSlot, MailSlot
  <2> QED
    BY <1>3, <2>1 DEF Before, CoreOK
<1>6. ASSUME WakeOK PROVE After
  BY <1>3, <1>4, <1>5, <1>6 DEF WakeOK, Before, After, CoreOK
<1>7. /\ BoxOK([rest EXCEPT !.numSlotsUsed = @ - 1], n)
      /\ SenderToWake(box) => BoxOK(WithoutSender(rest), n)
  BY <1>1, TakenBoxes
<1> HIDE DEF rest, n
<1>8. CASE SenderToWake(box)
  <2>1. TableOK(MailBoxTable', n)
    BY <1>1, <1>3, <1>7, <1>8, BoxChanges
  <2>2. e \in 1 .. n
    BY <1>1, <1>8, BoxFacts DEF SenderToWake
  <2>3. QueueOK(Current', ready')
    <3>1. processTable[e].pid \in All
      BY <2>2, PidOf DEF n
    <3> QED
      BY <1>3, <1>8, <3>1, UnblockKeeps DEF Before
  <2>4. call' \in [All -> Call]
    <3>1. [Idle EXCEPT !.pc = "recvWoke", !.box = b] \in Call
      BY IdleIsCall DEF Call
    <3> QED
      BY <1>3, <1>8, <3>1, CallChange
  <2> QED
    BY <1>3, <1>6, <1>8, <2>1, <2>3, <2>4 DEF WakeOK, Before, CoreOK, n
<1>9. CASE ~SenderToWake(box)
  <2>1. TableOK(MailBoxTable', n)
    <3> DEFINE new == [rest EXCEPT !.numSlotsUsed = @ - 1]
    <3>1. BoxOK(new, n) /\ MailBoxTable' = [MailBoxTable EXCEPT ![b] = new]
      BY <1>3, <1>7, <1>9
    <3> HIDE DEF new
    <3> QED
      BY <1>1, <3>1, BoxChanges
  <2>2. call' \in [All -> Call]
    BY <1>3, <1>9, IdleIsCall, CallChange DEF Returns
  <2>3. numSlotsUsed' \in Int
    BY <1>3, <1>9 DEF Before, CoreOK
  <2> QED
    BY <1>3, <1>6, <1>9, <2>1, <2>2, <2>3 DEF WakeOK, Before, n
<1> QED
  BY <1>8, <1>9

LEMMA ReceiveZeroKeeps ==
    ASSUME Before, NEW b \in Boxes, ReceiveZero(b)
    PROVE  After
<1> DEFINE n == Len(processTable)
           box == MailBoxTable[b]
           e == Head(box.waitingToSend)
<1>1. n \in Nat /\ BoxOK(box, n) /\ box \in MailBox
  BY TableOf
<1>2. CASE SenderToWake(box)
  <2>1. /\ Got(box.zeroSlot, b)
        /\ MailBoxTable' = [MailBoxTable EXCEPT ![b] = WithoutSender(box)]
        /\ UnblockProc(processTable[e].pid)
        /\ UNCHANGED <<MailSlotTable, nextMid, nextSlot, numSlotsUsed,
                            processTable, call, outcome>>
    BY <1>2 DEF ReceiveZero
  <2>2. delivered' \in Seq(Delivery)
    <3>1. box.zeroSlot \in Message \cup {NULL}
      BY <1>1 DEF MailBox
    <3> QED
      BY <2>1, <3>1, GotKeeps
  <2>3. BoxOK(WithoutSender(box), n) /\ e \in 1 .. n
    BY <1>1, <1>2, OtherBoxes, BoxFacts DEF SenderToWake
  <2> HIDE DEF e
  <2> QED
    BY <2>1, <2>2, <2>3, WakeKeeps DEF e
<1>3. CASE Block(b, [box EXCEPT !.waitingToReceive = Append(@, NextEntry)],
                 [Idle EXCEPT !.pc = "recvZero", !.box = b])
  <2>1. n < MAXPROC => BoxOK([box EXCEPT !.waitingToReceive = Append(@, NextEntry)], n + 1)
    BY <1>1, BlockBoxes DEF NextEntry
  <2>2. [Idle EXCEPT !.pc = "recvZero", !.box = b] \in Call
    BY IdleIsCall DEF Call
  <2> QED
    BY <1>3, <2>1, <2>2, BlockKeeps
<1> QED
  BY <1>2, <1>3 DEF ReceiveZero

LEMMA HeadIsListed ==
    ASSUME Before, NEW b \in Boxes, MailBoxTable[b].slots # <<>>
    PROVE  Head(MailBoxTable[b].slots) \in Range(MailBoxTable[b].slots)
<1>1. MailBoxTable[b].slots \in Seq(MailSlots)
  BY TableOf DEF MailBox
<1> QED
  BY <1>1, TailMembers, RangeIsMembers

LEMMA ReceiveKeeps ==
    ASSUME Before, NEW b \in Boxes, NEW limit \in Nat,
           MboxReceive(b, limit) \/ MboxCondReceive(b, limit)
    PROVE  After
<1> DEFINE n == Len(processTable)
           box == MailBoxTable[b]
<1>1. n \in Nat /\ BoxOK(box, n) /\ box \in MailBox
  BY TableOf
<1>2. CASE ReceiveZero(b)
  BY <1>2, ReceiveZeroKeeps
<1>3. CASE Block(b, [box EXCEPT !.waitingToReceive = Append(@, NextEntry), !.recv_size = limit],
                 [Idle EXCEPT !.pc = "recvEmpty", !.box = b, !.limit = limit])
  <2>1. n < MAXPROC => BoxOK([box EXCEPT !.waitingToReceive = Append(@, NextEntry),
                                         !.recv_size = limit], n + 1)
    BY <1>1, BlockBoxes DEF NextEntry
  <2>2. [Idle EXCEPT !.pc = "recvEmpty", !.box = b, !.limit = limit] \in Call
    BY IdleIsCall DEF Call
  <2> QED
    BY <1>3, <2>1, <2>2, BlockKeeps
<1>4. CASE box.slots # <<>> /\ TakeMessage(b, Head(box.slots))
  BY <1>4, HeadIsListed, TakeMessageKeeps
<1> QED
  BY <1>2, <1>3, <1>4 DEF MboxReceive, MboxCondReceive

\* Where a process inside a call is.
LEMMA CallOf ==
    ASSUME Before
    PROVE  /\ Current \in All /\ call[Current] \in Call /\ call[Current].box \in Boxes
           /\ call[Current].limit \in Nat /\ call[Current].number \in Nat
           /\ call[Current].entry \in 0 .. MAXPROC
BY DEF Before, CoreOK, QueueOK, Call

LEMMA SendResumeKeeps ==
    ASSUME Before, SendResume
    PROVE  After
<1> DEFINE c == call[Current]
           b == c.box
           box == MailBoxTable[b]
           n == Len(processTable)
<1>1. c \in Call /\ b \in Boxes
  BY CallOf
<1>2. n \in Nat /\ BoxOK(box, n) /\ box \in MailBox
  BY <1>1, TableOf
<1>3. CASE ReturnOnly
  BY <1>3, ReturnKeeps
<1>4. CASE PutMessage(b, box, c)
  BY <1>1, <1>2, <1>4, PutMessageKeeps
<1>5. CASE Block(b, [box EXCEPT !.getCorrectOrder = Append(@, NextEntry)],
                 [c EXCEPT !.pc = "sendOrder"])
  <2>1. n < MAXPROC => BoxOK([box EXCEPT !.getCorrectOrder = Append(@, NextEntry)], n + 1)
    BY <1>2, BlockBoxes DEF NextEntry
  <2>2. [c EXCEPT !.pc = "sendOrder"] \in Call
    BY <1>1 DEF Call
  <2> QED
    BY <1>1, <1>5, <2>1, <2>2, BlockKeeps
<1> QED
  BY <1>3, <1>4, <1>5 DEF SendResume

LEMMA SendGoesOnKeeps ==
    ASSUME Before, SendAfterWaking \/ SendSorting \/ SendRendezvous
    PROVE  After
<1> DEFINE c == call[Current]
           b == c.box
           box == MailBoxTable[b]
           n == Len(processTable)
<1>1. c \in Call /\ b \in Boxes
  BY CallOf
<1>2. n \in Nat /\ BoxOK(box, n) /\ box \in MailBox
  BY <1>1, TableOf
<1>3. ASSUME WakeNextInOrder(b, box, c),
             UNCHANGED <<MailSlotTable, nextMid, nextSlot, processTable, delivered, outcome>>
      PROVE  After
  <2>1. WakeOK
    BY <1>1, <1>2, <1>3, WakeNextKeeps
  <2> QED
    BY <1>3, <2>1 DEF WakeOK, Before, After, CoreOK
<1>4. ASSUME Returns,
             UNCHANGED <<MailBoxTable, numSlotsUsed, Current, ready,
                         MailSlotTable, nextMid, nextSlot, processTable, delivered, outcome>>
      PROVE  After
  <2>1. ReturnOnly
    BY <1>4 DEF ReturnOnly
  <2> QED
    BY <2>1, ReturnKeeps
<1>5. CASE SendAfterWaking
  BY <1>3, <1>4, <1>5 DEF SendAfterWaking
<1>6. CASE SendSorting
  BY <1>3, <1>6 DEF SendSorting
<1>7. CASE SendRendezvous
  BY <1>7, ReturnKeeps DEF SendRendezvous
<1> QED
  BY <1>5, <1>6, <1>7

LEMMA ReceiveGoesOnKeeps ==
    ASSUME Before, ReceiveRendezvous \/ ReceiveResume \/ ReceiveAfterWaking
    PROVE  After
<1> DEFINE c == call[Current]
           b == c.box
           box == MailBoxTable[b]
           n == Len(processTable)
<1>1. c \in Call /\ b \in Boxes
  BY CallOf
<1>2. n \in Nat /\ BoxOK(box, n) /\ box \in MailBox /\ TableOK(MailBoxTable, n)
  BY <1>1, TableOf
<1>3. CASE ReceiveRendezvous
  <2>1. delivered' \in Seq(Delivery)
    <3>1. CASE Got(box.zeroSlot, b)
      <4>1. box.zeroSlot \in Message \cup {NULL}
        BY <1>2 DEF MailBox
      <4> QED
        BY <1>1, <3>1, <4>1, GotKeeps
    <3>2. CASE UNCHANGED delivered
      BY <3>2 DEF Before, CoreOK
    <3> QED
      BY <1>3, <3>1, <3>2 DEF ReceiveRendezvous
  <2>2. call' \in [All -> Call]
    BY <1>3, IdleIsCall, CallChange DEF ReceiveRendezvous, Returns
  <2> QED
    BY <1>3, <2>1, <2>2 DEF ReceiveRendezvous, Before, After, CoreOK
<1>4. CASE ReceiveResume
  <2> DEFINE k == processTable[c.entry].slotThatHoldsMyMessage
  <2>1. CASE ReturnOnly
    BY <2>1, ReturnKeeps
  <2>2. CASE Halt("null_pointer")
    BY <2>2, HaltKeeps DEF Outcomes
  <2>3. CASE k \in Range(box.slots) /\ TakeMessage(b, k)
    BY <1>1, <2>3, TakeMessageKeeps
  <2> QED
    BY <1>4, <2>1, <2>2, <2>3 DEF ReceiveResume
<1>5. CASE ReceiveAfterWaking
  <2> DEFINE new == [box EXCEPT !.numSlotsUsed = @ - 1]
  <2>1. MailBoxTable' = [MailBoxTable EXCEPT ![b] = new]
    BY <1>5 DEF ReceiveAfterWaking
  <2>2. BoxOK(new, n)
    BY <1>2, OtherBoxes
  <2> HIDE DEF new, n
  <2>3. TableOK(MailBoxTable', n)
    BY <1>1, <1>2, <2>1, <2>2, BoxChanges
  <2>4. call' \in [All -> Call]
    BY <1>5, IdleIsCall, CallChange DEF ReceiveAfterWaking, Returns
  <2>5. numSlotsUsed' \in Int
    BY <1>5 DEF ReceiveAfterWaking, Before, CoreOK
  <2> QED
    BY <1>5, <2>3, <2>4, <2>5 DEF ReceiveAfterWaking, Before, After, CoreOK, n
<1> QED
  BY <1>3, <1>4, <1>5

\* The first entry of a list, or the one behind e.
LEMMA BehindIsListed ==
    ASSUME NEW S, NEW q \in Seq(S), NEW e, Behind(q, e) # 0
    PROVE  Behind(q, e) \in Members(q)
<1>1. DOMAIN q = 1 .. Len(q)
  BY LenProperties
<1> QED
  BY <1>1 DEF Behind, Members

LEMMA ReleaseKeeps ==
    ASSUME Before, ReleaseNext \/ (\E b \in Boxes : MboxRelease(b))
    PROVE  After
<1> DEFINE n == Len(processTable)
<1>1. CASE ReleaseNext
  <2> DEFINE c == call[Current]
             box == MailBoxTable[c.box]
             q == IF c.pc = "releaseRecv" THEN box.waitingToReceive ELSE box.waitingToSend
             e == Behind(q, c.entry)
  <2>1. c \in Call /\ c.box \in Boxes
    BY CallOf
  <2>2. n \in Nat /\ BoxOK(box, n) /\ box \in MailBox /\ n <= MAXPROC /\ MAXPROC \in Nat
    BY <2>1, TableOf, MailboxAssumption DEF Before, CoreOK, ProcsOK
  <2>3. q \in Seq(1 .. MAXPROC) /\ Members(q) \subseteq 1 .. n
    BY <2>2, BoxFacts
  <2>4. UNCHANGED <<MailBoxTable, MailSlotTable, nextMid, nextSlot, numSlotsUsed,
                       processTable, clients, prio, sends, delivered, outcome>>
    BY <1>1 DEF ReleaseNext
  <2> HIDE DEF q
  <2>5. ASSUME e # 0 PROVE e \in 1 .. n
    BY <2>3, <2>5, BehindIsListed
  <2>6. CASE e # 0 /\ call' = [call EXCEPT ![Current].entry = e] /\ UnblockProc(processTable[e].pid)
    <3>1. e \in 1 .. n
      BY <2>5, <2>6
    <3>2. processTable[e].pid \in All
      BY <3>1, PidOf
    <3>3. QueueOK(Current', ready')
      BY <2>6, <3>2, UnblockKeeps DEF Before
    <3>4. [c EXCEPT !.entry = e] \in Call
      <4>1. e \in 0 .. MAXPROC
        BY <2>2, <3>1
      <4> HIDE DEF e, c
      <4> QED
        BY <2>1, <4>1 DEF Call
    <3>5. call' \in [All -> Call]
      BY <2>6, <3>4, CallChange
    <3> QED
      BY <2>4, <3>3, <3>5 DEF Before, After, CoreOK
  <2>7. CASE /\ call' = [call EXCEPT ![Current] =
                            IF c.pc = "releaseRecv"
                            THEN [c EXCEPT !.pc = "releaseSend", !.entry = 0]
                            ELSE Idle]
             /\ UNCHANGED <<Current, ready>>
    <3>1. [c EXCEPT !.pc = "releaseSend", !.entry = 0] \in Call /\ Idle \in Call
      <4>1. 0 \in 0 .. MAXPROC
        BY <2>2
      <4> HIDE DEF c
      <4> QED
        BY <2>1, <4>1, IdleIsCall DEF Call
    <3>2. call' \in [All -> Call]
      BY <2>7, <3>1, CallChange
    <3> QED
      BY <2>4, <2>7, <3>2 DEF Before, After, CoreOK
  <2> QED
    BY <1>1, <2>6, <2>7 DEF ReleaseNext, q
<1>2. ASSUME NEW b \in Boxes, MboxRelease(b) PROVE After
  <2> DEFINE new == [MailBoxTable[b] EXCEPT !.status = UNUSED]
  <2>1. MailBoxTable' = [MailBoxTable EXCEPT ![b] = new]
    BY <1>2 DEF MboxRelease
  <2>2. BoxOK(new, n) /\ n \in Nat /\ TableOK(MailBoxTable, n)
    BY TableOf, OtherBoxes
  <2> HIDE DEF new, n
  <2>3. TableOK(MailBoxTable', n)
    BY <2>1, <2>2, BoxChanges
  <2>4. [Idle EXCEPT !.pc = "releaseRecv", !.box = b] \in Call
    BY IdleIsCall DEF Call
  <2>5. call' \in [All -> Call]
    BY <1>2, <2>4, CallChange DEF MboxRelease
  <2> QED
    BY <1>2, <2>3, <2>5 DEF MboxRelease, Before, After, CoreOK, n
<1> QED
  BY <1>1, <1>2

-----------------------------------------------------------------------------
\* What the clients do is theirs to choose, within the types of the calls.
LEMMA ClientOf ==
    ASSUME ClientsOK
    PROVE  /\ Client \in Behaviours /\ Client.calls \subseteq Procs \X STRING \X Boxes
           /\ Client.creates \subseteq [slots : Nat, size : Nat]
           /\ Client.opened \in Seq([slots : Nat, size : Nat])
           /\ DEVICES + Len(Client.opened) <= MAXMBOX
           /\ Client.prios \subseteq [Procs -> 1 .. WEAKEST-1]
<1>1. Client \in Behaviours /\ DEVICES + Len(Client.opened) <= MAXMBOX
  BY MailboxAssumption DEF ClientsOK, Client
<1> QED
  BY <1>1 DEF Behaviours

LEMMA CallerOf ==
    ASSUME ClientsOK, NEW op, NEW b, Calls(op, b)
    PROVE  Current \in Procs
BY ClientOf DEF Calls

LEMMA NextMessageOf ==
    ASSUME ClientsOK, NEW p \in Procs \cup {NULL}, NEW size \in Nat
    PROVE  NextMessage(p, size) \in Message
<1>1. sends[p] + 1 \in Nat
  BY DEF ClientsOK
<1> QED
  BY <1>1 DEF NextMessage, Message

LEMMA SendKeeps ==
    ASSUME Before, ClientsOK, NEW b \in Boxes,
           \/ \E size \in Sizes : MboxSend(b, size) \/ MboxCondSend(b, size)
           \/ DeviceInterrupt(b)
    PROVE  After
<1>1. CASE Halt("halted")
  BY <1>1, HaltKeeps DEF Outcomes
<1>2. ASSUME NEW size \in Sizes, MboxSend(b, size) PROVE After
  <2>1. NextMessage(Current, size) \in Message
    BY <1>2, CallerOf, NextMessageOf, MailboxAssumption DEF MboxSend
  <2> QED
    BY <1>1, <1>2, <2>1, SendMessageKeeps DEF MboxSend
<1>3. ASSUME NEW size \in Sizes, MboxCondSend(b, size) PROVE After
  <2>1. NextMessage(Current, size) \in Message
    BY <1>3, CallerOf, NextMessageOf, MailboxAssumption DEF MboxCondSend
  <2> QED
    BY <1>3, <2>1, SendMessageKeeps DEF MboxCondSend
<1>4. CASE DeviceInterrupt(b)
  <2>1. NextMessage(NULL, DeviceMsgSize) \in Message
    BY NextMessageOf DEF DeviceMsgSize
  <2> QED
    BY <1>4, <2>1, SendMessageKeeps DEF DeviceInterrupt
<1> QED
  BY <1>2, <1>3, <1>4

LEMMA QuitKeeps ==
    ASSUME Before, ClientsOK, Quit
    PROVE  After
<1>1. Current \in Procs
  BY CallerOf DEF Quit
<1>2. ready # <<>>
  <2>1. Sentinel \in Members(ready)
    BY <1>1, MailboxAssumption DEF Before, QueueOK
  <2> QED
    BY <2>1 DEF Members
<1>3. QueueOK(Current', ready')
  BY <1>2, SwitchKeeps DEF Before, Quit
<1>4. [Idle EXCEPT !.pc = "gone"] \in Call
  BY IdleIsCall DEF Call
<1>5. call' \in [All -> Call]
  BY <1>4, CallChange DEF Quit
<1> QED
  BY <1>3, <1>5 DEF Quit, Before, After, CoreOK

LEMMA SliceOnly ==
    ASSUME Before, TimeSlice
    PROVE  After
<1>1. QueueOK(Current', ready')
  BY SliceKeeps DEF Before, TimeSlice
<1> QED
  BY <1>1 DEF TimeSlice, Before, After, CoreOK

LEMMA CreateKeeps ==
    ASSUME Before, ClientsOK, NEW args \in Client.creates, MboxCreate(args)
    PROVE  After
<1> DEFINE n == Len(processTable)
<1>1. n \in Nat /\ TableOK(MailBoxTable, n)
  BY IdleIsCall, TableOf
<1>2. args \in [slots : Nat, size : Nat]
  BY ClientOf
<1>3. PICK i \in Boxes : /\ UnmadeAt(i)
                         /\ MailBoxTable' = [MailBoxTable EXCEPT
                               ![(nextMid + i) % MAXMBOX] = Made(@, args)]
  BY DEF MboxCreate
<1> DEFINE b == (nextMid + i) % MAXMBOX
<1>4. b \in Boxes
  <2>1. nextMid \in Nat /\ i \in Nat /\ MAXMBOX \in Nat \ {0}
    BY ClientOf, LenProperties, MailboxAssumption DEF ClientsOK, Boxes
  <2> QED
    BY <2>1 DEF Boxes
<1> HIDE DEF b, n
<1>5. BoxOK(Made(MailBoxTable[b], args), n)
  <2>1. MailBoxTable[b] \in MailBox /\ BoxOK(MailBoxTable[b], n)
    BY <1>1, <1>4 DEF TableOK
  <2>2. Made(MailBoxTable[b], args) \in MailBox
    <3>1. <<>> \in Seq(MailSlots) /\ args.slots \in Nat /\ args.size \in Nat /\ 0 \in Int
      BY <1>2
    <3> QED
      BY <2>1, <3>1 DEF Made, MailBox
  <2> QED
    BY <2>1, <2>2 DEF BoxOK, Waiters, Made, MailBox
<1>6. TableOK(MailBoxTable', n)
  <2> DEFINE new == Made(MailBoxTable[b], args)
  <2>1. MailBoxTable' = [MailBoxTable EXCEPT ![b] = new]
    BY <1>3 DEF b
  <2> HIDE DEF new
  <2> QED
    BY <1>1, <1>4, <1>5, <2>1, BoxChanges DEF new
<1> QED
  BY <1>6 DEF MboxCreate, Before, After, CoreOK, n

\* The core keeps its types in every step.
LEMMA CoreStep ==
    ASSUME Before, ClientsOK, Next
    PROVE  After
<1>1. CASE GoOn
  BY <1>1, SendGoesOnKeeps, SendResumeKeeps, ReceiveGoesOnKeeps, ReleaseKeeps DEF GoOn
<1>2. ASSUME NEW b \in Boxes, NEW limit \in Limits,
             MboxReceive(b, limit) \/ MboxCondReceive(b, limit)
      PROVE  After
  BY <1>2, ReceiveKeeps, MailboxAssumption
<1>3. ASSUME NEW b \in Boxes, MboxRelease(b) PROVE After
  BY <1>3, ReleaseKeeps
<1>4. ASSUME NEW b \in Devices, DeviceInterrupt(b) PROVE After
  <2>1. b \in Boxes
    BY MailboxAssumption DEF Devices, Boxes
  <2> QED
    BY <1>4, <2>1, SendKeeps
<1>5. ASSUME NEW b \in Boxes, NEW size \in Sizes, MboxSend(b, size) \/ MboxCondSend(b, size)
      PROVE  After
  BY <1>5, SendKeeps
<1>6. ASSUME NEW args \in Client.creates, MboxCreate(args) PROVE After
  BY <1>6, CreateKeeps
<1>7. CASE Quit \/ TimeSlice
  BY <1>7, QuitKeeps, SliceOnly
<1> QED
  BY <1>1, <1>2, <1>3, <1>4, <1>5, <1>6, <1>7 DEF Next, Send, Receive

\* Only MboxCreate moves nextMid.
LEMMA MidStays ==
    ASSUME Next
    PROVE  nextMid' = nextMid \/ \E args \in Client.creates : MboxCreate(args)
<1>1. ASSUME NEW b, NEW box, NEW c, Block(b, box, c) PROVE nextMid' = nextMid
  BY <1>1 DEF Block, Halt, core
<1>2. ASSUME NEW b, NEW box, NEW c, PutMessage(b, box, c) PROVE nextMid' = nextMid
  BY <1>2 DEF PutMessage, PutInSlot, Halt, core
<1>3. ASSUME NEW b, NEW m, SendMessage(b, m) PROVE nextMid' = nextMid
  BY <1>1, <1>2, <1>3 DEF SendMessage
<1>4. ASSUME NEW b, NEW k, TakeMessage(b, k) PROVE nextMid' = nextMid
  BY <1>4 DEF TakeMessage
<1>5. CASE GoOn
  BY <1>1, <1>2, <1>4, <1>5 DEF GoOn, SendAfterWaking, SendSorting, SendRendezvous, SendResume,
         ReceiveRendezvous, ReceiveResume, ReceiveAfterWaking, ReleaseNext, ReturnOnly, Halt, core
<1>6. CASE Send
  BY <1>3, <1>6 DEF Send, MboxSend, Halt, core
<1>7. CASE \E b \in Boxes, size \in Sizes : MboxCondSend(b, size)
  BY <1>3, <1>7 DEF MboxCondSend
<1>8. CASE \E b \in Devices : DeviceInterrupt(b)
  BY <1>3, <1>8 DEF DeviceInterrupt
<1>9. CASE Receive
  BY <1>1, <1>4, <1>9 DEF Receive, MboxReceive, ReceiveZero
<1>10. CASE \E b \in Boxes, limit \in Limits : MboxCondReceive(b, limit)
  BY <1>4, <1>10 DEF MboxCondReceive
<1>11. CASE TimeSlice \/ Quit \/ \E b \in Boxes : MboxRelease(b)
  BY <1>11 DEF TimeSlice, Quit, MboxRelease
<1> QED
  BY <1>5, <1>6, <1>7, <1>8, <1>9, <1>10, <1>11 DEF Next

\* Which variables the steps leave alone.
LEMMA SameClients ==
    ASSUME Next
    PROVE  clients' = clients /\ prio' = prio
<1>1. CASE GoOn
  BY <1>1 DEF GoOn, SendAfterWaking, SendSorting, SendRendezvous, SendResume,
         ReceiveRendezvous, ReceiveResume, ReceiveAfterWaking, ReleaseNext
<1>2. CASE Send \/ Receive
  BY <1>2 DEF Send, Receive, MboxSend, MboxReceive
<1>3. CASE \/ TimeSlice \/ Quit
           \/ \E b \in Boxes, size \in Sizes : MboxCondSend(b, size)
           \/ \E b \in Devices : DeviceInterrupt(b)
  BY <1>3 DEF TimeSlice, Quit, MboxCondSend, DeviceInterrupt
<1>4. CASE \/ \E b \in Boxes, limit \in Limits : MboxCondReceive(b, limit)
           \/ \E args \in Client.creates : MboxCreate(args)
           \/ \E b \in Boxes : MboxRelease(b)
  BY <1>4 DEF MboxCondReceive, MboxCreate, MboxRelease
<1> QED
  BY <1>1, <1>2, <1>3, <1>4 DEF Next

\* A sender's count goes up by one when it sends, and at no other time.
LEMMA SendsStep ==
    ASSUME Next
    PROVE  \/ sends' = sends
           \/ \E b \in Boxes, size \in Sizes : MboxSend(b, size) \/ MboxCondSend(b, size)
           \/ \E b \in Devices : DeviceInterrupt(b)
<1>1. CASE GoOn
  BY <1>1 DEF GoOn, SendAfterWaking, SendSorting, SendRendezvous, SendResume,
         ReceiveRendezvous, ReceiveResume, ReceiveAfterWaking, ReleaseNext
<1>2. CASE Receive
  BY <1>2 DEF Receive, MboxReceive
<1>3. CASE TimeSlice \/ Quit
  BY <1>3 DEF TimeSlice, Quit
<1>4. CASE \/ \E b \in Boxes, limit \in Limits : MboxCondReceive(b, limit)
           \/ \E args \in Client.creates : MboxCreate(args)
           \/ \E b \in Boxes : MboxRelease(b)
  BY <1>4 DEF MboxCondReceive, MboxCreate, MboxRelease
<1> QED
  BY <1>1, <1>2, <1>3, <1>4 DEF Next, Send

LEMMA ClientsStep ==
    ASSUME ClientsOK, Before, Next
    PROVE  ClientsOK'
<1>1. clients' = clients /\ prio' = prio /\ Client' = Client
  BY SameClients DEF Client
<1>2. nextMid' \in 0 .. MaxMid \cup {DEVICES + Len(Client.opened)}
  <2>1. ASSUME NEW args \in Client.creates, MboxCreate(args)
        PROVE  nextMid' \in 0 .. MaxMid
    <3>1. PICK i \in Boxes : nextMid + i < MaxMid /\ nextMid' = nextMid + i + 1
      BY <2>1 DEF MboxCreate
    <3>2. nextMid \in Nat /\ i \in Nat /\ MaxMid \in Nat
      BY ClientOf, LenProperties, MailboxAssumption DEF ClientsOK, Boxes
    <3> QED
      BY <3>1, <3>2
  <2> QED
    BY <2>1, MidStays DEF ClientsOK
<1>3. sends' \in [Procs \cup {NULL} -> Nat]
  <2>1. CASE sends' = sends
    BY <2>1 DEF ClientsOK
  <2>2. ASSUME NEW b, NEW size, MboxSend(b, size) \/ MboxCondSend(b, size)
        PROVE  sends' \in [Procs \cup {NULL} -> Nat]
    <3>1. Current \in Procs
      BY <2>2, CallerOf DEF MboxSend, MboxCondSend
    <3> QED
      BY <2>2, <3>1 DEF MboxSend, MboxCondSend, ClientsOK
  <2>3. ASSUME NEW b, DeviceInterrupt(b)
        PROVE  sends' \in [Procs \cup {NULL} -> Nat]
    BY <2>3 DEF DeviceInterrupt, ClientsOK
  <2> QED
    BY <2>1, <2>2, <2>3, SendsStep
<1> QED
  BY <1>1, <1>2, <1>3 DEF ClientsOK, LevelsOK

LEMMA TypeStep == TypeInv /\ [Next]_vars => TypeInv'
<1> SUFFICES ASSUME TypeInv, [Next]_vars PROVE TypeInv'
  OBVIOUS
<1>1. Before /\ ClientsOK
  BY DEF TypeInv, Before, ClientsOK
<1>2. CASE Next
  <2>1. After /\ ClientsOK' /\ prio' = prio
    BY <1>1, <1>2, CoreStep, ClientsStep, SameClients
  <2>2. QueueOK(Current, ready)'
    BY <2>1 DEF After, QueueOK, InOrder, Level
  <2> QED
    BY <2>1, <2>2 DEF TypeInv, After
<1>3. CASE UNCHANGED vars
  <2>1. CoreOK'
    BY <1>1, <1>3 DEF vars, core, CoreOK, Before
  <2>2. QueueOK(Current, ready)'
    BY <1>1, <1>3 DEF vars, core, QueueOK, InOrder, Level, Before
  <2>3. ClientsOK'
    BY <1>1, <1>3 DEF vars, core, ClientsOK, LevelsOK, Client
  <2> QED
    BY <2>1, <2>2, <2>3 DEF TypeInv
<1> QED
  BY <1>2, <1>3

-----------------------------------------------------------------------------
\* A queue of which each is no weaker than the next is in order.
LEMMA SortedIsInOrder ==
    ASSUME LevelsOK, NEW q \in Seq(All), \A i \in 1 .. Len(q)-1 : Level(q[i]) <= Level(q[i+1])
    PROVE  InOrder(q)
<1>1. Len(q) \in Nat /\ \A i \in 1 .. Len(q) : q[i] \in All /\ Level(q[i]) \in Int
  BY LenProperties, ElementOfSeq, LevelTypes
<1> SUFFICES ASSUME NEW i \in 1 .. Len(q), NEW j \in 1 .. Len(q), i < j,
                    ~(Level(q[i]) <= Level(q[j]))
             PROVE  FALSE
  BY DEF InOrder
<1> DEFINE below == {x \in Nat : x > i /\ x <= Len(q) /\ ~(Level(q[i]) <= Level(q[x]))}
<1>2. j \in below /\ below \in SUBSET Nat
  BY <1>1
<1>3. PICK x \in below : \A y \in below : x <= y
  BY <1>2, LeastElement
<1>4. x-1 \in 1 .. Len(q)-1 /\ x-1 \notin below /\ x-1 >= i /\ x \in 1 .. Len(q)
  BY <1>1, <1>3
<1>5. Level(q[x-1]) <= Level(q[x]) /\ Level(q[i]) <= Level(q[x-1])
  BY <1>1, <1>4
<1> QED
  BY <1>1, <1>3, <1>4, <1>5

\* A queue of all the elements of a set, each once.
LEMMA AllOnce ==
    ASSUME NEW S, IsFiniteSet(S), NEW q \in SetToSeqs(S)
    PROVE  q \in Seq(S) /\ Distinct(q) /\ Members(q) = S /\ Len(q) = Cardinality(S)
<1> DEFINE D == 1 .. Cardinality(S)
<1>1. q \in [D -> S] /\ \A i, j \in D : i # j => q[i] # q[j]
  BY DEF SetToSeqs
<1>2. Cardinality(S) \in Nat
  BY FS_CardinalityType
<1>3. IsFiniteSet(D) /\ Cardinality(D) = Cardinality(S)
  BY <1>2, FS_Interval
<1>4. q \in Seq(S) /\ Len(q) = Cardinality(S)
  BY <1>1, <1>2
<1>5. q \in Injection(D, S)
  BY <1>1 DEF Injection, IsInjective
<1>6. q \in Surjection(D, S)
  BY <1>3, <1>5, FS_Injection
<1>7. Members(q) = S
  BY <1>1, <1>4, <1>6 DEF Surjection, Members
<1>8. Distinct(q)
  BY <1>1, <1>4 DEF Distinct
<1> QED
  BY <1>4, <1>7, <1>8

LEMMA InitQueue ==
    ASSUME LevelsOK, Current \in Procs,
           ready \in SetToSeqs(All \ {Current}),
           \A i \in 1 .. Len(ready)-1 : Level(ready[i]) <= Level(ready[i+1]),
           Level(Current) <= Level(ready[1])
    PROVE  QueueOK(Current, ready)
<1> DEFINE S == All \ {Current}
<1>1. IsFiniteSet(S)
  <2>1. IsFiniteSet(All)
    BY MailboxAssumption, FS_AddElement DEF All
  <2> QED
    BY <2>1, FS_Subset
<1>2. ready \in Seq(S) /\ Distinct(ready) /\ Members(ready) = S
  BY <1>1, AllOnce
<1>3. Sentinel \in S
  BY MailboxAssumption DEF All
<1>4. ready \in Seq(All) /\ Current \in All
  BY <1>2 DEF All
<1>5. InOrder(ready)
  BY <1>4, SortedIsInOrder
<1>6. \A i \in 1 .. Len(ready) : Level(Current) <= Level(ready[i])
  <2> SUFFICES ASSUME NEW i \in 1 .. Len(ready) PROVE Level(Current) <= Level(ready[i])
    OBVIOUS
  <2>1. Len(ready) \in Nat /\ ready[i] \in All /\ ready[1] \in All /\ 1 \in 1 .. Len(ready)
    BY <1>4, LenProperties, ElementOfSeq
  <2>2. i = 1 \/ Level(ready[1]) <= Level(ready[i])
    BY <1>5, <2>1 DEF InOrder
  <2>3. Level(Current) \in Int /\ Level(ready[1]) \in Int /\ Level(ready[i]) \in Int
    BY <2>1, <1>4, LevelTypes
  <2> QED
    BY <2>2, <2>3
<1> QED
  BY <1>2, <1>3, <1>4, <1>5, <1>6 DEF QueueOK

LEMMA InitBoxes ==
    ASSUME ClientsOK, NEW b \in Boxes
    PROVE  /\ BoxOK(UnmadeBox, 0)
           /\ BoxOK([UnmadeBox EXCEPT !.status = CREATED, !.slotSize = DeviceSlotSize], 0)
           /\ \A args \in [slots : Nat, size : Nat] : BoxOK(Made(UnmadeBox, args), 0)
<1>1. /\ <<>> \in Seq(MailSlots) /\ <<>> \in Seq(1 .. MAXPROC) /\ Members(<<>>) = {}
      /\ DeviceSlotSize \in Nat
  BY EmptySeq DEF Members, DeviceSlotSize
<1>2. UnmadeBox \in MailBox
  BY <1>1 DEF UnmadeBox, MailBox
<1>3. [UnmadeBox EXCEPT !.status = CREATED, !.slotSize = DeviceSlotSize] \in MailBox
  <2> DEFINE x == UnmadeBox
  <2> HIDE DEF x
  <2>1. x \in MailBox
    BY <1>2 DEF x
  <2>2. [x EXCEPT !.status = CREATED, !.slotSize = DeviceSlotSize] \in MailBox
    BY <1>1, <2>1 DEF MailBox
  <2> QED
    BY <2>2 DEF x
<1>4. \A args \in [slots : Nat, size : Nat] : Made(UnmadeBox, args) \in MailBox
  <2> DEFINE x == UnmadeBox
  <2> HIDE DEF x
  <2> SUFFICES ASSUME NEW args \in [slots : Nat, size : Nat] PROVE Made(x, args) \in MailBox
    BY DEF x
  <2>1. /\ x \in MailBox /\ <<>> \in Seq(MailSlots)
        /\ args.slots \in Nat /\ args.size \in Nat /\ 0 \in Int
    BY <1>1, <1>2 DEF x
  <2> HIDE <1>1, <1>2
  <2> QED
    BY <2>1 DEF Made, MailBox
<1> QED
  BY <1>1, <1>2, <1>3, <1>4 DEF BoxOK, Waiters, UnmadeBox, Made

LEMMA TypeInit == Init => TypeInv
<1> SUFFICES ASSUME Init PROVE TypeInv
  OBVIOUS
<1>1. ClientsOK
  <2>1. clients \in DOMAIN Clients
    BY DEF Init
  <2>2. Client \in Behaviours
    BY <2>1, MailboxAssumption DEF Client
  <2>3. LevelsOK
    BY <2>2 DEF Init, Behaviours, LevelsOK
  <2> QED
    BY <2>1, <2>3 DEF Init, ClientsOK
<1>2. QueueOK(Current, ready)
  BY <1>1, InitQueue DEF ClientsOK, Init
<1>3. TableOK(MailBoxTable, 0)
  <2> SUFFICES \A b \in Boxes : BoxOK(MailBoxTable[b], 0)
    <3>1. DOMAIN MailBoxTable = Boxes /\ MailBoxTable = [b \in Boxes |-> MailBoxTable[b]]
      BY DEF Init
    <3> QED
      BY <3>1 DEF TableOK, BoxOK
  <2> SUFFICES ASSUME NEW b \in Boxes PROVE BoxOK(MailBoxTable[b], 0)
    OBVIOUS
  <2>1. ASSUME b \in DEVICES .. DEVICES + Len(Client.opened) - 1
        PROVE  Client.opened[b - DEVICES + 1] \in [slots : Nat, size : Nat]
    <3>1. Client.opened \in Seq([slots : Nat, size : Nat]) /\ Len(Client.opened) \in Nat
      BY <1>1, ClientOf, LenProperties
    <3>2. b - DEVICES + 1 \in 1 .. Len(Client.opened)
      BY <2>1, <3>1, MailboxAssumption
    <3> QED
      BY <3>1, <3>2, ElementOfSeq
  <2>2. \/ MailBoxTable[b] = [UnmadeBox EXCEPT !.status = CREATED, !.slotSize = DeviceSlotSize]
        \/ /\ b \in DEVICES .. DEVICES + Len(Client.opened) - 1
           /\ MailBoxTable[b] = Made(UnmadeBox, Client.opened[b - DEVICES + 1])
        \/ MailBoxTable[b] = UnmadeBox
    BY DEF Init
  <2> QED
    BY <1>1, <2>1, <2>2, InitBoxes
<1>4. CoreOK
  <2>1. CleanSlot \in MailSlot /\ Idle \in Call
    BY IdleIsCall DEF CleanSlot, MailSlot
  <2>2. 0 \in MailSlots /\ MAXPROC \in Nat
    BY MailboxAssumption DEF MailSlots
  <2>3. processTable = <<>> /\ Len(processTable) = 0 /\ <<>> \in Seq(Phase2Proc) /\ <<>> \in Seq(Delivery)
    BY EmptySeq DEF Init
  <2> QED
    BY <1>3, <2>1, <2>2, <2>3 DEF Init, CoreOK, ProcsOK, Outcomes
<1> QED
  BY <1>1, <1>2, <1>4 DEF TypeInv

LEMMA Types == Spec => []TypeInv
<1>1. Init => TypeInv
  BY TypeInit
<1>2. TypeInv /\ [Next]_vars => TypeInv'
  BY TypeStep
<1> QED
  BY <1>1, <1>2, PTL DEF Spec

\* The tables, the lists in them and the calls keep their types whatever the
\* clients do and however long they go on: every index the code follows is of an
\* entry handed out or of a slot, the running process is not on the ready list, and
\* the sentinel never blocks, so that the processor always has somewhere to go.
THEOREM MailboxTypes == Spec => []MailboxTypeOK
<1>1. TypeInv => MailboxTypeOK
  BY InvMailboxTypeOK
<1> QED
  BY <1>1, Types, PTL


-----------------------------------------------------------------------------
(***************************************************************************)
(* Who is blocked, in which call, on which list.                           *)
(***************************************************************************)
Asleep(p) == p \notin Runnable(Current, ready) /\ call[p].pc # "gone"

ReceivePcs == {"recvZero", "recvEmpty"}
SendPcs == {"sendZero", "sendFull"}
WaitPcs == ReceivePcs \cup SendPcs \cup {"sendOrder"}
ReleasePcs == {"releaseRecv", "releaseSend"}

Receivers(b) == MailBoxTable[b].waitingToReceive
Senders(b) == MailBoxTable[b].waitingToSend

\* The list a process in such a call was put on.
ListOf(p) == IF call[p].pc \in ReceivePcs THEN Receivers(call[p].box) ELSE Senders(call[p].box)

\* Whoever waits does so with an entry of its own ...
EntriesOK ==
    \A p \in All : call[p].pc \in WaitPcs =>
        /\ call[p].entry \in 1 .. Len(processTable)
        /\ processTable[call[p].entry].pid = p

\* ... and is on its list until it is woken.
AsleepOK ==
    \A p \in All : Asleep(p) =>
        /\ call[p].pc \in WaitPcs
        /\ call[p].pc # "sendOrder" => call[p].entry \in Members(ListOf(p))

ListsDistinct == \A b \in Boxes : Distinct(Receivers(b)) /\ Distinct(Senders(b))

\* q is still to come to entry e of the list of receivers, or of senders, of the
\* mailbox it releases.
Ahead(e, list, q) ==
    \/ call[q].entry = 0
    \/ /\ call[q].entry \in Range(list)
       /\ Place(list, call[q].entry) < Place(list, e)

WillWake(q, p) ==
    /\ call[q].box = call[p].box
    /\ \/ /\ call[q].pc = "releaseRecv"
          /\ call[p].pc \in ReceivePcs => Ahead(call[p].entry, ListOf(p), q)
       \/ /\ call[q].pc = "releaseSend" /\ call[p].pc \in SendPcs
          /\ Ahead(call[p].entry, ListOf(p), q)

Awaited(p) == \E q \in All : WillWake(q, p)

\* Whoever still sleeps in a mailbox that is closed is yet to be woken.
ReleaseOK ==
    \A p \in All : (Asleep(p) /\ call[p].pc # "sendOrder" /\ ~Open(call[p].box)) =>
        Awaited(p)

WaitInv == EntriesOK /\ AsleepOK /\ ListsDistinct /\ ReleaseOK

-----------------------------------------------------------------------------
(***************************************************************************)
(* The steps, by what they do to who waits where.                          *)
(***************************************************************************)
Order(b) == MailBoxTable[b].getCorrectOrder

Run == Runnable(Current, ready)

Alike(box, old) ==
    /\ box.status = old.status
    /\ box.waitingToReceive = old.waitingToReceive
    /\ box.waitingToSend = old.waitingToSend
    /\ box.getCorrectOrder = old.getCorrectOrder

SameBoxesBut(b) == \A a \in Boxes \ {b} : Alike(MailBoxTable'[a], MailBoxTable[a])

SamePids ==
    /\ Len(processTable') = Len(processTable)
    /\ \A e \in 1 .. Len(processTable) : processTable'[e].pid = processTable[e].pid

OthersStay == \A p \in All \ {Current} : call'[p] = call[p]

CallMoves ==
    \/ call' = call
    \/ /\ OthersStay
       /\ call[Current].pc \notin ReleasePcs /\ call'[Current].pc \notin WaitPcs \cup ReleasePcs

\* Nobody is woken and nobody put to sleep.
Quiet ==
    /\ SamePids /\ CallMoves
    /\ \A b \in Boxes : Alike(MailBoxTable'[b], MailBoxTable[b])
    /\ Run' = Run

\* The first entry e of one of b's lists is taken off, and its process woken.
TakenOff(b, e, new) ==
    LET old == MailBoxTable[b]
    IN  /\ new.status = old.status
        /\ \/ /\ Open(b) /\ old.waitingToReceive # <<>> /\ e = Head(old.waitingToReceive)
              /\ new.waitingToReceive = Tail(old.waitingToReceive)
              /\ new.waitingToSend = old.waitingToSend
              /\ new.getCorrectOrder = old.getCorrectOrder
           \/ /\ Open(b) /\ old.waitingToSend # <<>> /\ e = Head(old.waitingToSend)
              /\ new.waitingToReceive = old.waitingToReceive
              /\ new.waitingToSend = Tail(old.waitingToSend)
              /\ new.getCorrectOrder = old.getCorrectOrder
           \/ /\ old.getCorrectOrder # <<>> /\ e = Head(old.getCorrectOrder)
              /\ new.waitingToReceive = old.waitingToReceive
              /\ new.waitingToSend = old.waitingToSend
              /\ new.getCorrectOrder = Tail(old.getCorrectOrder)

WakesOf(e) ==
    Run' = IF Blockable(processTable[e].pid) THEN Run \cup {processTable[e].pid} ELSE Run

Wakes(b) ==
    /\ SamePids /\ CallMoves /\ SameBoxesBut(b)
    /\ \E e \in 1 .. Len(processTable) : TakenOff(b, e, MailBoxTable'[b]) /\ WakesOf(e)

\* The running process goes to sleep in b, with the entry e, and the last of a list.
PutOn(b, e, pc, new) ==
    LET old == MailBoxTable[b]
    IN  /\ new.status = old.status
        /\ \/ /\ pc \in ReceivePcs
              /\ new.waitingToReceive = Append(old.waitingToReceive, e)
              /\ new.waitingToSend = old.waitingToSend
              /\ new.getCorrectOrder = old.getCorrectOrder
           \/ /\ pc \in SendPcs
              /\ new.waitingToReceive = old.waitingToReceive
              /\ new.waitingToSend = Append(old.waitingToSend, e)
              /\ new.getCorrectOrder = old.getCorrectOrder
           \/ /\ pc = "sendOrder"
              /\ new.waitingToReceive = old.waitingToReceive
              /\ new.waitingToSend = old.waitingToSend
              /\ new.getCorrectOrder = Append(old.getCorrectOrder, e)

Sleeps(b) ==
    /\ Open(b) /\ OthersStay /\ SameBoxesBut(b)
    /\ call[Current].pc \notin ReleasePcs
    /\ Len(processTable') = Len(processTable) + 1
    /\ \A e \in 1 .. Len(processTable) : processTable'[e].pid = processTable[e].pid
    /\ processTable'[Len(processTable) + 1].pid = Current
    /\ call'[Current].box = b /\ call'[Current].entry = Len(processTable) + 1
    /\ PutOn(b, Len(processTable) + 1, call'[Current].pc, MailBoxTable'[b])
    /\ Run' = Run \ {Current}

Quits ==
    /\ UNCHANGED <<MailBoxTable, processTable>> /\ OthersStay
    /\ call[Current].pc \notin ReleasePcs /\ call'[Current].pc = "gone"
    /\ Run' = Run \ {Current}

Creates(b) ==
    /\ UNCHANGED <<processTable, call>> /\ Run' = Run
    /\ SameBoxesBut(b)
    /\ MailBoxTable[b].status = UNUSED
    /\ Alike(MailBoxTable'[b], [MailBoxTable[b] EXCEPT !.status = CREATED])

Releases(b) ==
    /\ UNCHANGED processTable /\ Run' = Run
    /\ SameBoxesBut(b)
    /\ Alike(MailBoxTable'[b], [MailBoxTable[b] EXCEPT !.status = UNUSED])
    /\ OthersStay /\ call[Current].pc \notin ReleasePcs
    /\ call'[Current] = [Idle EXCEPT !.pc = "releaseRecv", !.box = b]

Kinds ==
    \/ Quiet \/ Quits \/ ReleaseNext
    \/ \E b \in Boxes : Wakes(b) \/ Sleeps(b) \/ Creates(b) \/ Releases(b)

LEMMA HaltKind ==
    ASSUME NEW how, Halt(how)
    PROVE  Quiet
BY DEF Halt, core, Quiet, SamePids, CallMoves, Alike, Run

LEMMA RunAfterSwitch ==
    ASSUME Before, ready # <<>>, Current' = Head(ready), ready' = Tail(ready)
    PROVE  Run' = Run \ {Current}
BY SwitchKeeps DEF Before, Run

LEMMA RunAfterUnblock ==
    ASSUME Before, NEW e \in 1 .. Len(processTable), UnblockProc(processTable[e].pid)
    PROVE  WakesOf(e)
<1>1. processTable[e].pid \in All
  BY PidOf
<1> QED
  BY <1>1, UnblockKeeps DEF Before, Run, WakesOf

LEMMA RunSame ==
    ASSUME UNCHANGED <<Current, ready>>
    PROVE  Run' = Run
BY DEF Run, Runnable

LEMMA BlockKind ==
    ASSUME Before, NEW b \in Boxes, Open(b), NEW newBox, NEW c \in Call, c.box = b,
           PutOn(b, NextEntry, c.pc, newBox), call[Current].pc \notin ReleasePcs,
           Block(b, newBox, c)
    PROVE  Quiet \/ Sleeps(b)
<1> DEFINE n == Len(processTable)
<1>1. /\ n \in Nat /\ processTable \in Seq(Phase2Proc) /\ Current \in All
      /\ MailBoxTable \in [Boxes -> MailBox] /\ call \in [All -> Call]
  BY TableOf, CallOf DEF Before, CoreOK, TableOK
<1>2. CASE Halt("out_of_bounds") \/ Halt("sentinel_blocked")
  BY <1>2, HaltKind
<1>3. CASE n # MAXPROC /\ ready # <<>>
  <2>1. /\ processTable' = Append(processTable, [pid |-> Current, slotThatHoldsMyMessage |-> NULL])
        /\ MailBoxTable' = [MailBoxTable EXCEPT ![b] = newBox]
        /\ call' = [call EXCEPT ![Current] = [c EXCEPT !.entry = n+1]]
        /\ Current' = Head(ready) /\ ready' = Tail(ready)
    BY <1>3 DEF Block, NextEntry
  <2>2. Run' = Run \ {Current}
    BY <1>3, <2>1, RunAfterSwitch
  <2>3. /\ Len(processTable') = n+1
        /\ \A e \in 1 .. n : processTable'[e].pid = processTable[e].pid
        /\ processTable'[n+1].pid = Current
    <3>1. [pid |-> Current, slotThatHoldsMyMessage |-> NULL] \in Phase2Proc
      BY <1>1 DEF Phase2Proc
    <3>2. /\ Len(processTable') = n+1
          /\ \A e \in 1 .. n : processTable'[e] = processTable[e]
          /\ processTable'[n+1] = [pid |-> Current, slotThatHoldsMyMessage |-> NULL]
      BY <1>1, <2>1, <3>1, AppendProperties
    <3> QED
      BY <3>2
  <2>4. /\ call'[Current].box = b /\ call'[Current].entry = n+1 /\ call'[Current].pc = c.pc
        /\ OthersStay
    BY <1>1, <2>1 DEF OthersStay, Call
  <2>5. SameBoxesBut(b) /\ MailBoxTable'[b] = newBox
    BY <1>1, <2>1 DEF SameBoxesBut, Alike
  <2> QED
    BY <2>2, <2>3, <2>4, <2>5 DEF Sleeps, NextEntry
<1> QED
  BY <1>2, <1>3 DEF Block

LEMMA CallMovesTo ==
    ASSUME Before, NEW c \in Call, c.pc \notin WaitPcs \cup ReleasePcs,
           call[Current].pc \notin ReleasePcs,
           call' = [call EXCEPT ![Current] = c]
    PROVE  CallMoves
BY CallOf DEF CallMoves, OthersStay, Before, CoreOK

LEMMA ReturnsTo ==
    ASSUME Before, Returns, call[Current].pc \notin ReleasePcs
    PROVE  CallMoves
<1>1. Idle \in Call /\ Idle.pc \notin WaitPcs \cup ReleasePcs
  BY IdleIsCall DEF Idle, WaitPcs, ReceivePcs, SendPcs, ReleasePcs
<1> QED
  BY <1>1, CallMovesTo DEF Returns

LEMMA WakeNextKind ==
    ASSUME Before, NEW b \in Boxes, NEW box \in MailBox, Alike(box, MailBoxTable[b]), NEW c \in Call,
           call[Current].pc \notin ReleasePcs, WakeNextInOrder(b, box, c), UNCHANGED processTable
    PROVE  Quiet \/ Wakes(b)
<1> DEFINE n == Len(processTable)
           e == Head(box.getCorrectOrder)
<1>1. /\ n \in Nat /\ MailBoxTable \in [Boxes -> MailBox] /\ BoxOK(MailBoxTable[b], n)
  BY TableOf DEF Before, CoreOK, TableOK
<1>2. SamePids
  BY DEF SamePids
<1>3. CASE box.getCorrectOrder # <<>>
  <2> DEFINE new == [box EXCEPT !.getCorrectOrder = Tail(@)]
  <2>1. /\ MailBoxTable' = [MailBoxTable EXCEPT ![b] = new]
        /\ call' = [call EXCEPT ![Current] = [c EXCEPT !.pc = "sendSort"]]
        /\ UnblockProc(processTable[e].pid)
    BY <1>3 DEF WakeNextInOrder
  <2>2. e \in 1 .. n
    BY <1>1, <1>3, BoxFacts DEF Alike
  <2>3. WakesOf(e)
    BY <2>1, <2>2, RunAfterUnblock
  <2>4. TakenOff(b, e, new)
    BY <1>3 DEF TakenOff, Alike, MailBox
  <2>5. CallMoves
    <3>1. [c EXCEPT !.pc = "sendSort"] \in Call /\ [c EXCEPT !.pc = "sendSort"].pc = "sendSort"
      BY DEF Call
    <3>2. "sendSort" \notin WaitPcs \cup ReleasePcs
      BY DEF WaitPcs, ReceivePcs, SendPcs, ReleasePcs
    <3> QED
      BY <2>1, <3>1, <3>2, CallMovesTo
  <2> HIDE DEF new
  <2>6. SameBoxesBut(b) /\ MailBoxTable'[b] = new
    BY <1>1, <2>1 DEF SameBoxesBut, Alike
  <2> QED
    BY <1>2, <2>2, <2>3, <2>4, <2>5, <2>6 DEF Wakes
<1>4. CASE box.getCorrectOrder = <<>>
  <2> DEFINE new == [box EXCEPT !.numSlotsUsed = @ + 1]
  <2>1. /\ MailBoxTable' = [MailBoxTable EXCEPT ![b] = new]
        /\ Returns /\ UNCHANGED <<Current, ready>>
    BY <1>4 DEF WakeNextInOrder
  <2>2. Alike(new, MailBoxTable[b])
    BY DEF Alike, MailBox
  <2>3. CallMoves
    BY <2>1, ReturnsTo
  <2> HIDE DEF new
  <2>4. \A a \in Boxes : Alike(MailBoxTable'[a], MailBoxTable[a])
    BY <1>1, <2>1, <2>2 DEF Alike
  <2> QED
    BY <1>2, <2>1, <2>3, <2>4, RunSame DEF Quiet
<1> QED
  BY <1>3, <1>4

LEMMA WakeKind ==
    ASSUME Before, NEW b \in Boxes, NEW new, MailBoxTable' = [MailBoxTable EXCEPT ![b] = new],
           NEW e \in 1 .. Len(processTable), UnblockProc(processTable[e].pid),
           TakenOff(b, e, new), SamePids, CallMoves
    PROVE  Wakes(b)
<1>1. WakesOf(e)
  BY RunAfterUnblock
<1>2. SameBoxesBut(b) /\ MailBoxTable'[b] = new
  BY DEF SameBoxesBut, Alike, Before, CoreOK, TableOK
<1> QED
  BY <1>1, <1>2 DEF Wakes

LEMMA SlotFilled ==
    ASSUME Before, NEW e \in 1 .. Len(processTable), NEW k,
           processTable' = [processTable EXCEPT ![e].slotThatHoldsMyMessage = k]
    PROVE  SamePids
<1>1. processTable \in Seq(Phase2Proc) /\ Len(processTable) \in Nat
  BY LenProperties DEF Before, CoreOK, ProcsOK
<1>2. DOMAIN processTable' = DOMAIN processTable /\ DOMAIN processTable = 1 .. Len(processTable)
  BY <1>1, LenProperties
<1>3. Len(processTable') = Len(processTable)
  BY <1>1, <1>2, LenProperties, ExceptSeq
<1>4. \A i \in 1 .. Len(processTable) : processTable[i] \in Phase2Proc
  BY <1>1, ElementOfSeq
<1>5. \A i \in 1 .. Len(processTable) : processTable'[i].pid = processTable[i].pid
  BY <1>2, <1>4 DEF Phase2Proc
<1> QED
  BY <1>3, <1>5 DEF SamePids

LEMMA PutMessageKind ==
    ASSUME Before, NEW b \in Boxes, Open(b), NEW box \in MailBox, Alike(box, MailBoxTable[b]),
           NEW c \in Call, call[Current].pc \notin ReleasePcs, PutMessage(b, box, c)
    PROVE  Quiet \/ Wakes(b)
<1> DEFINE n == Len(processTable)
           e == Head(box.waitingToReceive)
<1>1. n \in Nat /\ BoxOK(MailBoxTable[b], n)
  BY TableOf
<1>2. CASE Halt("out_of_bounds")
  BY <1>2, HaltKind
<1>3. ASSUME NEW k \in MailSlots, PutInSlot(b, box, c, k) PROVE Quiet \/ Wakes(b)
  <2> DEFINE full == [box EXCEPT !.numMessagesSent = @ + 1, !.slots = Append(@, k)]
  <2>1. full \in MailBox /\ Alike(full, MailBoxTable[b])
    <3>1. box.numMessagesSent + 1 \in Nat /\ Append(box.slots, k) \in Seq(MailSlots)
      BY AppendProperties DEF MailBox
    <3>2. full \in MailBox
      BY <3>1 DEF MailBox
    <3> QED
      BY <3>2 DEF Alike, MailBox
  <2>2. CASE ReceiverToWake(box)
    <3> DEFINE new == [full EXCEPT !.waitingToReceive = Tail(@)]
    <3>1. /\ processTable' = [processTable EXCEPT ![e].slotThatHoldsMyMessage = k]
          /\ MailBoxTable' = [MailBoxTable EXCEPT ![b] = new]
          /\ call' = [call EXCEPT ![Current] = [c EXCEPT !.pc = "sendWoke"]]
          /\ UnblockProc(processTable[e].pid)
      BY <1>3, <2>2 DEF PutInSlot
    <3> HIDE DEF full
    <3>2. e \in 1 .. n
      BY <1>1, <2>2, BoxFacts DEF Alike, ReceiverToWake
    <3>3. TakenOff(b, e, new)
      BY <2>1, <2>2 DEF TakenOff, Alike, MailBox, ReceiverToWake
    <3>4. CallMoves
      <4>1. [c EXCEPT !.pc = "sendWoke"] \in Call /\ [c EXCEPT !.pc = "sendWoke"].pc = "sendWoke"
        BY DEF Call
      <4>2. "sendWoke" \notin WaitPcs \cup ReleasePcs
        BY DEF WaitPcs, ReceivePcs, SendPcs, ReleasePcs
      <4> QED
        BY <3>1, <4>1, <4>2, CallMovesTo
    <3> HIDE DEF new, e
    <3>5. SamePids
      BY <3>1, <3>2, SlotFilled
    <3> QED
      BY <3>1, <3>2, <3>3, <3>4, <3>5, WakeKind
  <2>3. CASE ~ReceiverToWake(box)
    <3>1. WakeNextInOrder(b, full, c) /\ UNCHANGED processTable
      BY <1>3, <2>3 DEF PutInSlot
    <3> HIDE DEF full
    <3> QED
      BY <2>1, <3>1, WakeNextKind
  <2> QED
    BY <2>2, <2>3
<1>4. ASSUME NEW i \in MailSlots, nextSlot + i < MAXSLOTS PROVE nextSlot + i \in MailSlots
  BY <1>4, MailboxAssumption DEF MailSlots, Before, CoreOK
<1> QED
  BY <1>2, <1>3, <1>4 DEF PutMessage

LEMMA SendMessageKind ==
    ASSUME Before, NEW b \in Boxes, Open(b), NEW m \in Message,
           call[Current].pc \notin ReleasePcs, SendMessage(b, m)
    PROVE  Quiet \/ Wakes(b) \/ Sleeps(b)
<1> DEFINE old == MailBoxTable[b]
           number == old.nextInLineMessageNumber
           box == [old EXCEPT !.nextInLineMessageNumber = @ + 1]
           c(pc) == [Idle EXCEPT !.pc = pc, !.box = b, !.msg = m, !.number = number]
           n == Len(processTable)
<1>1. n \in Nat /\ BoxOK(old, n) /\ old \in MailBox /\ number \in Nat
  BY TableOf DEF MailBox
<1>2. box \in MailBox /\ Alike(box, old)
  <2>1. box \in MailBox
    BY <1>1, OtherBoxes DEF BoxOK
  <2> QED
    BY <1>1, <2>1 DEF Alike, MailBox
<1>3. /\ c("sendZero") \in Call /\ c("sendZero").box = b /\ c("sendZero").pc = "sendZero"
      /\ c("sendFull") \in Call /\ c("sendFull").box = b /\ c("sendFull").pc = "sendFull"
      /\ c("user") \in Call
  BY <1>1, IdleIsCall DEF Call, Idle
<1>4. \/ Block(b, [box EXCEPT !.waitingToSend = Append(@, NextEntry), !.zeroSlot = m],
               c("sendZero"))
      \/ /\ ReceiverToWake(box)
         /\ MailBoxTable' = [MailBoxTable EXCEPT
                 ![b] = [box EXCEPT !.waitingToReceive = Tail(@), !.zeroSlot = m]]
         /\ UnblockProc(processTable[Head(box.waitingToReceive)].pid)
         /\ UNCHANGED <<MailSlotTable, nextMid, nextSlot, numSlotsUsed,
                          processTable, call, delivered, outcome>>
      \/ Block(b, [box EXCEPT !.waitingToSend = Append(@, NextEntry)], c("sendFull"))
      \/ PutMessage(b, box, c("user"))
  BY DEF SendMessage
<1> HIDE DEF c, number, box
<1>5. CASE Block(b, [box EXCEPT !.waitingToSend = Append(@, NextEntry), !.zeroSlot = m],
                 c("sendZero"))
  <2>1. PutOn(b, NextEntry, "sendZero",
              [box EXCEPT !.waitingToSend = Append(@, NextEntry), !.zeroSlot = m])
    BY <1>2 DEF PutOn, Alike, MailBox, SendPcs
  <2> QED
    BY <1>3, <1>5, <2>1, BlockKind
<1>6. CASE Block(b, [box EXCEPT !.waitingToSend = Append(@, NextEntry)], c("sendFull"))
  <2>1. PutOn(b, NextEntry, "sendFull", [box EXCEPT !.waitingToSend = Append(@, NextEntry)])
    BY <1>2 DEF PutOn, Alike, MailBox, SendPcs
  <2> QED
    BY <1>3, <1>6, <2>1, BlockKind
<1>7. CASE PutMessage(b, box, c("user"))
  BY <1>2, <1>3, <1>7, PutMessageKind
<1>8. CASE /\ ReceiverToWake(box)
           /\ MailBoxTable' = [MailBoxTable EXCEPT
                 ![b] = [box EXCEPT !.waitingToReceive = Tail(@), !.zeroSlot = m]]
           /\ UnblockProc(processTable[Head(box.waitingToReceive)].pid)
           /\ UNCHANGED <<MailSlotTable, nextMid, nextSlot, numSlotsUsed,
                          processTable, call, delivered, outcome>>
  <2> DEFINE new == [box EXCEPT !.waitingToReceive = Tail(@), !.zeroSlot = m]
             e == Head(box.waitingToReceive)
  <2>1. e \in 1 .. n
    BY <1>1, <1>2, <1>8, BoxFacts DEF Alike, ReceiverToWake
  <2>2. TakenOff(b, e, new)
    BY <1>2, <1>8 DEF TakenOff, Alike, MailBox, ReceiverToWake
  <2>3. SamePids /\ CallMoves
    BY <1>8 DEF SamePids, CallMoves
  <2> HIDE DEF new, e
  <2> QED
    BY <1>8, <2>1, <2>2, <2>3, WakeKind DEF new, e
<1> QED
  BY <1>4, <1>5, <1>6, <1>7, <1>8

LEMMA ReturnKind ==
    ASSUME Before, ReturnOnly, call[Current].pc \notin ReleasePcs
    PROVE  Quiet
BY ReturnsTo, RunSame DEF ReturnOnly, Quiet, SamePids, Alike

LEMMA TakeMessageKind ==
    ASSUME Before, NEW b \in Boxes, Open(b), NEW k \in Range(MailBoxTable[b].slots),
           call[Current].pc \notin ReleasePcs, TakeMessage(b, k)
    PROVE  Quiet \/ Wakes(b)
<1> DEFINE n == Len(processTable)
           box == MailBoxTable[b]
           rest == WithoutSlot(box, k)
           e == Head(box.waitingToSend)
<1>1. /\ n \in Nat /\ BoxOK(box, n) /\ box \in MailBox
      /\ MailBoxTable \in [Boxes -> MailBox]
  BY TableOf DEF TableOK
<1>2. rest \in MailBox /\ Alike(rest, box)
  <2>1. BoxOK(rest, n)
    BY <1>1, OtherBoxes
  <2> QED
    BY <1>1, <2>1 DEF BoxOK, WithoutSlot, Alike, MailBox
<1>3. /\ UNCHANGED processTable
      /\ IF SenderToWake(box)
           THEN /\ MailBoxTable' = [MailBoxTable EXCEPT ![b] = WithoutSender(rest)]
                /\ call' = [call EXCEPT ![Current] = [Idle EXCEPT !.pc = "recvWoke", !.box = b]]
                /\ UnblockProc(processTable[e].pid)
           ELSE /\ MailBoxTable' = [MailBoxTable EXCEPT
                                      ![b] = [rest EXCEPT !.numSlotsUsed = @ - 1]]
                /\ Returns
                /\ UNCHANGED <<Current, ready>>
  BY DEF TakeMessage
<1>4. SamePids
  BY <1>3 DEF SamePids
<1> HIDE DEF rest
<1>5. CASE SenderToWake(box)
  <2> DEFINE new == WithoutSender(rest)
  <2>1. e \in 1 .. n
    BY <1>1, <1>5, BoxFacts DEF SenderToWake
  <2>2. TakenOff(b, e, new)
    BY <1>2, <1>5 DEF TakenOff, Alike, MailBox, SenderToWake, WithoutSender
  <2>3. CallMoves
    <3>1. /\ [Idle EXCEPT !.pc = "recvWoke", !.box = b] \in Call
          /\ [Idle EXCEPT !.pc = "recvWoke", !.box = b].pc = "recvWoke"
      BY IdleIsCall DEF Call, Idle
    <3>2. "recvWoke" \notin WaitPcs \cup ReleasePcs
      BY DEF WaitPcs, ReceivePcs, SendPcs, ReleasePcs
    <3> QED
      BY <1>3, <1>5, <3>1, <3>2, CallMovesTo
  <2> HIDE DEF new, e
  <2> QED
    BY <1>3, <1>4, <1>5, <2>1, <2>2, <2>3, WakeKind DEF new, e
<1>6. CASE ~SenderToWake(box)
  <2> DEFINE new == [rest EXCEPT !.numSlotsUsed = @ - 1]
  <2>1. /\ MailBoxTable' = [MailBoxTable EXCEPT ![b] = new]
        /\ Returns /\ UNCHANGED <<Current, ready>>
    BY <1>3, <1>6
  <2>2. Alike(new, box)
    BY <1>2 DEF Alike, MailBox
  <2> HIDE DEF new
  <2>3. \A a \in Boxes : Alike(MailBoxTable'[a], MailBoxTable[a])
    BY <1>1, <2>1, <2>2 DEF Alike
  <2> QED
    BY <1>4, <2>1, <2>3, ReturnsTo, RunSame DEF Quiet
<1> QED
  BY <1>5, <1>6

LEMMA ReceiveZeroKind ==
    ASSUME Before, NEW b \in Boxes, Open(b), call[Current].pc \notin ReleasePcs, ReceiveZero(b)
    PROVE  Quiet \/ Wakes(b) \/ Sleeps(b)
<1> DEFINE n == Len(processTable)
           box == MailBoxTable[b]
           e == Head(box.waitingToSend)
<1>1. n \in Nat /\ BoxOK(box, n) /\ box \in MailBox
  BY TableOf
<1>2. CASE SenderToWake(box)
  <2> DEFINE new == WithoutSender(box)
  <2>1. /\ MailBoxTable' = [MailBoxTable EXCEPT ![b] = new]
        /\ UnblockProc(processTable[e].pid)
        /\ UNCHANGED <<processTable, call>>
    BY <1>2 DEF ReceiveZero
  <2>2. e \in 1 .. n
    BY <1>1, <1>2, BoxFacts DEF SenderToWake
  <2>3. TakenOff(b, e, new)
    BY <1>1, <1>2 DEF TakenOff, MailBox, SenderToWake, WithoutSender, Open
  <2>4. SamePids /\ CallMoves
    BY <2>1 DEF SamePids, CallMoves
  <2> HIDE DEF new, e
  <2> QED
    BY <2>1, <2>2, <2>3, <2>4, WakeKind DEF e
<1>3. CASE Block(b, [box EXCEPT !.waitingToReceive = Append(@, NextEntry)],
                 [Idle EXCEPT !.pc = "recvZero", !.box = b])
  <2> DEFINE c == [Idle EXCEPT !.pc = "recvZero", !.box = b]
  <2>1. c \in Call /\ c.pc = "recvZero" /\ c.box = b
    BY IdleIsCall DEF Call, Idle
  <2>2. PutOn(b, NextEntry, "recvZero", [box EXCEPT !.waitingToReceive = Append(@, NextEntry)])
    BY <1>1 DEF PutOn, MailBox, ReceivePcs
  <2> HIDE DEF c
  <2> QED
    BY <1>3, <2>1, <2>2, BlockKind DEF c
<1> QED
  BY <1>2, <1>3 DEF ReceiveZero

\* A call is made in user code, and gone on with inside MboxSend or MboxReceive:
\* in neither is the caller walking a list.
LEMMA UserPc == "user" \notin ReleasePcs
BY DEF ReleasePcs

LEMMA SendKind ==
    ASSUME Before, ClientsOK, NEW b \in Boxes,
           \/ \E size \in Sizes : MboxSend(b, size) \/ MboxCondSend(b, size)
           \/ DeviceInterrupt(b)
    PROVE  Quiet \/ Wakes(b) \/ Sleeps(b)
<1>1. CASE Halt("halted")
  BY <1>1, HaltKind
<1>2. ASSUME NEW size \in Sizes, MboxSend(b, size) PROVE Quiet \/ Wakes(b) \/ Sleeps(b)
  <2>1. /\ NextMessage(Current, size) \in Message
        /\ Open(b) /\ call[Current].pc \notin ReleasePcs
    BY <1>2, CallerOf, NextMessageOf, MailboxAssumption, UserPc
       DEF MboxSend, Open, Sendable, Calls
  <2> QED
    BY <1>1, <1>2, <2>1, SendMessageKind DEF MboxSend
<1>3. ASSUME NEW size \in Sizes, MboxCondSend(b, size) PROVE Quiet \/ Wakes(b) \/ Sleeps(b)
  <2>1. /\ NextMessage(Current, size) \in Message
        /\ Open(b) /\ call[Current].pc \notin ReleasePcs
    BY <1>3, CallerOf, NextMessageOf, MailboxAssumption, UserPc
       DEF MboxCondSend, Open, Sendable, Calls
  <2> QED
    BY <1>3, <2>1, SendMessageKind DEF MboxCondSend
<1>4. CASE DeviceInterrupt(b)
  <2>1. /\ NextMessage(NULL, DeviceMsgSize) \in Message
        /\ Open(b) /\ call[Current].pc \notin ReleasePcs
    BY <1>4, NextMessageOf, UserPc DEF DeviceMsgSize, DeviceInterrupt, Open, Sendable
  <2> QED
    BY <1>4, <2>1, SendMessageKind DEF DeviceInterrupt
<1> QED
  BY <1>2, <1>3, <1>4

LEMMA ReceiveKind ==
    ASSUME Before, NEW b \in Boxes, NEW limit \in Nat,
           MboxReceive(b, limit) \/ MboxCondReceive(b, limit)
    PROVE  Quiet \/ Wakes(b) \/ Sleeps(b)
<1> DEFINE n == Len(processTable)
           box == MailBoxTable[b]
<1>1. n \in Nat /\ BoxOK(box, n) /\ box \in MailBox
  BY TableOf
<1>2. Open(b) /\ call[Current].pc \notin ReleasePcs
  BY UserPc DEF MboxReceive, MboxCondReceive, Open, Calls
<1>3. CASE ReceiveZero(b)
  BY <1>2, <1>3, ReceiveZeroKind
<1>4. CASE Block(b, [box EXCEPT !.waitingToReceive = Append(@, NextEntry), !.recv_size = limit],
                 [Idle EXCEPT !.pc = "recvEmpty", !.box = b, !.limit = limit])
  <2> DEFINE c == [Idle EXCEPT !.pc = "recvEmpty", !.box = b, !.limit = limit]
  <2>1. c \in Call /\ c.pc = "recvEmpty" /\ c.box = b
    BY IdleIsCall DEF Call, Idle
  <2>2. PutOn(b, NextEntry, "recvEmpty",
              [box EXCEPT !.waitingToReceive = Append(@, NextEntry), !.recv_size = limit])
    BY <1>1 DEF PutOn, MailBox, ReceivePcs
  <2> HIDE DEF c
  <2> QED
    BY <1>2, <1>4, <2>1, <2>2, BlockKind DEF c
<1>5. CASE box.slots # <<>> /\ TakeMessage(b, Head(box.slots))
  BY <1>2, <1>5, HeadIsListed, TakeMessageKind
<1> QED
  BY <1>3, <1>4, <1>5 DEF MboxReceive, MboxCondReceive

LEMMA SendGoesOnKind ==
    ASSUME Before, SendAfterWaking \/ SendSorting \/ SendRendezvous \/ SendResume
    PROVE  LET b == call[Current].box IN Quiet \/ Wakes(b) \/ Sleeps(b)
<1> DEFINE c == call[Current]
           b == c.box
           box == MailBoxTable[b]
           n == Len(processTable)
<1>1. c \in Call /\ b \in Boxes
  BY CallOf
<1>2. n \in Nat /\ BoxOK(box, n) /\ box \in MailBox /\ Alike(box, box)
  BY <1>1, TableOf DEF Alike
<1>3. c.pc \notin ReleasePcs
  BY DEF SendAfterWaking, SendSorting, SendRendezvous, SendResume, In, ReleasePcs
<1>4. ASSUME Returns,
             UNCHANGED <<MailBoxTable, numSlotsUsed, Current, ready,
                         MailSlotTable, nextMid, nextSlot, processTable, delivered, outcome>>
      PROVE  Quiet
  <2>1. ReturnOnly
    BY <1>4 DEF ReturnOnly
  <2> QED
    BY <1>3, <2>1, ReturnKind
<1>5. ASSUME WakeNextInOrder(b, box, c), UNCHANGED processTable PROVE Quiet \/ Wakes(b)
  BY <1>1, <1>2, <1>3, <1>5, WakeNextKind
<1>6. CASE SendAfterWaking
  BY <1>4, <1>5, <1>6 DEF SendAfterWaking
<1>7. CASE SendSorting
  BY <1>5, <1>7 DEF SendSorting
<1>8. CASE SendRendezvous
  BY <1>3, <1>8, ReturnKind DEF SendRendezvous
<1>9. CASE SendResume
  <2>1. CASE ReturnOnly
    BY <1>3, <2>1, ReturnKind
  <2>2. CASE box.status # UNUSED
    <3>1. Open(b)
      BY <1>2, <2>2 DEF Open, MailBox
    <3>2. CASE PutMessage(b, box, c)
      BY <1>1, <1>2, <1>3, <3>1, <3>2, PutMessageKind
    <3>3. CASE Block(b, [box EXCEPT !.getCorrectOrder = Append(@, NextEntry)],
                     [c EXCEPT !.pc = "sendOrder"])
      <4> DEFINE d == [c EXCEPT !.pc = "sendOrder"]
      <4>1. d \in Call /\ d.pc = "sendOrder" /\ d.box = b
        BY <1>1 DEF Call
      <4>2. PutOn(b, NextEntry, "sendOrder",
                  [box EXCEPT !.getCorrectOrder = Append(@, NextEntry)])
        BY <1>2 DEF PutOn, MailBox
      <4> HIDE DEF d
      <4> QED
        BY <1>1, <1>3, <3>1, <3>3, <4>1, <4>2, BlockKind DEF d
    <3> QED
      BY <1>9, <2>2, <3>2, <3>3 DEF SendResume
  <2> QED
    BY <1>9, <2>1, <2>2 DEF SendResume
<1> QED
  BY <1>6, <1>7, <1>8, <1>9

LEMMA ReceiveGoesOnKind ==
    ASSUME Before, ReceiveRendezvous \/ ReceiveResume \/ ReceiveAfterWaking
    PROVE  Quiet \/ Wakes(call[Current].box)
<1> DEFINE c == call[Current]
           b == c.box
           box == MailBoxTable[b]
           n == Len(processTable)
<1>1. c \in Call /\ b \in Boxes
  BY CallOf
<1>2. /\ n \in Nat /\ BoxOK(box, n) /\ box \in MailBox
      /\ MailBoxTable \in [Boxes -> MailBox]
  BY <1>1, TableOf DEF TableOK
<1>3. c.pc \notin ReleasePcs
  BY DEF ReceiveRendezvous, ReceiveResume, ReceiveAfterWaking, In, ReleasePcs
<1>4. CASE ReceiveRendezvous
  <2>1. Returns /\ UNCHANGED <<MailBoxTable, processTable, Current, ready>>
    BY <1>4 DEF ReceiveRendezvous
  <2> QED
    BY <1>3, <2>1, ReturnsTo, RunSame DEF Quiet, SamePids, Alike
<1>5. CASE ReceiveResume
  <2> DEFINE k == processTable[c.entry].slotThatHoldsMyMessage
  <2>1. CASE ReturnOnly
    BY <1>3, <2>1, ReturnKind
  <2>2. CASE Halt("null_pointer")
    BY <2>2, HaltKind
  <2>3. CASE box.status # UNUSED /\ k \in Range(box.slots) /\ TakeMessage(b, k)
    <3>1. Open(b)
      BY <1>2, <2>3 DEF Open, MailBox
    <3> HIDE DEF k
    <3> QED
      BY <1>1, <1>3, <2>3, <3>1, TakeMessageKind
  <2> QED
    BY <1>5, <2>1, <2>2, <2>3 DEF ReceiveResume
<1>6. CASE ReceiveAfterWaking
  <2> DEFINE new == [box EXCEPT !.numSlotsUsed = @ - 1]
  <2>1. /\ MailBoxTable' = [MailBoxTable EXCEPT ![b] = new]
        /\ Returns /\ UNCHANGED <<processTable, Current, ready>>
    BY <1>6 DEF ReceiveAfterWaking
  <2>2. Alike(new, box)
    BY <1>2 DEF Alike, MailBox
  <2> HIDE DEF new
  <2>3. \A a \in Boxes : Alike(MailBoxTable'[a], MailBoxTable[a])
    BY <1>2, <2>1, <2>2 DEF Alike
  <2> QED
    BY <1>3, <2>1, <2>3, ReturnsTo, RunSame DEF Quiet, SamePids
<1> QED
  BY <1>4, <1>5, <1>6

LEMMA CreateKind ==
    ASSUME Before, ClientsOK, NEW args \in Client.creates, MboxCreate(args)
    PROVE  \E b \in Boxes : Creates(b)
<1> DEFINE n == Len(processTable)
<1>1. n \in Nat /\ TableOK(MailBoxTable, n)
  BY IdleIsCall, TableOf
<1>2. PICK i \in Boxes : /\ UnmadeAt(i)
                         /\ MailBoxTable' = [MailBoxTable EXCEPT
                               ![(nextMid + i) % MAXMBOX] = Made(@, args)]
  BY DEF MboxCreate
<1> DEFINE b == (nextMid + i) % MAXMBOX
<1>3. b \in Boxes
  <2>1. nextMid \in Nat /\ i \in Nat /\ MAXMBOX \in Nat \ {0}
    BY ClientOf, LenProperties, MailboxAssumption DEF ClientsOK, Boxes
  <2> QED
    BY <2>1 DEF Boxes
<1>4. MailBoxTable[b].status = UNUSED
  BY <1>2 DEF UnmadeAt
<1>5. MailBoxTable' = [MailBoxTable EXCEPT ![b] = Made(MailBoxTable[b], args)]
  BY <1>2
<1> HIDE DEF b
<1>6. MailBoxTable[b] \in MailBox /\ MailBoxTable \in [Boxes -> MailBox]
  BY <1>1, <1>3 DEF TableOK
<1>7. Alike(Made(MailBoxTable[b], args), [MailBoxTable[b] EXCEPT !.status = CREATED])
  BY <1>6 DEF Alike, Made, MailBox
<1>8. SameBoxesBut(b) /\ MailBoxTable'[b] = Made(MailBoxTable[b], args)
  BY <1>3, <1>5, <1>6 DEF SameBoxesBut, Alike
<1>9. UNCHANGED <<processTable, call, Current, ready>>
  BY DEF MboxCreate
<1> QED
  BY <1>3, <1>4, <1>7, <1>8, <1>9, RunSame DEF Creates

LEMMA ReleaseKind ==
    ASSUME Before, NEW b \in Boxes, MboxRelease(b)
    PROVE  Releases(b)
<1> DEFINE new == [MailBoxTable[b] EXCEPT !.status = UNUSED]
           c == [Idle EXCEPT !.pc = "releaseRecv", !.box = b]
<1>1. /\ MailBoxTable' = [MailBoxTable EXCEPT ![b] = new]
      /\ call' = [call EXCEPT ![Current] = c]
      /\ UNCHANGED <<processTable, Current, ready>>
  BY DEF MboxRelease
<1>2. call[Current].pc \notin ReleasePcs
  BY UserPc DEF MboxRelease, Calls
<1>3. MailBoxTable \in [Boxes -> MailBox] /\ call \in [All -> Call] /\ Current \in All
  BY CallOf DEF Before, CoreOK, TableOK
<1>4. SameBoxesBut(b) /\ Alike(MailBoxTable'[b], new)
  BY <1>1, <1>3 DEF SameBoxesBut, Alike
<1>5. OthersStay /\ call'[Current] = c
  BY <1>1, <1>3 DEF OthersStay
<1> QED
  BY <1>1, <1>2, <1>4, <1>5, RunSame DEF Releases

LEMMA QuitKind ==
    ASSUME Before, ClientsOK, Quit
    PROVE  Quits
<1>1. Current \in Procs
  BY CallerOf DEF Quit
<1>2. ready # <<>>
  <2>1. Sentinel \in Members(ready)
    BY <1>1, MailboxAssumption DEF Before, QueueOK
  <2> QED
    BY <2>1 DEF Members
<1>3. Run' = Run \ {Current}
  BY <1>2, RunAfterSwitch DEF Quit
<1>4. call' = [call EXCEPT ![Current] = [Idle EXCEPT !.pc = "gone"]]
  BY DEF Quit
<1>5. OthersStay /\ call'[Current].pc = "gone"
  BY <1>4, CallOf DEF OthersStay, Before, CoreOK, Idle
<1> QED
  BY <1>3, <1>5, UserPc DEF Quits, Quit, Calls

LEMMA SliceKind ==
    ASSUME Before, TimeSlice
    PROVE  Quiet
<1>1. Run' = Run
  BY SliceKeeps DEF Before, TimeSlice, Run
<1> QED
  BY <1>1 DEF TimeSlice, Quiet, SamePids, CallMoves, Alike

LEMMA EveryStep ==
    ASSUME Before, ClientsOK, Next
    PROVE  Kinds
<1>1. CASE GoOn
  <2>1. call[Current].box \in Boxes
    BY CallOf
  <2> QED
    BY <1>1, <2>1, SendGoesOnKind, ReceiveGoesOnKind DEF GoOn, Kinds
<1>2. ASSUME NEW b \in Boxes, NEW limit \in Limits,
             MboxReceive(b, limit) \/ MboxCondReceive(b, limit)
      PROVE  Kinds
  BY <1>2, ReceiveKind, MailboxAssumption DEF Kinds
<1>3. ASSUME NEW b \in Boxes, MboxRelease(b) PROVE Kinds
  BY <1>3, ReleaseKind DEF Kinds
<1>4. ASSUME NEW b \in Devices, DeviceInterrupt(b) PROVE Kinds
  <2>1. b \in Boxes
    BY MailboxAssumption DEF Devices, Boxes
  <2> QED
    BY <1>4, <2>1, SendKind DEF Kinds
<1>5. ASSUME NEW b \in Boxes, NEW size \in Sizes, MboxSend(b, size) \/ MboxCondSend(b, size)
      PROVE  Kinds
  BY <1>5, SendKind DEF Kinds
<1>6. ASSUME NEW args \in Client.creates, MboxCreate(args) PROVE Kinds
  BY <1>6, CreateKind DEF Kinds
<1>7. CASE Quit \/ TimeSlice
  BY <1>7, QuitKind, SliceKind DEF Kinds
<1> QED
  BY <1>1, <1>2, <1>3, <1>4, <1>5, <1>6, <1>7 DEF Next, Send, Receive

-----------------------------------------------------------------------------
(***************************************************************************)
(* The steps keep the invariant.                                           *)
(***************************************************************************)
\* One turn of MboxRelease's loops: e is the entry it comes to, 0 behind the last.
WalkTo(e) ==
    LET c == call[Current]
    IN  /\ c.pc \in ReleasePcs /\ c.box \in Boxes
        /\ e = Behind(IF c.pc = "releaseRecv" THEN Receivers(c.box) ELSE Senders(c.box), c.entry)
        /\ UNCHANGED <<MailBoxTable, processTable>> /\ OthersStay
        /\ call'[Current].box = IF e = 0 /\ c.pc = "releaseSend" THEN 0 ELSE c.box
        /\ \/ /\ e \in 1 .. Len(processTable)
              /\ call'[Current].pc = c.pc /\ call'[Current].entry = e
              /\ WakesOf(e)
           \/ /\ e = 0 /\ Run' = Run
              /\ \/ /\ c.pc = "releaseRecv"
                    /\ call'[Current].pc = "releaseSend" /\ call'[Current].entry = 0
                 \/ c.pc = "releaseSend" /\ call'[Current].pc = "user"

LEMMA WalkKind ==
    ASSUME Before, ReleaseNext
    PROVE  \E e : WalkTo(e)
<1> DEFINE n == Len(processTable)
           c == call[Current]
           box == MailBoxTable[c.box]
           q == IF c.pc = "releaseRecv" THEN box.waitingToReceive ELSE box.waitingToSend
           e == Behind(q, c.entry)
<1>1. /\ c \in Call /\ c.box \in Boxes /\ call \in [All -> Call] /\ Current \in All
      /\ c.pc \in ReleasePcs
  BY CallOf DEF Before, CoreOK, ReleaseNext, In, ReleasePcs
<1>2. n \in Nat /\ BoxOK(box, n)
  BY <1>1, TableOf
<1>3. q \in Seq(1 .. MAXPROC) /\ Members(q) \subseteq 1 .. n
  BY <1>2, BoxFacts
<1>4. UNCHANGED <<MailBoxTable, processTable>>
  BY DEF ReleaseNext
<1>5. e = Behind(IF c.pc = "releaseRecv" THEN Receivers(c.box) ELSE Senders(c.box), c.entry)
  BY DEF Receivers, Senders
<1> HIDE DEF q
<1>6. CASE e # 0 /\ call' = [call EXCEPT ![Current].entry = e] /\ UnblockProc(processTable[e].pid)
  <2>1. e \in 1 .. n
    BY <1>3, <1>6, BehindIsListed
  <2>2. WakesOf(e)
    BY <1>6, <2>1, RunAfterUnblock
  <2> HIDE DEF e
  <2>3. /\ OthersStay /\ call'[Current].pc = c.pc /\ call'[Current].entry = e
        /\ call'[Current].box = c.box
    BY <1>1, <1>6 DEF OthersStay, Call
  <2> HIDE DEF n
  <2>4. n = Len(processTable)
    BY DEF n
  <2> QED
    BY <1>1, <1>4, <1>5, <1>6, <2>1, <2>2, <2>3, <2>4 DEF WalkTo
<1>7. CASE e = 0 /\ UNCHANGED <<Current, ready>> /\ call' = [call EXCEPT ![Current] =
                            IF c.pc = "releaseRecv"
                            THEN [c EXCEPT !.pc = "releaseSend", !.entry = 0]
                            ELSE Idle]
  <2>1. OthersStay /\ call'[Current] = IF c.pc = "releaseRecv"
                            THEN [c EXCEPT !.pc = "releaseSend", !.entry = 0]
                            ELSE Idle
    BY <1>1, <1>7 DEF OthersStay
  <2>2. Run' = Run
    BY <1>7, RunSame
  <2>3. CASE c.pc = "releaseRecv"
    <3>1. /\ call'[Current].pc = "releaseSend" /\ call'[Current].entry = 0
          /\ call'[Current].box = c.box
      BY <1>1, <2>1, <2>3 DEF Call
    <3> HIDE DEF e
    <3> QED
      BY <1>1, <1>4, <1>5, <1>7, <2>1, <2>2, <2>3, <3>1 DEF WalkTo
  <2>4. CASE c.pc = "releaseSend"
    <3>1. call'[Current].pc = "user" /\ call'[Current].box = 0
      BY <2>1, <2>4 DEF Idle
    <3> HIDE DEF e
    <3> QED
      BY <1>1, <1>4, <1>5, <1>7, <2>1, <2>2, <2>4, <3>1 DEF WalkTo
  <2> QED
    BY <1>1, <2>3, <2>4 DEF ReleasePcs
<1> QED
  BY <1>6, <1>7 DEF ReleaseNext, q

LEMMA PcsApart ==
    /\ \A pc : pc \in ReleasePcs => pc \notin WaitPcs
    /\ "gone" \notin WaitPcs \cup ReleasePcs /\ "user" \notin WaitPcs \cup ReleasePcs
    /\ "releaseRecv" \in ReleasePcs /\ "releaseSend" \in ReleasePcs
    /\ ReceivePcs \subseteq WaitPcs /\ SendPcs \subseteq WaitPcs
    /\ ReceivePcs \cap SendPcs = {} /\ "sendOrder" \in WaitPcs \ (ReceivePcs \cup SendPcs)
    /\ WaitPcs \ {"sendOrder"} = ReceivePcs \cup SendPcs
BY DEF WaitPcs, ReceivePcs, SendPcs, ReleasePcs

\* In every step: whoever waits afterwards waited before, in the same call, or is
\* the process that went to sleep; and entries keep their processes.
LEMMA WaitersBefore ==
    ASSUME Before, ClientsOK, Kinds, NEW p \in All, call'[p].pc \in WaitPcs
    PROVE  call'[p] = call[p] \/ (p = Current /\ \E b \in Boxes : Sleeps(b))
<1>1. CASE Quiet \/ \E b \in Boxes : Wakes(b)
  BY <1>1 DEF Quiet, Wakes, CallMoves, OthersStay
<1>2. CASE Quits
  BY <1>2, PcsApart DEF Quits, OthersStay
<1>3. CASE ReleaseNext
  BY <1>3, WalkKind, PcsApart DEF WalkTo, OthersStay
<1>4. CASE \E b \in Boxes : Sleeps(b)
  BY <1>4 DEF Sleeps, OthersStay
<1>5. CASE \E b \in Boxes : Creates(b)
  BY <1>5 DEF Creates
<1>6. CASE \E b \in Boxes : Releases(b)
  <2>1. Idle \in Call
    BY IdleIsCall
  <2> QED
    BY <1>6, <2>1, PcsApart DEF Releases, OthersStay, Call
<1> QED
  BY <1>1, <1>2, <1>3, <1>4, <1>5, <1>6 DEF Kinds

LEMMA PidsStay ==
    ASSUME Before, Kinds
    PROVE  /\ Len(processTable') \in Nat /\ Len(processTable) <= Len(processTable')
           /\ \A e \in 1 .. Len(processTable) : processTable'[e].pid = processTable[e].pid
<1>1. Len(processTable) \in Nat
  BY IdleIsCall, TableOf
<1>2. CASE Quiet \/ \E b \in Boxes : Wakes(b)
  BY <1>1, <1>2 DEF Quiet, Wakes, SamePids
<1>3. CASE Quits \/ ReleaseNext \/ \E b \in Boxes : Creates(b) \/ Releases(b)
  <2>1. processTable' = processTable
    BY <1>3, WalkKind DEF Quits, WalkTo, Creates, Releases
  <2> QED
    BY <1>1, <2>1
<1>4. CASE \E b \in Boxes : Sleeps(b)
  BY <1>1, <1>4 DEF Sleeps
<1> QED
  BY <1>2, <1>3, <1>4 DEF Kinds

LEMMA EntriesStep ==
    ASSUME Before, ClientsOK, EntriesOK, Kinds
    PROVE  EntriesOK'
<1> SUFFICES ASSUME NEW p \in All, call'[p].pc \in WaitPcs
             PROVE  /\ call'[p].entry \in 1 .. Len(processTable')
                    /\ processTable'[call'[p].entry].pid = p
  BY DEF EntriesOK
<1>1. /\ Len(processTable') \in Nat /\ Len(processTable) <= Len(processTable')
      /\ Len(processTable) \in Nat
      /\ \A e \in 1 .. Len(processTable) : processTable'[e].pid = processTable[e].pid
  BY PidsStay, IdleIsCall, TableOf
<1>2. CASE call'[p] = call[p]
  <2>1. call[p].entry \in 1 .. Len(processTable) /\ processTable[call[p].entry].pid = p
    BY <1>2 DEF EntriesOK
  <2>2. call[p].entry \in 1 .. Len(processTable')
    BY <1>1, <2>1
  <2> QED
    BY <1>1, <1>2, <2>1, <2>2
<1>3. CASE p = Current /\ \E b \in Boxes : Sleeps(b)
  BY <1>1, <1>3 DEF Sleeps
<1> QED
  BY <1>2, <1>3, WaitersBefore

\* Nobody goes to sleep but the caller of blockMe.
LEMMA AsleepBefore ==
    ASSUME Before, ClientsOK, EntriesOK, AsleepOK, Kinds, NEW p \in All, Asleep(p)'
    PROVE  \/ Asleep(p) /\ call'[p] = call[p] /\ call[p].pc \in WaitPcs /\ p # Current
           \/ p = Current /\ \E b \in Boxes : Sleeps(b)
<1>1. Current \in Run /\ Current \in All
  BY CallOf DEF Run, Runnable
<1>2. p \notin Run' /\ call'[p].pc # "gone"
  BY DEF Asleep, Run
<1>3. CASE p \notin Run /\ p # Current
  <2>1. call'[p] = call[p]
    BY <1>3, WalkKind
       DEF Kinds, Quiet, Quits, Wakes, Sleeps, Creates, Releases, CallMoves, OthersStay, WalkTo
  <2> QED
    BY <1>2, <1>3, <2>1 DEF Asleep, Run, AsleepOK
<1>4. CASE p \in Run
  <2>1. CASE \E b \in Boxes : Sleeps(b)
    BY <1>2, <1>4, <2>1 DEF Sleeps
  <2>2. CASE Quits
    BY <1>2, <1>4, <2>2 DEF Quits
  <2>3. CASE ReleaseNext
    BY <1>2, <1>4, <2>3, WalkKind DEF WalkTo, WakesOf
  <2>4. CASE Quiet \/ \E b \in Boxes : Wakes(b) \/ Creates(b) \/ Releases(b)
    BY <1>2, <1>4, <2>4 DEF Quiet, Wakes, Creates, Releases, WakesOf
  <2> QED
    BY <2>1, <2>2, <2>3, <2>4 DEF Kinds
<1> QED
  BY <1>1, <1>3, <1>4

LEMMA BoxRecords ==
    ASSUME Before
    PROVE  /\ MailBoxTable \in [Boxes -> MailBox] /\ Len(processTable) \in Nat
           /\ \A b \in Boxes :
                /\ Receivers(b) \in Seq(1 .. MAXPROC) /\ Senders(b) \in Seq(1 .. MAXPROC)
                /\ Order(b) \in Seq(1 .. MAXPROC)
                /\ Members(Receivers(b)) \subseteq 1 .. Len(processTable)
                /\ Members(Senders(b)) \subseteq 1 .. Len(processTable)
                /\ Members(Order(b)) \subseteq 1 .. Len(processTable)
                /\ MailBoxTable[b].status \in {UNUSED, CREATED}
                /\ \A s : Alike(MailBoxTable'[b], [MailBoxTable[b] EXCEPT !.status = s]) =>
                      /\ Receivers(b)' = Receivers(b) /\ Senders(b)' = Senders(b)
                      /\ Order(b)' = Order(b) /\ MailBoxTable'[b].status = s
<1>1. MailBoxTable \in [Boxes -> MailBox] /\ Len(processTable) \in Nat
  BY IdleIsCall, TableOf DEF Before, CoreOK, TableOK
<1> SUFFICES ASSUME NEW b \in Boxes
             PROVE  /\ Receivers(b) \in Seq(1 .. MAXPROC) /\ Senders(b) \in Seq(1 .. MAXPROC)
                    /\ Order(b) \in Seq(1 .. MAXPROC)
                    /\ Members(Receivers(b)) \subseteq 1 .. Len(processTable)
                    /\ Members(Senders(b)) \subseteq 1 .. Len(processTable)
                    /\ Members(Order(b)) \subseteq 1 .. Len(processTable)
                    /\ MailBoxTable[b].status \in {UNUSED, CREATED}
                    /\ \A s : Alike(MailBoxTable'[b], [MailBoxTable[b] EXCEPT !.status = s]) =>
                          /\ Receivers(b)' = Receivers(b) /\ Senders(b)' = Senders(b)
                          /\ Order(b)' = Order(b) /\ MailBoxTable'[b].status = s
  BY <1>1
<1>2. BoxOK(MailBoxTable[b], Len(processTable)) /\ MailBoxTable[b] \in MailBox
  BY TableOf
<1>3. /\ Receivers(b) \in Seq(1 .. MAXPROC) /\ Senders(b) \in Seq(1 .. MAXPROC)
      /\ Order(b) \in Seq(1 .. MAXPROC)
      /\ Members(Receivers(b)) \subseteq 1 .. Len(processTable)
      /\ Members(Senders(b)) \subseteq 1 .. Len(processTable)
      /\ Members(Order(b)) \subseteq 1 .. Len(processTable)
  BY <1>1, <1>2, BoxFacts DEF Receivers, Senders, Order
<1>4. MailBoxTable[b].status \in {UNUSED, CREATED}
  BY <1>2 DEF MailBox
<1>5. ASSUME NEW s, Alike(MailBoxTable'[b], [MailBoxTable[b] EXCEPT !.status = s])
      PROVE  /\ Receivers(b)' = Receivers(b) /\ Senders(b)' = Senders(b)
             /\ Order(b)' = Order(b) /\ MailBoxTable'[b].status = s
  BY <1>2, <1>5 DEF Alike, MailBox, Receivers, Senders, Order
<1> QED
  BY <1>3, <1>4, <1>5

LEMMA SeqOfNats == \A q \in Seq(1 .. MAXPROC) : q \in Seq(Nat)
<1> SUFFICES ASSUME NEW q \in Seq(1 .. MAXPROC) PROVE q \in Seq(Nat)
  OBVIOUS
<1>1. Len(q) \in Nat /\ \A i \in 1 .. Len(q) : q[i] \in 1 .. MAXPROC
  BY ElementOfSeq, LenProperties
<1>2. \A i \in 1 .. Len(q) : q[i] \in Nat
  BY <1>1
<1>3. q = [i \in 1 .. Len(q) |-> q[i]]
  BY LenProperties
<1> QED
  BY <1>1, <1>2, <1>3

\* What a step does to the list of a process that stays asleep: nothing, or it
\* takes the entry of another off its front, or puts one behind it.
LEMMA ListKept ==
    ASSUME Before, ClientsOK, EntriesOK, AsleepOK, Kinds,
           NEW p \in All, Asleep(p), Asleep(p)', call'[p] = call[p], p # Current,
           call[p].pc # "sendOrder"
    PROVE  call[p].entry \in Members(ListOf(p)')
<1> DEFINE b == call[p].box
           e == call[p].entry
<1>1. /\ b \in Boxes /\ call[p].pc \in ReceivePcs \cup SendPcs /\ call[p].pc \in WaitPcs
      /\ e \in Members(ListOf(p)) /\ e \in 1 .. Len(processTable) /\ processTable[e].pid = p
  BY PcsApart DEF AsleepOK, EntriesOK, Before, CoreOK, Call
<1>2. /\ Receivers(b) \in Seq(1 .. MAXPROC) /\ Senders(b) \in Seq(1 .. MAXPROC)
      /\ Len(processTable) \in Nat /\ MailBoxTable \in [Boxes -> MailBox]
  BY <1>1, BoxRecords
<1>3. ListOf(p)' = IF call[p].pc \in ReceivePcs THEN Receivers(b)' ELSE Senders(b)'
  BY DEF ListOf, Receivers, Senders
<1>4. ListOf(p) = IF call[p].pc \in ReceivePcs THEN Receivers(b) ELSE Senders(b)
  BY DEF ListOf
<1>5. CASE Receivers(b)' = Receivers(b) /\ Senders(b)' = Senders(b)
  BY <1>1, <1>3, <1>4, <1>5
<1>6. ASSUME NEW a \in Boxes, Wakes(a) PROVE e \in Members(ListOf(p)')
  <2>1. CASE a # b
    BY <1>1, <1>5, <1>6, <2>1 DEF Wakes, SameBoxesBut, Alike, Receivers, Senders
  <2>2. CASE a = b
    <3>1. PICK f \in 1 .. Len(processTable) : TakenOff(b, f, MailBoxTable'[b]) /\ WakesOf(f)
      BY <1>6, <2>2 DEF Wakes
    <3>2. f # e
      <4>1. SUFFICES ASSUME f = e PROVE FALSE
        OBVIOUS
      <4>2. processTable[f].pid = p /\ Blockable(p)
        BY <1>1, <4>1 DEF Asleep, Blockable
      <4>3. p \in Run'
        BY <3>1, <4>2 DEF WakesOf
      <4> QED
        BY <4>3 DEF Asleep, Run
    <3>3. \A q \in Seq(1 .. MAXPROC) :
             q # <<>> /\ f = Head(q) /\ e \in Members(q) => e \in Members(Tail(q))
      BY <3>2, TailMembers
    <3>4. \/ Receivers(b)' = Receivers(b) /\ Senders(b)' = Senders(b)
          \/ /\ Receivers(b) # <<>> /\ f = Head(Receivers(b))
             /\ Receivers(b)' = Tail(Receivers(b)) /\ Senders(b)' = Senders(b)
          \/ /\ Senders(b) # <<>> /\ f = Head(Senders(b))
             /\ Senders(b)' = Tail(Senders(b)) /\ Receivers(b)' = Receivers(b)
      BY <3>1 DEF TakenOff, Receivers, Senders
    <3> HIDE DEF b, e
    <3> QED
      BY <1>1, <1>2, <1>3, <1>4, <1>5, <3>3, <3>4
  <2> QED
    BY <2>1, <2>2
<1>7. ASSUME NEW a \in Boxes, Sleeps(a) PROVE e \in Members(ListOf(p)')
  <2>1. CASE a # b
    BY <1>1, <1>5, <1>7, <2>1 DEF Sleeps, SameBoxesBut, Alike, Receivers, Senders
  <2>2. CASE a = b
    <3> DEFINE f == Len(processTable) + 1
    <3>1. /\ \/ Receivers(b)' = Append(Receivers(b), f) \/ Receivers(b)' = Receivers(b)
          /\ \/ Senders(b)' = Append(Senders(b), f) \/ Senders(b)' = Senders(b)
      BY <1>7, <2>2 DEF Sleeps, PutOn, Receivers, Senders
    <3>2. \A q \in Seq(1 .. MAXPROC) : q \in Seq(Nat) /\ Members(Append(q, f)) = Members(q) \cup {f}
      <4> SUFFICES ASSUME NEW q \in Seq(1 .. MAXPROC)
                   PROVE  q \in Seq(Nat) /\ Members(Append(q, f)) = Members(q) \cup {f}
        OBVIOUS
      <4>1. q \in Seq(Nat) /\ f \in Nat
        BY <1>2, SeqOfNats
      <4> QED
        BY <4>1, AppendMembers
    <3> HIDE DEF b, e, f
    <3> QED
      BY <1>1, <1>2, <1>3, <1>4, <3>1, <3>2
  <2> QED
    BY <2>1, <2>2
<1>8. CASE Quiet \/ Quits \/ ReleaseNext
  BY <1>1, <1>5, <1>8, WalkKind DEF Quiet, Alike, Quits, WalkTo, Receivers, Senders
<1>9. ASSUME NEW a \in Boxes, Creates(a) \/ Releases(a)
      PROVE  Receivers(b)' = Receivers(b) /\ Senders(b)' = Senders(b)
  <2>1. CASE a # b
    BY <1>1, <1>9, <2>1 DEF Creates, Releases, SameBoxesBut, Alike, Receivers, Senders
  <2>2. CASE a = b
    BY <1>1, <1>9, <2>2, BoxRecords DEF Creates, Releases
  <2> QED
    BY <2>1, <2>2
<1> QED
  BY <1>5, <1>6, <1>7, <1>8, <1>9 DEF Kinds

LEMMA AsleepStep ==
    ASSUME Before, ClientsOK, EntriesOK, AsleepOK, Kinds
    PROVE  AsleepOK'
<1> SUFFICES ASSUME NEW p \in All, Asleep(p)'
             PROVE  /\ call'[p].pc \in WaitPcs
                    /\ call'[p].pc # "sendOrder" => call'[p].entry \in Members(ListOf(p)')
  BY DEF AsleepOK
<1>1. CASE Asleep(p) /\ call'[p] = call[p] /\ call[p].pc \in WaitPcs /\ p # Current
  BY <1>1, ListKept
<1>2. CASE p = Current /\ \E b \in Boxes : Sleeps(b)
  <2> DEFINE f == Len(processTable) + 1
  <2>1. PICK b \in Boxes : Sleeps(b)
    BY <1>2
  <2>2. /\ call'[p].box = b /\ call'[p].entry = f
        /\ PutOn(b, f, call'[p].pc, MailBoxTable'[b])
    BY <1>2, <2>1 DEF Sleeps
  <2>3. call'[p].pc \in WaitPcs
    BY <2>2, PcsApart DEF PutOn
  <2>4. ListOf(p)' = IF call'[p].pc \in ReceivePcs THEN Receivers(b)' ELSE Senders(b)'
    BY <2>2 DEF ListOf, Receivers, Senders
  <2>5. call'[p].pc # "sendOrder" => ListOf(p)' = Append(Receivers(b), f) \/ ListOf(p)' = Append(Senders(b), f)
    BY <2>2, <2>4, PcsApart DEF PutOn, Receivers, Senders
  <2>6. \A q \in Seq(1 .. MAXPROC) : f \in Members(Append(q, f))
    <3> SUFFICES ASSUME NEW q \in Seq(1 .. MAXPROC) PROVE f \in Members(Append(q, f))
      OBVIOUS
    <3>1. q \in Seq(Nat) /\ f \in Nat
      BY BoxRecords, SeqOfNats
    <3> QED
      BY <3>1, AppendMembers
  <2> HIDE DEF f
  <2> QED
    BY <2>2, <2>3, <2>5, <2>6, BoxRecords
<1> QED
  BY <1>1, <1>2, AsleepBefore

\* A new entry is not yet on a list.
LEMMA DistinctStep ==
    ASSUME Before, ClientsOK, ListsDistinct, Kinds
    PROVE  ListsDistinct'
<1> SUFFICES ASSUME NEW b \in Boxes PROVE Distinct(Receivers(b)') /\ Distinct(Senders(b)')
  BY DEF ListsDistinct
<1>1. /\ Receivers(b) \in Seq(1 .. MAXPROC) /\ Senders(b) \in Seq(1 .. MAXPROC)
      /\ Distinct(Receivers(b)) /\ Distinct(Senders(b))
      /\ Members(Receivers(b)) \subseteq 1 .. Len(processTable)
      /\ Members(Senders(b)) \subseteq 1 .. Len(processTable)
      /\ Len(processTable) \in Nat
  BY BoxRecords DEF ListsDistinct
<1>2. CASE Receivers(b)' = Receivers(b) /\ Senders(b)' = Senders(b)
  BY <1>1, <1>2
<1>3. ASSUME NEW a \in Boxes, Wakes(a) PROVE Distinct(Receivers(b)') /\ Distinct(Senders(b)')
  <2>1. CASE a # b
    BY <1>2, <1>3, <2>1 DEF Wakes, SameBoxesBut, Alike, Receivers, Senders
  <2>2. CASE a = b
    <3>1. /\ \/ Receivers(b)' = Receivers(b)
             \/ Receivers(b) # <<>> /\ Receivers(b)' = Tail(Receivers(b))
          /\ \/ Senders(b)' = Senders(b)
             \/ Senders(b) # <<>> /\ Senders(b)' = Tail(Senders(b))
      BY <1>3, <2>2 DEF Wakes, TakenOff, Receivers, Senders
    <3>2. \A q \in Seq(1 .. MAXPROC) : q # <<>> /\ Distinct(q) => Distinct(Tail(q))
      BY TailMembers
    <3> QED
      BY <1>1, <3>1, <3>2
  <2> QED
    BY <2>1, <2>2
<1>4. ASSUME NEW a \in Boxes, Sleeps(a) PROVE Distinct(Receivers(b)') /\ Distinct(Senders(b)')
  <2>1. CASE a # b
    BY <1>2, <1>4, <2>1 DEF Sleeps, SameBoxesBut, Alike, Receivers, Senders
  <2>2. CASE a = b
    <3> DEFINE f == Len(processTable) + 1
    <3>1. /\ \/ Receivers(b)' = Append(Receivers(b), f) \/ Receivers(b)' = Receivers(b)
          /\ \/ Senders(b)' = Append(Senders(b), f) \/ Senders(b)' = Senders(b)
      BY <1>4, <2>2 DEF Sleeps, PutOn, Receivers, Senders
    <3>2. \A q \in Seq(1 .. MAXPROC) :
             Distinct(q) /\ Members(q) \subseteq 1 .. Len(processTable) => Distinct(Append(q, f))
      <4> SUFFICES ASSUME NEW q \in Seq(1 .. MAXPROC), Distinct(q),
                          Members(q) \subseteq 1 .. Len(processTable)
                   PROVE  Distinct(Append(q, f))
        OBVIOUS
      <4>1. q \in Seq(Nat) /\ f \in Nat /\ f \notin Members(q)
        BY <1>1, SeqOfNats
      <4> QED
        BY <4>1, AppendDistinct
    <3> HIDE DEF f
    <3> QED
      BY <1>1, <3>1, <3>2
  <2> QED
    BY <2>1, <2>2
<1>5. CASE Quiet \/ Quits \/ ReleaseNext
  BY <1>2, <1>5, WalkKind DEF Quiet, Alike, Quits, WalkTo, Receivers, Senders
<1>6. ASSUME NEW a \in Boxes, Creates(a) \/ Releases(a)
      PROVE  Receivers(b)' = Receivers(b) /\ Senders(b)' = Senders(b)
  <2>1. CASE a # b
    BY <1>6, <2>1 DEF Creates, Releases, SameBoxesBut, Alike, Receivers, Senders
  <2>2. CASE a = b
    BY <1>6, <2>2, BoxRecords DEF Creates, Releases
  <2> QED
    BY <2>1, <2>2
<1> QED
  BY <1>2, <1>3, <1>4, <1>5, <1>6 DEF Kinds

\* The walk along a list comes to every entry on it.
LEMMA BehindStep ==
    ASSUME NEW q \in Seq(1 .. MAXPROC), Distinct(q), NEW e \in Members(q), NEW x,
           x = 0 \/ (x \in Range(q) /\ Place(q, x) < Place(q, e))
    PROVE  LET f == Behind(q, x)
           IN  f # 0 /\ (f = e \/ (f \in Range(q) /\ Place(q, f) < Place(q, e)))
<1> DEFINE f == Behind(q, x)
           i == IF x = 0 THEN 1 ELSE 1 + Place(q, x)
           j == Place(q, e)
<1>1. /\ Range(q) = Members(q) /\ DOMAIN q = 1 .. Len(q) /\ Len(q) \in Nat
      /\ \A k \in 1 .. Len(q) : q[k] \in 1 .. MAXPROC
  BY RangeIsMembers, LenProperties, ElementOfSeq
<1>2. j \in 1 .. Len(q) /\ q[j] = e
  BY <1>1, PlaceOf
<1>3. x # 0 => Place(q, x) \in 1 .. Len(q) /\ x \in Range(q)
  BY <1>1, PlaceOf
<1> HIDE DEF j
<1>4. i \in 1 .. Len(q) /\ i <= j
  BY <1>1, <1>2, <1>3 DEF j
<1>5. f = q[i]
  BY <1>1, <1>3, <1>4 DEF Behind
<1> HIDE DEF f, i
<1>6. f # 0 /\ f \in Range(q)
  BY <1>1, <1>4, <1>5 DEF Members
<1>7. Place(q, f) = i
  <2>1. Place(q, f) \in 1 .. Len(q) /\ q[Place(q, f)] = f
    BY <1>6, PlaceOf
  <2> QED
    BY <1>4, <1>5, <2>1 DEF Distinct
<1>8. f # e => i < j
  BY <1>1, <1>2, <1>4, <1>5
<1> QED
  BY <1>6, <1>7, <1>8 DEF f, j

LEMMA WitnessStays ==
    ASSUME NEW p, NEW q, WillWake(q, p), call'[q] = call[q], call'[p] = call[p],
           ListOf(p)' = ListOf(p)
    PROVE  WillWake(q, p)'
BY DEF WillWake, Ahead

LEMMA AwaitedBy ==
    ASSUME NEW p, NEW q \in All, WillWake(q, p)'
    PROVE  Awaited(p)'
BY DEF Awaited, WillWake, Ahead

LEMMA ReleaseStep ==
    ASSUME Before, ClientsOK, WaitInv, Kinds
    PROVE  ReleaseOK'
<1> SUFFICES ASSUME NEW p \in All, Asleep(p)', call'[p].pc # "sendOrder",
                    MailBoxTable'[call'[p].box].status # CREATED
             PROVE  Awaited(p)'
  BY DEF ReleaseOK, Open
<1>1. EntriesOK /\ AsleepOK /\ ListsDistinct /\ ReleaseOK
  BY DEF WaitInv
<1>2. CASE p = Current /\ \E a \in Boxes : Sleeps(a)
  BY <1>2 DEF Sleeps, PutOn, Open
<1>3. CASE Asleep(p) /\ call'[p] = call[p] /\ call[p].pc \in WaitPcs /\ p # Current
  <2>0. PICK b \in Boxes, e \in Nat : b = call[p].box /\ e = call[p].entry
    BY MailboxAssumption DEF Before, CoreOK, Call
  <2> PICK me \in All : me = Current
    BY CallOf
  <2>1. /\ me = Current
        /\ b = call[p].box /\ e = call[p].entry
        /\ b \in Boxes /\ call[p].pc \in ReceivePcs \cup SendPcs
        /\ e \in Members(ListOf(p)) /\ processTable[e].pid = p
        /\ MailBoxTable'[b].status # CREATED
    BY <1>1, <1>3, <2>0, PcsApart DEF AsleepOK, EntriesOK, Before, CoreOK, Call
  <2>2. ListOf(p)' = IF call[p].pc \in ReceivePcs THEN Receivers(b)' ELSE Senders(b)'
    BY <1>3, <2>1 DEF ListOf, Receivers, Senders
  <2>3. ListOf(p) = IF call[p].pc \in ReceivePcs THEN Receivers(b) ELSE Senders(b)
    BY <2>1 DEF ListOf
  <2>4. ASSUME Receivers(b)' = Receivers(b), Senders(b)' = Senders(b), ~Open(b),
               CallMoves \/ (OthersStay /\ call[Current].pc \notin ReleasePcs)
        PROVE  Awaited(p)'
    <3>1. PICK q \in All : WillWake(q, p)
      BY <1>1, <1>3, <2>1, <2>4 DEF ReleaseOK, Awaited
    <3>2. call'[q] = call[q]
      <4>1. call[q].pc \in ReleasePcs
        BY <3>1, PcsApart DEF WillWake
      <4> QED
        BY <2>4, <4>1 DEF CallMoves, OthersStay
    <3>3. ListOf(p)' = ListOf(p)
      BY <2>2, <2>3, <2>4
    <3> QED
      BY <1>3, <3>1, <3>2, <3>3, WitnessStays, AwaitedBy
  <2>5. CASE Quiet \/ Quits
    BY <2>1, <2>4, <2>5 DEF Quiet, Quits, Alike, Receivers, Senders, Open
  <2>6. ASSUME NEW a \in Boxes, Wakes(a) PROVE Awaited(p)'
    <3>1. CASE a # b
      BY <2>1, <2>4, <2>6, <3>1 DEF Wakes, SameBoxesBut, Alike, Receivers, Senders, Open
    <3>2. CASE a = b
      BY <2>1, <2>4, <2>6, <3>2 DEF Wakes, TakenOff, Receivers, Senders, Open
    <3> QED
      BY <3>1, <3>2
  <2>7. ASSUME NEW a \in Boxes, Sleeps(a) PROVE Awaited(p)'
    <3>1. CASE a # b
      BY <2>1, <2>4, <2>7, <3>1 DEF Sleeps, SameBoxesBut, Alike, Receivers, Senders, Open
    <3>2. CASE a = b
      BY <2>1, <2>7, <3>2 DEF Sleeps, PutOn, Open
    <3> QED
      BY <3>1, <3>2
  <2>8. ASSUME NEW a \in Boxes, Creates(a) PROVE Awaited(p)'
    <3>1. CASE a # b
      BY <2>1, <2>4, <2>8, <3>1
         DEF Creates, SameBoxesBut, Alike, Receivers, Senders, Open, CallMoves
    <3>2. CASE a = b
      BY <2>1, <2>8, <3>2, BoxRecords DEF Creates
    <3> QED
      BY <3>1, <3>2
  <2>9. ASSUME NEW a \in Boxes, Releases(a) PROVE Awaited(p)'
    <3>1. CASE a # b
      BY <2>1, <2>4, <2>9, <3>1
         DEF Releases, SameBoxesBut, Alike, Receivers, Senders, Open
    <3>2. CASE a = b
      <4>1. /\ call'[Current].pc = "releaseRecv" /\ call'[Current].box = b
            /\ call'[Current].entry = 0 /\ me = Current
        BY <2>1, <2>9, <3>2, IdleIsCall DEF Releases, Call, Idle
      <4>2. WillWake(me, p)'
        BY <1>3, <2>1, <4>1 DEF WillWake, Ahead
      <4> QED
        BY <4>2, AwaitedBy
    <3> QED
      BY <3>1, <3>2
  <2>10. CASE ReleaseNext
    <3>1. PICK f : WalkTo(f)
      BY <2>10, WalkKind
    <3>2. ListOf(p)' = ListOf(p) /\ ~Open(b)
      BY <2>1, <2>2, <2>3, <3>1 DEF WalkTo, Receivers, Senders, Open
    <3>3. PICK q \in All : WillWake(q, p)
      BY <1>1, <1>3, <2>1, <3>2 DEF ReleaseOK, Awaited
    <3>4. CASE q # Current
      <4>1. call'[q] = call[q]
        BY <3>1, <3>4 DEF WalkTo, OthersStay
      <4> QED
        BY <1>3, <3>2, <3>3, <4>1, WitnessStays, AwaitedBy
    <3>5. CASE q = Current
      <4> DEFINE c == call[Current]
                 list == ListOf(p)
      <4>1. c.box = b /\ list \in Seq(1 .. MAXPROC) /\ Distinct(list)
        BY <1>1, <2>1, <2>3, <3>3, <3>5, BoxRecords DEF WillWake, ListsDistinct
      <4>2. ASSUME \/ c.pc = "releaseRecv" /\ call[p].pc \in ReceivePcs
                   \/ c.pc = "releaseSend" /\ call[p].pc \in SendPcs
            PROVE  WillWake(me, p)'
        <5>1. f = Behind(list, c.entry)
          BY <2>3, <3>1, <4>1, <4>2, PcsApart DEF WalkTo
        <5>2. Ahead(e, list, Current)
          BY <2>1, <3>3, <3>5, <4>2 DEF WillWake
        <5> HIDE DEF list
        <5>3. f # 0 /\ (f = e \/ (f \in Range(list) /\ Place(list, f) < Place(list, e)))
          BY <2>1, <4>1, <5>1, <5>2, BehindStep DEF Ahead, list
        <5>4. /\ call'[Current].pc = c.pc /\ call'[Current].entry = f /\ call'[Current].box = b
              /\ WakesOf(f)
          BY <3>1, <4>1, <5>3 DEF WalkTo
        <5>5. f # e
          <6> SUFFICES ASSUME f = e PROVE FALSE
            OBVIOUS
          <6>1. processTable[f].pid = p /\ Blockable(p)
            BY <1>3, <2>1 DEF Asleep, Blockable
          <6> QED
            BY <5>4, <6>1 DEF WakesOf, Asleep, Run
        <5>6. /\ call'[Current].entry \in Range(list)
              /\ Place(list, call'[Current].entry) < Place(list, e)
          BY <5>3, <5>4, <5>5
        <5>7. /\ ListOf(p)' = list /\ call'[p].entry = e /\ call'[p].pc = call[p].pc
              /\ call'[p].box = b
          BY <1>3, <2>1, <3>2 DEF list
        <5> QED
          BY <2>1, <4>2, <5>4, <5>6, <5>7 DEF WillWake, Ahead
      <4>3. ASSUME c.pc = "releaseRecv", call[p].pc \in SendPcs
            PROVE  WillWake(me, p)'
        <5>1. call[p].pc \notin ReceivePcs
          BY <4>3, PcsApart
        <5>2. /\ call'[Current].box = b
              /\ \/ call'[Current].pc = "releaseRecv"
                 \/ call'[Current].pc = "releaseSend" /\ call'[Current].entry = 0
          BY <3>1, <4>1, <4>3 DEF WalkTo
        <5> QED
          BY <1>3, <2>1, <4>3, <5>1, <5>2 DEF WillWake, Ahead
      <4>4. WillWake(me, p)'
        BY <2>1, <3>3, <3>5, <4>2, <4>3 DEF WillWake
      <4> QED
        BY <4>4, AwaitedBy
    <3> QED
      BY <3>4, <3>5
  <2> QED
    BY <2>5, <2>6, <2>7, <2>8, <2>9, <2>10 DEF Kinds
<1> QED
  BY <1>1, <1>2, <1>3, AsleepBefore

LEMMA WaitStep == TypeInv /\ WaitInv /\ [Next]_vars => WaitInv'
<1> SUFFICES ASSUME TypeInv, WaitInv, [Next]_vars PROVE WaitInv'
  OBVIOUS
<1>1. Before /\ ClientsOK
  BY DEF TypeInv, Before, ClientsOK
<1>2. EntriesOK /\ AsleepOK /\ ListsDistinct
  BY DEF WaitInv
<1>3. CASE Next
  <2>1. Kinds
    BY <1>1, <1>3, EveryStep
  <2> QED
    BY <1>1, <1>2, <2>1, EntriesStep, AsleepStep, DistinctStep, ReleaseStep DEF WaitInv
<1>4. CASE UNCHANGED vars
  BY <1>4 DEF vars, core, WaitInv, EntriesOK, AsleepOK, ListsDistinct, ReleaseOK, Asleep, ListOf,
              Runnable, Receivers, Senders, Open, Awaited, WillWake, Ahead
<1> QED
  BY <1>3, <1>4

LEMMA WaitInit == Init => WaitInv
<1> SUFFICES ASSUME Init PROVE WaitInv
  OBVIOUS
<1>1. QueueOK(Current, ready)
  BY TypeInit DEF TypeInv
<1>2. \A p \in All : call[p].pc = "user"
  BY DEF Init, Idle
<1>3. \A p \in All : ~Asleep(p)
  <2>1. IsFiniteSet(All \ {Current})
    <3>1. IsFiniteSet(All)
      BY MailboxAssumption, FS_AddElement DEF All
    <3> QED
      BY <3>1, FS_Subset
  <2>2. Members(ready) = All \ {Current}
    BY <2>1, AllOnce DEF Init
  <2> QED
    BY <2>2 DEF Asleep, Runnable
<1>4. \A b \in Boxes : Receivers(b) = <<>> /\ Senders(b) = <<>>
  BY DEF Init, UnmadeBox, Made, Receivers, Senders
<1>5. Distinct(<<>>)
  BY EmptySeq DEF Distinct
<1> QED
  BY <1>2, <1>3, <1>4, <1>5, PcsApart DEF WaitInv, EntriesOK, AsleepOK, ListsDistinct, ReleaseOK

LEMMA Waiting == Spec => []WaitInv
<1>1. Init => WaitInv
  BY WaitInit
<1>2. TypeInv /\ WaitInv /\ [Next]_vars => WaitInv'
  BY WaitStep
<1> QED
  BY <1>1, <1>2, Types, PTL DEF Spec

\* Whatever the clients do, and in whatever order the released, the releasing and
\* the other processes run: when no MboxRelease of a closed mailbox is under way,
\* nobody is still blocked on it but the senders on the list it does not walk.
THEOREM ReleaseWakes == Spec => []ReleaseWakesTheBlocked
<1>1. TypeInv /\ WaitInv => ReleaseWakesTheBlocked
  <2> SUFFICES ASSUME TypeInv, WaitInv, NEW b \in Boxes,
                      ~Open(b), InCall(b, {"releaseRecv", "releaseSend"}) = {},
                      NEW p \in All, call[p].box = b, Blocked(p), call[p].pc # "sendOrder"
               PROVE  FALSE
    BY DEF ReleaseWakesTheBlocked
  <2>1. Asleep(p)
    BY RangeIsMembers DEF TypeInv, QueueOK, Blocked, Asleep, Runnable
  <2>2. PICK q \in All : WillWake(q, p)
    BY <2>1 DEF WaitInv, ReleaseOK, Awaited
  <2>3. q \in InCall(b, {"releaseRecv", "releaseSend"})
    BY <2>2 DEF WillWake, InCall
  <2> QED
    BY <2>3
<1> QED
  BY <1>1, Types, Waiting, PTL

=============================================================================
