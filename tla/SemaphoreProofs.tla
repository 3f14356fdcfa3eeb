-------------------------- MODULE SemaphoreProofs --------------------------
(***************************************************************************)
(* Proofs about the semaphores of phase 3, for every set of processes,     *)
(* every size of semTable and every set of values.                         *)
(*                                                                         *)
(* The list of a semaphore is a chain of pointers.  The proofs name the    *)
(* sequence it stands for (IsList): an operation appends to it or takes    *)
(* its head off, and the pointers follow.                                  *)
(***************************************************************************)
EXTENDS SemaphoreProperties, LinkedLists

-----------------------------------------------------------------------------
(***************************************************************************)
(* Lists.                                                                  *)
(***************************************************************************)
\* What the properties follow along the links is the list.
LEMMA FollowedList ==
    ASSUME NEW q, NEW first, NEW next, IsList(Procs, NULL, q, first, next)
    PROVE  Followed(first, next) = q
<1> DEFINE N == Cardinality(Procs)
           D == 0 .. N
           part(n) == IF n < Len(q) THEN n + 1 ELSE Len(q)
           Rest(r) == IF r = <<>> \/ next[Last(r)] = NULL THEN r
                      ELSE Append(r, next[Last(r)])
           start == IF first = NULL THEN <<>> ELSE <<first>>
           goal == [n \in D |-> SubSeq(q, 1, part(n))]
           step(f) == [n \in D |-> IF n = 0 THEN start ELSE Rest(f[n-1])]
           upTo == CHOOSE f : f = step(f)
<1>1. N \in Nat /\ Len(q) \in Nat /\ Len(q) <= N
  BY ListLength, LenProperties, SemaphoresAssumption DEF IsList, Distinct
<1>2. \A i \in 1 .. Len(q) : q[i] \in Procs /\ q[i] # NULL
  BY ElementOfSeq, SemaphoresAssumption DEF IsList, Distinct
<1>3. \A n \in D : /\ SubSeq(q, 1, part(n)) \in Seq(Procs)
                   /\ Len(SubSeq(q, 1, part(n))) = part(n)
                   /\ \A i \in 1 .. part(n) : SubSeq(q, 1, part(n))[i] = q[i]
  <2> TAKE n \in D
  <2>1. part(n) \in Int /\ part(n) <= Len(q) /\ part(n) >= 0
    BY <1>1
  <2> HIDE DEF part
  <2>2. \A i \in 1 .. part(n) : q[i] \in Procs
    BY <1>1, <1>2, <2>1
  <2> QED
    BY <2>1, <2>2, SubSeqProperties
<1>4. start = SubSeq(q, 1, part(0))
  <2>1. 0 \in D
    BY <1>1
  <2>2. CASE Len(q) = 0
    <3>1. first = NULL /\ part(0) = 0
      BY <2>2 DEF IsList, Distinct
    <3> QED
      BY <3>1, <1>3, <2>1, EmptySeq, SeqEqual
  <2>3. CASE Len(q) # 0
    <3>1. first = q[1] /\ first # NULL /\ part(0) = 1 /\ q[1] \in Procs
      BY <1>1, <1>2, <2>3 DEF IsList, Distinct
    <3>2. <<q[1]>> \in Seq(Procs) /\ Len(<<q[1]>>) = 1 /\ <<q[1]>>[1] = q[1]
      BY <3>1
    <3>3. /\ SubSeq(q, 1, 1) \in Seq(Procs) /\ Len(SubSeq(q, 1, 1)) = 1
          /\ SubSeq(q, 1, 1)[1] = q[1]
      BY <3>1, <1>3, <2>1
    <3>4. <<q[1]>> = SubSeq(q, 1, 1)
      BY <3>2, <3>3, SeqEqual
    <3> QED
      BY <3>1, <3>4
  <2> QED
    BY <2>2, <2>3
<1>5. ASSUME NEW n \in D, n # 0
      PROVE  Rest(SubSeq(q, 1, part(n-1))) = SubSeq(q, 1, part(n))
  <2> DEFINE r == SubSeq(q, 1, part(n-1))
             t == SubSeq(q, 1, part(n))
  <2>1. n - 1 \in D /\ n - 1 >= 0
    BY <1>1, <1>5
  <2>2. /\ r \in Seq(Procs) /\ Len(r) = part(n-1)
        /\ \A i \in 1 .. part(n-1) : r[i] = q[i]
    BY <1>3, <2>1
  <2>3. /\ t \in Seq(Procs) /\ Len(t) = part(n)
        /\ \A i \in 1 .. part(n) : t[i] = q[i]
    BY <1>3
  <2> HIDE DEF r, t
  <2>4. CASE n < Len(q)
    <3>1. part(n-1) = n /\ part(n) = n + 1
      BY <1>1, <2>1, <2>4
    <3>2. r # <<>> /\ Last(r) = q[n] /\ n \in 1 .. Len(q)
      BY <1>1, <2>1, <2>2, <2>4, <3>1, EmptySeq DEF Last
    <3>3. next[Last(r)] = q[n+1] /\ q[n+1] # NULL /\ q[n+1] \in Procs
      <4>1. n # Len(q) /\ n + 1 \in 1 .. Len(q)
        BY <1>1, <2>4
      <4> QED
        BY <3>2, <4>1, <1>2 DEF IsList, Distinct
    <3>4. Rest(r) = Append(r, q[n+1])
      BY <3>2, <3>3
    <3>5. Append(r, q[n+1]) = t
      <4>1. /\ Append(r, q[n+1]) \in Seq(Procs) /\ Len(Append(r, q[n+1])) = n + 1
            /\ \A i \in 1 .. n : Append(r, q[n+1])[i] = q[i]
            /\ Append(r, q[n+1])[n+1] = q[n+1]
        BY <1>1, <2>2, <3>1, <3>3, AppendProperties
      <4>2. \A i \in 1 .. n+1 : Append(r, q[n+1])[i] = t[i]
        BY <1>1, <4>1, <2>3, <3>1
      <4> QED
        BY <4>1, <4>2, <2>3, <3>1, SeqEqual
    <3> QED
      BY <3>4, <3>5 DEF r, t
  <2>5. CASE ~(n < Len(q))
    <3>1. part(n-1) = Len(q) /\ part(n) = Len(q)
      BY <1>1, <2>1, <2>5
    <3>2. r = t
      BY <2>2, <2>3, <3>1, SeqEqual
    <3>3. CASE Len(q) = 0
      BY <3>1, <3>2, <3>3, <2>2, EmptySeq DEF r, t
    <3>4. CASE Len(q) # 0
      <4>1. r # <<>> /\ Last(r) = q[Len(q)]
        BY <1>1, <2>2, <3>1, <3>4, EmptySeq DEF Last
      <4>2. next[Last(r)] = NULL
        BY <1>1, <4>1, <3>4 DEF IsList, Distinct
      <4> QED
        BY <3>2, <4>2 DEF r, t
    <3> QED
      BY <3>3, <3>4
  <2> QED
    BY <2>4, <2>5
<1>6. goal = step(goal)
  <2>1. \A n \in D : goal[n] = IF n = 0 THEN start ELSE Rest(goal[n-1])
    <3> SUFFICES ASSUME NEW n \in D
                 PROVE  goal[n] = IF n = 0 THEN start ELSE Rest(goal[n-1])
      OBVIOUS
    <3>1. CASE n = 0
      <4>1. goal[n] = SubSeq(q, 1, part(0))
        BY <3>1
      <4> QED
        BY <4>1, <3>1, <1>4
    <3>2. CASE n # 0
      <4>1. n - 1 \in D
        BY <1>1, <3>2
      <4>2. goal[n-1] = SubSeq(q, 1, part(n-1)) /\ goal[n] = SubSeq(q, 1, part(n))
        BY <4>1
      <4> HIDE DEF goal, part, Rest, start
      <4> QED
        BY <4>2, <3>2, <1>5
    <3> QED
      BY <3>1, <3>2
  <2> HIDE DEF start, Rest
  <2> QED
    BY <2>1
<1>7. upTo = step(upTo)
  <2> HIDE DEF goal, step
  <2> QED
    BY <1>6
<1>8. N \in D
  BY <1>1
<1>9. upTo[N] = goal[N]
  <2> DEFINE Wrong == {n \in D : upTo[n] # goal[n]}
  <2> HIDE DEF upTo, goal, start, Rest
  <2>1. SUFFICES ASSUME Wrong # {} PROVE FALSE
    BY <1>8
  <2>2. Wrong \in SUBSET Nat
    BY <1>1
  <2>3. PICK x \in Wrong : \A y \in Wrong : x <= y
    BY <2>1, <2>2, LeastElement
  <2>4. \A n \in D : upTo[n] = IF n = 0 THEN start ELSE Rest(upTo[n-1])
    BY <1>7
  <2>5. \A n \in D : goal[n] = IF n = 0 THEN start ELSE Rest(goal[n-1])
    BY <1>6
  <2>6. x \in D /\ upTo[x] # goal[x]
    OBVIOUS
  <2>7. x # 0
    BY <2>4, <2>5, <2>6
  <2>8. x - 1 \in D /\ ~(x <= x - 1)
    BY <1>1, <2>6, <2>7
  <2>9. upTo[x-1] = goal[x-1]
    BY <2>3, <2>8
  <2> QED
    BY <2>4, <2>5, <2>6, <2>7, <2>9
<1>10. Followed(first, next) = upTo[N]
  BY DEF Followed
<1>11. goal[N] = q
  <2>1. part(N) = Len(q)
    BY <1>1
  <2>2. goal[N] = SubSeq(q, 1, Len(q))
    BY <1>8, <2>1
  <2> QED
    BY <2>2, SubSeqFull DEF IsList, Distinct
<1> QED
  BY <1>9, <1>10, <1>11

-----------------------------------------------------------------------------
(***************************************************************************)
(* Types.                                                                  *)
(***************************************************************************)
Positions == {"user", "walk", "blocked", "woken", "free", "freeing", "gone"}

\* The process that an action looks at is a process.
LEMMA CurrentIsAProcess ==
    ASSUME SemTypeOK, NEW where, At(where)
    PROVE  Current \in Procs /\ pc[Current] = where
BY DEF SemTypeOK, Pointers, At

\* semVReal keeps the types.
LEMMA SemVRealTypes ==
    ASSUME SemTypeOK, NEW s \in Sems, NEW at \in [Procs -> Positions],
           Current \in Procs, SemVReal(s, at)
    PROVE  SemTypeOK'
<1> DEFINE first == semTable[s].blockedProcessPtr
<1>1. first \in Pointers /\ semTable[s].value \in Int
  BY DEF SemTypeOK, Semaphore
<1>2. UNCHANGED <<nextSemBlockedSiblingPtr, sem, walker>>
  BY DEF SemVReal
<1>3. CASE first = NULL
  <2>1. /\ semTable' = [semTable EXCEPT ![s].value = @ + 1]
        /\ pc' = at /\ Current' = Current
    BY <1>3 DEF SemVReal
  <2>2. semTable' \in [Sems -> Semaphore]
    BY <1>1, <2>1 DEF SemTypeOK, Semaphore
  <2> QED
    BY <1>2, <2>1, <2>2 DEF SemTypeOK, Positions, Pointers
<1>4. CASE first # NULL
  <2>1. semTable' = [semTable EXCEPT ![s].value = @ + 1, ![s].blockedProcessPtr = BehindFirst(s)]
    BY <1>4 DEF SemVReal
  <2>2. first \in Procs /\ BehindFirst(s) \in Pointers
    BY <1>1, <1>4 DEF SemTypeOK, Pointers, BehindFirst
  <2>3. semTable' \in [Sems -> Semaphore]
    <3> DEFINE mid == [semTable EXCEPT ![s].value = @ + 1]
    <3>1. mid \in [Sems -> Semaphore]
      BY <1>1 DEF SemTypeOK, Semaphore
    <3>2. semTable' = [mid EXCEPT ![s].blockedProcessPtr = BehindFirst(s)]
      BY <2>1 DEF SemTypeOK, Semaphore
    <3> HIDE DEF mid
    <3> QED
      BY <2>2, <3>1, <3>2 DEF Semaphore
  <2>4. MboxCondSend(first, at)
    BY <1>4 DEF SemVReal
  <2>5. pc' \in [Procs -> Positions]
    BY <2>4 DEF MboxCondSend, Positions
  <2>6. Current' \in Pointers
    BY <2>2, <2>4 DEF MboxCondSend, Pointers
  <2> QED
    BY <1>2, <2>3, <2>5, <2>6 DEF SemTypeOK, Positions
<1> QED
  BY <1>3, <1>4

\* Nobody else runs while a process walks along a list, and it walks along
\* processes.  Without this the types are not kept.
WalkOK == \A p \in Procs : pc[p] = "walk" => p = Current /\ walker \in Procs

\* Every step keeps the types.
LEMMA TypeStep ==
    ASSUME SemTypeOK, WalkOK, [Next]_vars
    PROVE  SemTypeOK'
<1>1. CASE UNCHANGED vars
  BY <1>1 DEF vars, SemTypeOK
<1>2. CASE TimeSlice
  BY <1>2 DEF TimeSlice, SwitchFrom, SemTypeOK, Pointers
<1>3. ASSUME NEW value \in Values, SemCreate(value) PROVE SemTypeOK'
  <2>1. value \in Int
    BY SemaphoresAssumption
  <2>2. PICK s \in Sems :
            semTable' = [semTable EXCEPT ![s].status = USED, ![s].value = value]
    BY <1>3 DEF SemCreate
  <2>3. semTable' \in [Sems -> Semaphore]
    BY <2>1, <2>2 DEF SemTypeOK, Semaphore
  <2> QED
    BY <1>3, <2>3 DEF SemCreate, SemTypeOK
<1>4. ASSUME NEW s \in Sems, SemPass(s) PROVE SemTypeOK'
  <2>1. semTable' \in [Sems -> Semaphore]
    BY <1>4 DEF SemPass, Counted, SemTypeOK, Semaphore
  <2> QED
    BY <1>4, <2>1 DEF SemPass, SemTypeOK
<1>5. ASSUME NEW s \in Sems, SemBlock(s) PROVE SemTypeOK'
  <2>1. Current \in Procs
    BY <1>5, CurrentIsAProcess DEF SemBlock
  <2>2. CASE semTable[s].blockedProcessPtr = NULL
    <3>1. semTable' = [semTable EXCEPT ![s].blockedProcessPtr = Current] /\ MboxReceive(s)
      BY <1>5, <2>2 DEF SemBlock
    <3>2. semTable' \in [Sems -> Semaphore]
      BY <2>1, <3>1 DEF SemTypeOK, Semaphore, Pointers
    <3>3. /\ pc' \in [Procs -> Positions] /\ sem' \in [Procs -> Sems]
          /\ Current' \in Pointers
      BY <3>1 DEF MboxReceive, SwitchFrom, SemTypeOK, Positions, Pointers
    <3> QED
      BY <1>5, <2>2, <3>2, <3>3 DEF SemBlock, SemTypeOK, Positions
  <2>3. CASE semTable[s].blockedProcessPtr # NULL
    BY <1>5, <2>3 DEF SemBlock, SemTypeOK, Semaphore
  <2> QED
    BY <2>2, <2>3
<1>6. CASE ListWalk
  <2>1. walker' \in Pointers
    BY <1>6, CurrentIsAProcess DEF ListWalk, SemTypeOK, WalkOK
  <2> QED
    BY <1>6, <2>1 DEF ListWalk, SemTypeOK
<1>7. CASE ListLink
  <2>1. Current \in Procs
    BY <1>7, CurrentIsAProcess DEF ListLink
  <2>2. nextSemBlockedSiblingPtr' \in [Procs -> Pointers]
    BY <1>7, <2>1 DEF ListLink, Linked, SemTypeOK, Pointers
  <2>3. /\ pc' \in [Procs -> Positions] /\ sem' \in [Procs -> Sems]
        /\ Current' \in Pointers
    BY <1>7, <2>1 DEF ListLink, MboxReceive, SwitchFrom, SemTypeOK, Positions, Pointers
  <2> QED
    BY <1>7, <2>2, <2>3 DEF ListLink, SemTypeOK, Positions, Pointers
<1>8. CASE SemPResume
  <2>1. Current \in Procs /\ sem[Current] \in Sems
    BY <1>8, CurrentIsAProcess DEF SemPResume, SemTypeOK
  <2>2. semTable' \in [Sems -> Semaphore]
    BY <1>8, <2>1 DEF SemPResume, Counted, SemTypeOK, Semaphore
  <2>3. pc' \in [Procs -> Positions] /\ Current' \in Pointers
    BY <1>8 DEF SemPResume, SwitchFrom, SemTypeOK, Positions, Pointers
  <2> QED
    BY <1>8, <2>2, <2>3 DEF SemPResume, SemTypeOK, Positions
<1>9. ASSUME NEW s \in Sems, SemV(s) PROVE SemTypeOK'
  BY <1>9, CurrentIsAProcess, SemVRealTypes DEF SemV, SemTypeOK, Positions
<1>10. ASSUME NEW s \in Sems, SemFree(s) PROVE SemTypeOK'
  <2>1. semTable' \in [Sems -> Semaphore]
    BY <1>10 DEF SemFree, SemTypeOK, Semaphore
  <2>2. pc' \in [Procs -> Positions] /\ sem' \in [Procs -> Sems]
    BY <1>10 DEF SemFree, SemTypeOK, Positions
  <2> QED
    BY <1>10, <2>1, <2>2 DEF SemFree, SemTypeOK, Positions
<1>11. CASE FreeNext
  <2>1. Current \in Procs /\ sem[Current] \in Sems
    BY <1>11, CurrentIsAProcess DEF FreeNext, SemTypeOK
  <2>2. CASE semTable[sem[Current]].blockedProcessPtr # NULL
    <3>1. [pc EXCEPT ![Current] = "freeing"] \in [Procs -> Positions]
      BY DEF SemTypeOK, Positions
    <3> QED
      BY <1>11, <2>1, <2>2, <3>1, SemVRealTypes DEF FreeNext
  <2>3. CASE semTable[sem[Current]].blockedProcessPtr = NULL
    BY <1>11, <2>3 DEF FreeNext, SemTypeOK
  <2> QED
    BY <2>2, <2>3
<1> QED
  BY <1>1, <1>2, <1>3, <1>4, <1>5, <1>6, <1>7, <1>8, <1>9, <1>10, <1>11 DEF Next

\* Every step leaves at most Current on a walk.
LEMMA WalkStep ==
    ASSUME SemTypeOK, WalkOK, [Next]_vars
    PROVE  WalkOK'
<1>0. \A p \in Procs : pc[p] = "walk" => p = Current /\ walker \in Procs
  BY DEF WalkOK
<1>1. ASSUME NEW s \in Sems, NEW at \in [Procs -> Positions], SemVReal(s, at),
             \A p \in Procs : at[p] # "walk"
      PROVE  WalkOK'
  <2>1. \A p \in Procs : pc'[p] # "walk"
    BY <1>1 DEF SemVReal, MboxCondSend
  <2> QED
    BY <2>1 DEF WalkOK
<1>2. CASE UNCHANGED vars
  BY <1>2 DEF vars, WalkOK
<1>3. CASE TimeSlice
  <2>1. Current # NULL /\ pc[Current] # "walk" /\ UNCHANGED <<pc, walker>>
    BY <1>3 DEF TimeSlice
  <2> QED
    BY <1>0, <2>1 DEF WalkOK
<1>4. ASSUME NEW value \in Values, SemCreate(value) PROVE WalkOK'
  BY <1>4 DEF SemCreate, WalkOK
<1>5. ASSUME NEW s \in Sems, SemPass(s) PROVE WalkOK'
  BY <1>5 DEF SemPass, WalkOK
<1>6. ASSUME NEW s \in Sems, SemBlock(s) PROVE WalkOK'
  <2>1. Current \in Procs /\ pc[Current] = "user"
    BY <1>6, CurrentIsAProcess DEF SemBlock
  <2>2. CASE semTable[s].blockedProcessPtr = NULL
    <3>1. pc' = [pc EXCEPT ![Current] = "blocked"] /\ walker' = walker
      BY <1>6, <2>2 DEF SemBlock, MboxReceive
    <3>2. \A p \in Procs : pc'[p] # "walk"
      BY <1>0, <2>1, <3>1 DEF SemTypeOK
    <3> QED
      BY <3>2 DEF WalkOK
  <2>3. CASE semTable[s].blockedProcessPtr # NULL
    <3>1. /\ pc' = [pc EXCEPT ![Current] = "walk"] /\ Current' = Current
          /\ walker' = semTable[s].blockedProcessPtr
      BY <1>6, <2>3 DEF SemBlock
    <3>2. walker' \in Procs
      BY <2>3, <3>1 DEF SemTypeOK, Semaphore, Pointers
    <3> QED
      BY <1>0, <2>1, <3>1, <3>2 DEF SemTypeOK, WalkOK
  <2> QED
    BY <2>2, <2>3
<1>7. CASE ListWalk
  <2>1. walker \in Procs
    BY <1>0, <1>7, CurrentIsAProcess DEF ListWalk
  <2>2. walker' \in Procs
    BY <1>7, <2>1 DEF ListWalk, SemTypeOK, Pointers
  <2> QED
    BY <1>0, <1>7, <2>2 DEF ListWalk, WalkOK
<1>8. CASE ListLink
  <2>1. Current \in Procs /\ pc' = [pc EXCEPT ![Current] = "blocked"]
    BY <1>8, CurrentIsAProcess DEF ListLink, MboxReceive
  <2>2. \A p \in Procs : pc'[p] # "walk"
    BY <1>0, <2>1 DEF SemTypeOK
  <2> QED
    BY <2>2 DEF WalkOK
<1>9. CASE SemPResume
  <2>1. Current \in Procs /\ pc[Current] = "woken"
    BY <1>9, CurrentIsAProcess DEF SemPResume
  <2>2. \A p \in Procs : pc[p] # "walk"
    BY <1>0, <2>1
  <2>3. \A p \in Procs : pc'[p] # "walk"
    BY <1>9, <2>2 DEF SemPResume, SemTypeOK
  <2> QED
    BY <2>3 DEF WalkOK
<1>10. ASSUME NEW s \in Sems, SemV(s) PROVE WalkOK'
  <2>1. pc \in [Procs -> Positions] /\ \A p \in Procs : pc[p] # "walk"
    BY <1>0, <1>10, CurrentIsAProcess DEF SemV, SemTypeOK, Positions
  <2> QED
    BY <1>1, <1>10, <2>1 DEF SemV
<1>11. ASSUME NEW s \in Sems, SemFree(s) PROVE WalkOK'
  <2>1. \A p \in Procs : pc[p] # "walk"
    BY <1>0, <1>11, CurrentIsAProcess DEF SemFree
  <2>2. \A p \in Procs : pc'[p] # "walk"
    BY <1>11, <2>1 DEF SemFree, SemTypeOK
  <2> QED
    BY <2>2 DEF WalkOK
<1>12. CASE FreeNext
  <2>1. Current \in Procs /\ pc[Current] \in {"free", "freeing"} /\ sem[Current] \in Sems
    BY <1>12, CurrentIsAProcess DEF FreeNext, SemTypeOK
  <2>2. \A p \in Procs : pc[p] # "walk"
    BY <1>0, <2>1
  <2>3. CASE semTable[sem[Current]].blockedProcessPtr # NULL
    <3> DEFINE at == [pc EXCEPT ![Current] = "freeing"]
    <3>1. at \in [Procs -> Positions] /\ \A p \in Procs : at[p] # "walk"
      BY <2>2 DEF SemTypeOK, Positions
    <3>2. SemVReal(sem[Current], at)
      BY <1>12, <2>3 DEF FreeNext
    <3> HIDE DEF at
    <3> QED
      BY <1>1, <2>1, <3>1, <3>2
  <2>4. CASE semTable[sem[Current]].blockedProcessPtr = NULL
    <3>1. \A p \in Procs : pc'[p] # "walk"
      BY <1>12, <2>2, <2>4 DEF FreeNext, SemTypeOK
    <3> QED
      BY <3>1 DEF WalkOK
  <2> QED
    BY <2>3, <2>4
<1> QED
  BY <1>2, <1>3, <1>4, <1>5, <1>6, <1>7, <1>8, <1>9, <1>10, <1>11, <1>12 DEF Next

\* The types hold initially.
LEMMA InitialTypes == Init => SemTypeOK /\ WalkOK
<1>1. 0 \in Sems
  BY SemaphoresAssumption DEF Sems
<1> QED
  BY <1>1 DEF Init, SemTypeOK, Semaphore, Pointers, WalkOK

\* The types hold always, with what a walk needs of them.
LEMMA TypesKept == Spec => [](SemTypeOK /\ WalkOK)
<1>1. (SemTypeOK /\ WalkOK) /\ [Next]_vars => (SemTypeOK /\ WalkOK)'
  BY TypeStep, WalkStep
<1> QED
  BY <1>1, InitialTypes, PTL DEF Spec

\* The tables, the pointers of the lists and the calls keep their types.
THEOREM SemTypeCorrect == Spec => []SemTypeOK
BY TypesKept, PTL

-----------------------------------------------------------------------------
(***************************************************************************)
(* The lists, when no process blocks with a link left over.                *)
(***************************************************************************)
\* The list of semaphore s is q, and it is of the processes blocked on s.
ListOf(s, q) ==
    /\ IsList(Procs, NULL, q, semTable[s].blockedProcessPtr, nextSemBlockedSiblingPtr)
    /\ Members(q) = On(s, "blocked")

Lists == \A s \in Sems : \E q : ListOf(s, q)

\* A process that walks along the list is at one of its members.
WalksOnList == \A p \in Procs : pc[p] = "walk" =>
    nextSemBlockedSiblingPtr[p] = NULL /\ walker \in On(sem[p], "blocked")

\* What the properties see of the list.
LEMMA ChainIsList ==
    ASSUME NEW s, NEW q, ListOf(s, q)
    PROVE  Chain(s) = q
BY FollowedList DEF Chain, ListOf

\* The first process of a list is blocked on its semaphore.
LEMMA FirstIsBlocked ==
    ASSUME SemTypeOK, Lists, NEW s \in Sems
    PROVE  /\ semTable[s].blockedProcessPtr # NULL =>
                semTable[s].blockedProcessPtr \in On(s, "blocked")
           /\ semTable[s].blockedProcessPtr = NULL => On(s, "blocked") = {}
<1>1. PICK q : ListOf(s, q)
  BY DEF Lists
<1> QED
  BY <1>1, ListFirst, SemaphoresAssumption DEF ListOf

\* A step that leaves the links, the first pointer and the blocked as they are
\* leaves the list as it is.
LEMMA ListUntouched ==
    ASSUME NEW s, NEW q, ListOf(s, q),
           semTable'[s].blockedProcessPtr = semTable[s].blockedProcessPtr,
           nextSemBlockedSiblingPtr' = nextSemBlockedSiblingPtr,
           On(s, "blocked")' = On(s, "blocked")
    PROVE  ListOf(s, q)'
BY DEF ListOf

\* A P on a semaphore nobody is blocked on makes a list of one.
LEMMA ListBegins ==
    ASSUME SemTypeOK, Lists, ~StaleLinks, NEW s \in Sems, SemBlock(s),
           semTable[s].blockedProcessPtr = NULL, NEW p, p = Current
    PROVE  /\ ListOf(s, <<p>>)'
           /\ \A t \in Sems \ {s} : \A q : ListOf(t, q) => ListOf(t, q)'
<1>1. /\ Current \in Procs /\ pc[Current] = "user" /\ nextSemBlockedSiblingPtr[Current] = NULL
      /\ semTable' = [semTable EXCEPT ![s].blockedProcessPtr = Current]
      /\ pc' = [pc EXCEPT ![Current] = "blocked"] /\ sem' = [sem EXCEPT ![Current] = s]
      /\ nextSemBlockedSiblingPtr' = nextSemBlockedSiblingPtr
  BY CurrentIsAProcess DEF SemBlock, MboxReceive
<1>2. On(s, "blocked")' = {p}
  <2>1. On(s, "blocked") = {}
    BY FirstIsBlocked
  <2> QED
    BY <1>1, <2>1 DEF On, SemTypeOK
<1>3. semTable'[s].blockedProcessPtr = p
  BY <1>1 DEF SemTypeOK, Semaphore
<1>4. ListOf(s, <<p>>)'
  BY <1>1, <1>2, <1>3, ListOfOne DEF ListOf
<1>5. ASSUME NEW t \in Sems \ {s}, NEW q, ListOf(t, q) PROVE ListOf(t, q)'
  <2>1. On(t, "blocked")' = On(t, "blocked")
    BY <1>1 DEF On, SemTypeOK
  <2>2. semTable'[t] = semTable[t]
    BY <1>1 DEF SemTypeOK
  <2> QED
    BY <1>1, <1>5, <2>1, <2>2, ListUntouched
<1> QED
  BY <1>4, <1>5

\* The link at the end of a walk appends the caller to the list.
LEMMA ListGrows ==
    ASSUME SemTypeOK, WalksOnList, ListLink, NEW p, p = Current,
           NEW t \in Sems, NEW q, ListOf(t, q)
    PROVE  /\ t = sem[p] => ListOf(t, Append(q, p))'
           /\ t # sem[p] => ListOf(t, q)'
<1>1. /\ p \in Procs /\ pc[p] = "walk" /\ nextSemBlockedSiblingPtr[walker] = NULL
      /\ nextSemBlockedSiblingPtr' = [nextSemBlockedSiblingPtr EXCEPT ![walker] = p]
      /\ pc' = [pc EXCEPT ![p] = "blocked"] /\ sem' = [sem EXCEPT ![p] = sem[p]]
      /\ semTable' = semTable
  BY CurrentIsAProcess DEF ListLink, Linked, MboxReceive
<1>2. /\ nextSemBlockedSiblingPtr[p] = NULL
      /\ walker \in Procs /\ sem[walker] = sem[p] /\ pc[walker] = "blocked"
  BY <1>1 DEF WalksOnList, On
<1>3. p \notin Members(q)
  BY <1>1 DEF ListOf, On
<1>4. nextSemBlockedSiblingPtr \in [Procs -> Pointers]
  BY DEF SemTypeOK
<1>5. sem' = sem
  BY <1>1 DEF SemTypeOK
<1>6. CASE t = sem[p]
  <2>1. walker \in Members(q)
    BY <1>2, <1>6 DEF ListOf, On
  <2>2. /\ IsList(Procs, NULL, Append(q, p), semTable[t].blockedProcessPtr, nextSemBlockedSiblingPtr')
        /\ Members(Append(q, p)) = Members(q) \cup {p}
    <3>1. IsList(Procs, NULL, q, semTable[t].blockedProcessPtr, nextSemBlockedSiblingPtr)
      BY DEF ListOf
    <3>2. nextSemBlockedSiblingPtr[walker] = NULL /\ nextSemBlockedSiblingPtr[p] = NULL
      BY <1>1, <1>2
    <3>3. \A x \in Procs :
              nextSemBlockedSiblingPtr'[x] = IF x = walker THEN p ELSE nextSemBlockedSiblingPtr[x]
      BY <1>1, <1>4
    <3>4. p \in Procs
      BY <1>1
    <3> QED
      BY <1>3, <1>4, <2>1, <3>1, <3>2, <3>3, <3>4, ListAppend, SemaphoresAssumption DEF Pointers
  <2>3. On(t, "blocked")' = On(t, "blocked") \cup {p}
    BY <1>1, <1>5, <1>6 DEF On, SemTypeOK
  <2> QED
    BY <1>1, <1>6, <2>2, <2>3 DEF ListOf
<1>7. CASE t # sem[p]
  <2>1. walker \notin Members(q)
    BY <1>2, <1>7 DEF ListOf, On
  <2>2. IsList(Procs, NULL, q, semTable[t].blockedProcessPtr, nextSemBlockedSiblingPtr')
    BY <1>1, <1>4, <2>1, ListElsewhere DEF ListOf, Pointers
  <2>3. On(t, "blocked")' = On(t, "blocked")
    BY <1>1, <1>5, <1>7 DEF On, SemTypeOK
  <2> QED
    BY <1>1, <1>7, <2>2, <2>3 DEF ListOf
<1> QED
  BY <1>6, <1>7

\* semVReal takes the first off the list, and wakes it.
LEMMA ListShrinks ==
    ASSUME SemTypeOK, Lists, NEW s \in Sems, NEW at \in [Procs -> Positions],
           \A p \in Procs : at[p] = "blocked" <=> pc[p] = "blocked",
           SemVReal(s, at), NEW t \in Sems, NEW q, ListOf(t, q)
    PROVE  /\ t = s /\ semTable[s].blockedProcessPtr # NULL =>
                q # <<>> /\ ListOf(t, Tail(q))'
           /\ t # s \/ semTable[s].blockedProcessPtr = NULL => ListOf(t, q)'
<1> DEFINE first == semTable[s].blockedProcessPtr
<1>1. UNCHANGED <<nextSemBlockedSiblingPtr, sem>>
  BY DEF SemVReal
<1>2. CASE first = NULL
  <2>1. pc' = at /\ semTable' = [semTable EXCEPT ![s].value = @ + 1]
    BY <1>2 DEF SemVReal
  <2>2. On(t, "blocked")' = On(t, "blocked")
    BY <1>1, <2>1 DEF On
  <2>3. semTable'[t].blockedProcessPtr = semTable[t].blockedProcessPtr
    BY <2>1 DEF SemTypeOK, Semaphore
  <2> QED
    BY <1>1, <1>2, <2>2, <2>3, ListUntouched
<1>3. CASE first # NULL
  <2>1. first \in Procs /\ sem[first] = s /\ pc[first] = "blocked"
    BY <1>3, FirstIsBlocked DEF On
  <2>2. pc' = [at EXCEPT ![first] = "woken"]
    BY <1>3, <2>1 DEF SemVReal, MboxCondSend
  <2>3. semTable' = [semTable EXCEPT ![s].value = @ + 1, ![s].blockedProcessPtr = BehindFirst(s)]
    BY <1>3 DEF SemVReal
  <2>4. CASE t = s
    <3>1. semTable'[s].blockedProcessPtr = nextSemBlockedSiblingPtr[first]
      BY <2>3 DEF SemTypeOK, Semaphore, BehindFirst
    <3>2. On(s, "blocked")' = On(s, "blocked") \ {first}
      BY <1>1, <2>1, <2>2 DEF On
    <3>3. /\ q # <<>> /\ IsList(Procs, NULL, Tail(q), nextSemBlockedSiblingPtr[first], nextSemBlockedSiblingPtr)
          /\ Members(Tail(q)) = Members(q) \ {first}
      BY <1>3, <2>4, ListTail, SemaphoresAssumption DEF ListOf
    <3> QED
      BY <1>1, <1>3, <2>4, <3>1, <3>2, <3>3 DEF ListOf
  <2>5. CASE t # s
    <3>1. semTable'[t] = semTable[t]
      BY <2>3, <2>5 DEF SemTypeOK
    <3>2. On(t, "blocked")' = On(t, "blocked")
      BY <1>1, <2>1, <2>2, <2>5 DEF On
    <3> QED
      BY <1>1, <2>5, <3>1, <3>2, ListUntouched
  <2> QED
    BY <2>4, <2>5
<1> QED
  BY <1>2, <1>3

\* The lists are kept, by every step.
LEMMA ListsStep ==
    ASSUME SemTypeOK, WalkOK, Lists, WalksOnList, ~StaleLinks, [Next]_vars
    PROVE  Lists'
<1>0. ASSUME UNCHANGED <<nextSemBlockedSiblingPtr, sem>>,
             \A p \in Procs : pc'[p] = "blocked" <=> pc[p] = "blocked",
             \A t \in Sems : semTable'[t].blockedProcessPtr = semTable[t].blockedProcessPtr
      PROVE  Lists'
  <2>1. \A t \in Sems : On(t, "blocked")' = On(t, "blocked")
    BY <1>0 DEF On
  <2> QED
    BY <1>0, <2>1, ListUntouched DEF Lists
<1>1. ASSUME NEW s \in Sems, NEW at \in [Procs -> Positions], SemVReal(s, at),
             \A p \in Procs : at[p] = "blocked" <=> pc[p] = "blocked"
      PROVE  Lists'
  <2>1. ASSUME NEW t \in Sems PROVE \E q : ListOf(t, q)'
    <3>1. PICK q : ListOf(t, q)
      BY DEF Lists
    <3> QED
      BY <1>1, <3>1, ListShrinks
  <2> QED
    BY <2>1 DEF Lists
<1>2. CASE UNCHANGED vars
  BY <1>0, <1>2 DEF vars
<1>3. CASE TimeSlice
  BY <1>0, <1>3 DEF TimeSlice
<1>4. ASSUME NEW value \in Values, SemCreate(value) PROVE Lists'
  <2>1. \A t \in Sems : semTable'[t].blockedProcessPtr = semTable[t].blockedProcessPtr
    BY <1>4 DEF SemCreate, SemTypeOK, Semaphore
  <2> QED
    BY <1>0, <1>4, <2>1 DEF SemCreate
<1>5. ASSUME NEW s \in Sems, SemPass(s) PROVE Lists'
  <2>1. \A t \in Sems : semTable'[t].blockedProcessPtr = semTable[t].blockedProcessPtr
    BY <1>5 DEF SemPass, Counted, SemTypeOK, Semaphore
  <2> QED
    BY <1>0, <1>5, <2>1 DEF SemPass
<1>6. ASSUME NEW s \in Sems, SemBlock(s) PROVE Lists'
  <2>1. CASE semTable[s].blockedProcessPtr = NULL
    <3>1. ASSUME NEW t \in Sems PROVE \E q : ListOf(t, q)'
      <4>1. PICK q : ListOf(t, q)
        BY DEF Lists
      <4> QED
        BY <1>6, <2>1, <4>1, ListBegins
    <3> QED
      BY <3>1 DEF Lists
  <2>2. CASE semTable[s].blockedProcessPtr # NULL
    <3>1. /\ Current \in Procs /\ pc[Current] = "user"
          /\ pc' = [pc EXCEPT ![Current] = "walk"] /\ sem' = [sem EXCEPT ![Current] = s]
          /\ UNCHANGED <<semTable, nextSemBlockedSiblingPtr>>
      BY <1>6, <2>2, CurrentIsAProcess DEF SemBlock
    <3>2. ASSUME NEW t \in Sems PROVE \E q : ListOf(t, q)'
      <4>1. On(t, "blocked")' = On(t, "blocked")
        BY <3>1 DEF On, SemTypeOK
      <4> QED
        BY <3>1, <4>1, ListUntouched DEF Lists
    <3> QED
      BY <3>2 DEF Lists
  <2> QED
    BY <2>1, <2>2
<1>7. CASE ListWalk
  BY <1>0, <1>7 DEF ListWalk
<1>8. CASE ListLink
  <2>1. ASSUME NEW t \in Sems PROVE \E q : ListOf(t, q)'
    <3>1. PICK q : ListOf(t, q)
      BY DEF Lists
    <3>2. PICK p : p = Current
      OBVIOUS
    <3> QED
      BY <1>8, <3>1, <3>2, ListGrows
  <2> QED
    BY <2>1 DEF Lists
<1>9. CASE SemPResume
  <2>1. Current \in Procs /\ pc[Current] = "woken" /\ sem[Current] \in Sems
    BY <1>9, CurrentIsAProcess DEF SemPResume, SemTypeOK
  <2>2. \A p \in Procs : pc'[p] = "blocked" <=> pc[p] = "blocked"
    BY <1>9, <2>1 DEF SemPResume, SemTypeOK
  <2>3. \A t \in Sems : semTable'[t].blockedProcessPtr = semTable[t].blockedProcessPtr
    BY <1>9, <2>1 DEF SemPResume, Counted, SemTypeOK, Semaphore
  <2> QED
    BY <1>0, <1>9, <2>2, <2>3 DEF SemPResume
<1>10. ASSUME NEW s \in Sems, SemV(s) PROVE Lists'
  <2>1. pc \in [Procs -> Positions]
    BY DEF SemTypeOK, Positions
  <2> QED
    BY <1>1, <1>10, <2>1 DEF SemV
<1>11. ASSUME NEW s \in Sems, SemFree(s) PROVE Lists'
  <2>1. Current \in Procs /\ pc[Current] = "user"
    BY <1>11, CurrentIsAProcess DEF SemFree
  <2>2. \A t \in Sems : semTable'[t].blockedProcessPtr = semTable[t].blockedProcessPtr
    <3>1. \E status \in {UNUSED, FREED} : semTable' = [semTable EXCEPT ![s].status = status]
      BY <1>11 DEF SemFree
    <3> QED
      BY <3>1 DEF SemTypeOK, Semaphore
  <2>3. ASSUME NEW t \in Sems PROVE On(t, "blocked")' = On(t, "blocked")
    BY <1>11, <2>1 DEF SemFree, On, SemTypeOK
  <2>4. nextSemBlockedSiblingPtr' = nextSemBlockedSiblingPtr
    BY <1>11 DEF SemFree
  <2> QED
    BY <2>2, <2>3, <2>4, ListUntouched DEF Lists
<1>12. CASE FreeNext
  <2>1. Current \in Procs /\ pc[Current] \in {"free", "freeing"} /\ sem[Current] \in Sems
    BY <1>12, CurrentIsAProcess DEF FreeNext, SemTypeOK
  <2>2. CASE semTable[sem[Current]].blockedProcessPtr # NULL
    <3> DEFINE at == [pc EXCEPT ![Current] = "freeing"]
    <3>1. /\ at \in [Procs -> Positions]
          /\ \A p \in Procs : at[p] = "blocked" <=> pc[p] = "blocked"
      BY <2>1 DEF SemTypeOK, Positions
    <3>2. SemVReal(sem[Current], at)
      BY <1>12, <2>2 DEF FreeNext
    <3> HIDE DEF at
    <3> QED
      BY <1>1, <2>1, <3>1, <3>2
  <2>3. CASE semTable[sem[Current]].blockedProcessPtr = NULL
    <3>1. \A p \in Procs : pc'[p] = "blocked" <=> pc[p] = "blocked"
      BY <1>12, <2>1, <2>3 DEF FreeNext, SemTypeOK
    <3> QED
      BY <1>0, <1>12, <2>3, <3>1 DEF FreeNext
  <2> QED
    BY <2>2, <2>3
<1> QED
  BY <1>2, <1>3, <1>4, <1>5, <1>6, <1>7, <1>8, <1>9, <1>10, <1>11, <1>12 DEF Next

\* A walk stays on the list.
LEMMA WalksStep ==
    ASSUME SemTypeOK, WalkOK, Lists, WalksOnList, ~StaleLinks, [Next]_vars
    PROVE  WalksOnList'
<1>0. ASSUME \A p \in Procs : pc'[p] # "walk" PROVE WalksOnList'
  BY <1>0 DEF WalksOnList
<1>1. ASSUME Current \in Procs, pc[Current] # "walk",
             \A p \in Procs : pc'[p] = "walk" => pc[p] = "walk"
      PROVE  WalksOnList'
  BY <1>0, <1>1 DEF WalkOK
<1>2. ASSUME NEW s \in Sems, NEW at \in [Procs -> Positions], SemVReal(s, at)
      PROVE  \A p \in Procs : pc'[p] = "walk" => at[p] = "walk"
  BY <1>2 DEF SemVReal, MboxCondSend
<1>3. CASE UNCHANGED vars
  BY <1>3 DEF vars, WalksOnList, On
<1>4. CASE TimeSlice
  <2>1. Current \in Procs /\ pc[Current] # "walk" /\ pc' = pc
    BY <1>4 DEF TimeSlice, SemTypeOK, Pointers
  <2> QED
    BY <1>1, <2>1
<1>5. ASSUME NEW value \in Values, SemCreate(value) PROVE WalksOnList'
  BY <1>1, <1>5, CurrentIsAProcess DEF SemCreate
<1>6. ASSUME NEW s \in Sems, SemPass(s) PROVE WalksOnList'
  BY <1>1, <1>6, CurrentIsAProcess DEF SemPass
<1>7. ASSUME NEW s \in Sems, SemBlock(s) PROVE WalksOnList'
  <2>1. /\ Current \in Procs /\ pc[Current] = "user"
        /\ nextSemBlockedSiblingPtr[Current] = NULL
        /\ nextSemBlockedSiblingPtr' = nextSemBlockedSiblingPtr
    BY <1>7, CurrentIsAProcess DEF SemBlock
  <2>2. CASE semTable[s].blockedProcessPtr = NULL
    <3>1. pc' = [pc EXCEPT ![Current] = "blocked"]
      BY <1>7, <2>2 DEF SemBlock, MboxReceive
    <3> QED
      BY <1>1, <2>1, <3>1 DEF SemTypeOK
  <2>3. CASE semTable[s].blockedProcessPtr # NULL
    <3>1. /\ pc' = [pc EXCEPT ![Current] = "walk"] /\ sem' = [sem EXCEPT ![Current] = s]
          /\ walker' = semTable[s].blockedProcessPtr
      BY <1>7, <2>3 DEF SemBlock
    <3>2. walker' \in Procs /\ sem[walker'] = s /\ pc[walker'] = "blocked"
      BY <2>3, <3>1, FirstIsBlocked DEF On
    <3>3. sem'[walker'] = s /\ pc'[walker'] = "blocked"
      BY <2>1, <3>1, <3>2 DEF SemTypeOK
    <3>4. ASSUME NEW p \in Procs, pc'[p] = "walk" PROVE p = Current /\ sem'[p] = s
      BY <2>1, <3>1, <3>4 DEF WalkOK, SemTypeOK
    <3> QED
      BY <2>1, <3>2, <3>3, <3>4 DEF WalksOnList, On
  <2> QED
    BY <2>2, <2>3
<1>8. CASE ListWalk
  <2>1. /\ Current \in Procs /\ pc[Current] = "walk" /\ UNCHANGED <<pc, sem, nextSemBlockedSiblingPtr>>
        /\ nextSemBlockedSiblingPtr[walker] # NULL
        /\ walker' = nextSemBlockedSiblingPtr[walker]
    BY <1>8, CurrentIsAProcess DEF ListWalk
  <2>2. PICK q : ListOf(sem[Current], q)
    BY <2>1 DEF Lists, SemTypeOK
  <2>3. walker \in Members(q)
    BY <2>1, <2>2 DEF WalksOnList, ListOf
  <2>4. PICK i \in 1 .. Len(q) : walker = q[i]
    BY <2>3 DEF Members
  <2>5. i + 1 \in 1 .. Len(q) /\ walker' = q[i+1]
    BY <2>1, <2>2, <2>4, LenProperties DEF ListOf, IsList, Distinct
  <2>6. walker' \in Members(q)
    BY <2>5 DEF Members
  <2>7. walker' \in On(sem[Current], "blocked")
    BY <2>2, <2>6 DEF ListOf
  <2> QED
    BY <2>1, <2>7 DEF WalksOnList, WalkOK, On
<1>9. CASE ListLink
  <2>1. Current \in Procs /\ pc' = [pc EXCEPT ![Current] = "blocked"]
    BY <1>9, CurrentIsAProcess DEF ListLink, MboxReceive
  <2> QED
    BY <1>0, <2>1 DEF WalkOK, SemTypeOK
<1>10. CASE SemPResume
  <2>1. Current \in Procs /\ pc[Current] = "woken"
    BY <1>10, CurrentIsAProcess DEF SemPResume
  <2> QED
    BY <1>1, <1>10, <2>1 DEF SemPResume, SemTypeOK
<1>11. ASSUME NEW s \in Sems, SemV(s) PROVE WalksOnList'
  <2>1. Current \in Procs /\ pc[Current] = "user" /\ pc \in [Procs -> Positions]
    BY <1>11, CurrentIsAProcess DEF SemV, SemTypeOK, Positions
  <2> QED
    BY <1>1, <1>2, <1>11, <2>1 DEF SemV
<1>12. ASSUME NEW s \in Sems, SemFree(s) PROVE WalksOnList'
  <2>1. Current \in Procs /\ pc[Current] = "user"
    BY <1>12, CurrentIsAProcess DEF SemFree
  <2> QED
    BY <1>1, <1>12, <2>1 DEF SemFree, SemTypeOK
<1>13. CASE FreeNext
  <2>1. Current \in Procs /\ pc[Current] \in {"free", "freeing"} /\ sem[Current] \in Sems
    BY <1>13, CurrentIsAProcess DEF FreeNext, SemTypeOK
  <2>2. CASE semTable[sem[Current]].blockedProcessPtr # NULL
    <3> DEFINE at == [pc EXCEPT ![Current] = "freeing"]
    <3>1. /\ at \in [Procs -> Positions]
          /\ \A p \in Procs : at[p] = "walk" => pc[p] = "walk"
      BY <2>1 DEF SemTypeOK, Positions
    <3>2. SemVReal(sem[Current], at)
      BY <1>13, <2>2 DEF FreeNext
    <3> HIDE DEF at
    <3> QED
      BY <1>1, <1>2, <2>1, <3>1, <3>2
  <2>3. CASE semTable[sem[Current]].blockedProcessPtr = NULL
    BY <1>1, <1>13, <2>1, <2>3 DEF FreeNext, SemTypeOK
  <2> QED
    BY <2>2, <2>3
<1> QED
  BY <1>3, <1>4, <1>5, <1>6, <1>7, <1>8, <1>9, <1>10, <1>11, <1>12, <1>13 DEF Next

\* The lists are empty initially.
LEMMA InitialLists == Init => Lists /\ WalksOnList
<1>1. ASSUME Init, NEW s \in Sems PROVE ListOf(s, <<>>)
  BY <1>1, EmptyList DEF Init, ListOf, On
<1> QED
  BY <1>1 DEF Init, Lists, WalksOnList

\* The list invariant holds of the specification.
LEMMA ListsKept ==
    ASSUME ~StaleLinks
    PROVE  Spec => [](SemTypeOK /\ WalkOK /\ Lists /\ WalksOnList)
<1> DEFINE IInv == SemTypeOK /\ WalkOK /\ Lists /\ WalksOnList
<1>1. Init => IInv
  BY InitialTypes, InitialLists
<1>2. IInv /\ [Next]_vars => IInv'
  BY TypeStep, WalkStep, ListsStep, WalksStep
<1> QED
  BY <1>1, <1>2, PTL DEF Spec

\* While no process blocks with a link left over, the chain of a semaphore is of
\* the processes blocked on it, each once.
THEOREM ChainCorrect ==
    ASSUME ~StaleLinks
    PROVE  Spec => []ChainIsTheBlocked
<1>1. ASSUME Lists PROVE ChainIsTheBlocked
  <2>1. ASSUME NEW s \in Sems
        PROVE  IsInjective(Chain(s)) /\ ToSet(Chain(s)) = On(s, "blocked")
    <3>1. PICK q : ListOf(s, q)
      BY <1>1 DEF Lists
    <3>2. Chain(s) = q /\ DOMAIN q = 1 .. Len(q)
      BY <3>1, ChainIsList, LenProperties DEF ListOf, IsList, Distinct
    <3>3. IsInjective(q) /\ ToSet(q) = Members(q)
      BY <3>1, <3>2 DEF ListOf, IsList, Distinct, IsInjective, ToSet, Members
    <3> QED
      BY <3>1, <3>2, <3>3 DEF ListOf
  <2> QED
    BY <2>1 DEF ChainIsTheBlocked
<1> QED
  BY <1>1, ListsKept, PTL

-----------------------------------------------------------------------------
(***************************************************************************)
(* Permits and waiters, whichever of the waker and the woken runs first.   *)
(***************************************************************************)
\* semVReal counts, and the first of the list, if any, is woken.
LEMMA VEffect ==
    ASSUME SemTypeOK, Lists,
           NEW s \in Sems, NEW at \in [Procs -> Positions],
           \A p \in Procs : at[p] = "blocked" <=> pc[p] = "blocked",
           SemVReal(s, at),
           NEW first, first = semTable[s].blockedProcessPtr
    PROVE  /\ sem' = sem
           /\ \A t \in Sems :
                /\ semTable'[t].status = semTable[t].status
                /\ semTable'[t].value = semTable[t].value + IF t = s THEN 1 ELSE 0
           /\ first = NULL => pc' = at /\ Current' = Current
           /\ first # NULL => /\ first \in On(s, "blocked")
                              /\ pc' = [at EXCEPT ![first] = "woken"]
<1>1. sem' = sem
  BY DEF SemVReal
<1>2. CASE first = NULL
  <2>1. semTable' = [semTable EXCEPT ![s].value = @ + 1] /\ pc' = at /\ Current' = Current
    BY <1>2 DEF SemVReal
  <2>2. \A t \in Sems :
            /\ semTable'[t].status = semTable[t].status
            /\ semTable'[t].value = semTable[t].value + IF t = s THEN 1 ELSE 0
    BY <2>1 DEF SemTypeOK, Semaphore
  <2> QED
    BY <1>1, <1>2, <2>1, <2>2
<1>3. CASE first # NULL
  <2>1. first \in On(s, "blocked") /\ first \in Procs /\ pc[first] = "blocked"
    BY <1>3, FirstIsBlocked DEF On
  <2>2. pc' = [at EXCEPT ![first] = "woken"]
    BY <1>3, <2>1 DEF SemVReal, MboxCondSend
  <2>3. semTable' = [semTable EXCEPT ![s].value = @ + 1, ![s].blockedProcessPtr = BehindFirst(s)]
    BY <1>3 DEF SemVReal
  <2>4. \A t \in Sems :
            /\ semTable'[t].status = semTable[t].status
            /\ semTable'[t].value = semTable[t].value + IF t = s THEN 1 ELSE 0
    BY <2>3 DEF SemTypeOK, Semaphore
  <2> QED
    BY <1>1, <1>3, <2>1, <2>2, <2>4
<1> QED
  BY <1>2, <1>3

\* FreeNext is a turn of semVReal, or the end of the call.
LEMMA FreeEffect ==
    ASSUME SemTypeOK, FreeNext
    PROVE  /\ Current \in Procs /\ pc[Current] \in {"free", "freeing"} /\ sem[Current] \in Sems
           /\ \/ \E at \in [Procs -> Positions] :
                    /\ at = [pc EXCEPT ![Current] = "freeing"]
                    /\ \A p \in Procs : at[p] = "blocked" <=> pc[p] = "blocked"
                    /\ SemVReal(sem[Current], at)
              \/ /\ pc' = [pc EXCEPT ![Current] = "user"]
                 /\ UNCHANGED <<semTable, nextSemBlockedSiblingPtr, Current, sem, walker>>
<1>1. Current \in Procs /\ pc[Current] \in {"free", "freeing"} /\ sem[Current] \in Sems
  BY CurrentIsAProcess DEF FreeNext, SemTypeOK
<1>2. CASE semTable[sem[Current]].blockedProcessPtr # NULL
  <2> DEFINE at == [pc EXCEPT ![Current] = "freeing"]
  <2>1. /\ at \in [Procs -> Positions]
        /\ \A p \in Procs : at[p] = "blocked" <=> pc[p] = "blocked"
    BY <1>1 DEF SemTypeOK, Positions
  <2>2. SemVReal(sem[Current], at)
    BY <1>2 DEF FreeNext
  <2> QED
    BY <1>1, <2>1, <2>2
<1>3. CASE semTable[sem[Current]].blockedProcessPtr = NULL
  BY <1>1, <1>3 DEF FreeNext
<1> QED
  BY <1>2, <1>3

\* An entry that is not in use has no list; where there is a list, there are no
\* more permits than processes that were woken to take one.
NoneBeside ==
    \A s \in Sems :
        /\ semTable[s].status = UNUSED => semTable[s].blockedProcessPtr = NULL
        /\ InUse(s) /\ semTable[s].blockedProcessPtr # NULL =>
                semTable[s].value <= Cardinality(On(s, "woken"))

\* The processes woken on a semaphore are finitely many.
LEMMA WokenFinite ==
    ASSUME NEW s
    PROVE  IsFiniteSet(On(s, "woken")) /\ Cardinality(On(s, "woken")) \in Nat
<1>1. IsFiniteSet(On(s, "woken"))
  <2>1. On(s, "woken") \subseteq Procs
    BY DEF On
  <2> QED
    BY <2>1, FS_Subset, SemaphoresAssumption
<1> QED
  BY <1>1, FS_CardinalityType

\* A V lets the first of the list go, and gives it the permit.
LEMMA BesideV ==
    ASSUME SemTypeOK, Lists, NoneBeside, NEW s \in Sems, NEW at \in [Procs -> Positions],
           \A p \in Procs : /\ at[p] = "blocked" <=> pc[p] = "blocked"
                            /\ at[p] = "woken" <=> pc[p] = "woken",
           SemVReal(s, at)
    PROVE  NoneBeside'
<1>1. PICK first : first = semTable[s].blockedProcessPtr
  OBVIOUS
<1>2. /\ sem' = sem
      /\ \A t \in Sems :
            /\ semTable'[t].status = semTable[t].status
            /\ semTable'[t].value = semTable[t].value + IF t = s THEN 1 ELSE 0
  BY <1>1, VEffect
<1>3. \A t \in Sems \ {s} : semTable'[t] = semTable[t]
  BY DEF SemVReal, SemTypeOK
<1>4. CASE first = NULL
  <2>1. pc' = at
    BY <1>1, <1>4 DEF SemVReal
  <2>2. \A t \in Sems : On(t, "woken")' = On(t, "woken")
    BY <1>2, <2>1 DEF On
  <2>3. semTable'[s].blockedProcessPtr = NULL
    BY <1>1, <1>4 DEF SemVReal, SemTypeOK, Semaphore
  <2> QED
    BY <1>2, <1>3, <2>2, <2>3 DEF NoneBeside, InUse
<1>5. CASE first # NULL
  <2>1. /\ first \in Procs /\ sem[first] = s /\ pc[first] = "blocked"
        /\ pc' = [at EXCEPT ![first] = "woken"]
    BY <1>1, <1>5, VEffect DEF On
  <2>2. \A t \in Sems \ {s} : On(t, "woken")' = On(t, "woken")
    BY <1>2, <2>1 DEF On
  <2>3. On(s, "woken")' = On(s, "woken") \cup {first} /\ first \notin On(s, "woken")
    BY <1>2, <2>1 DEF On
  <2>4. Cardinality(On(s, "woken"))' = Cardinality(On(s, "woken")) + 1
    BY <2>3, WokenFinite, FS_AddElement
  <2>5. ASSUME InUse(s)' PROVE semTable'[s].value <= Cardinality(On(s, "woken"))'
    <3>1. InUse(s) /\ semTable[s].value \in Int
      BY <1>2, <2>5 DEF InUse, SemTypeOK, Semaphore
    <3>2. semTable[s].value <= Cardinality(On(s, "woken"))
      BY <1>1, <1>5, <3>1 DEF NoneBeside
    <3> QED
      BY <1>2, <2>4, <3>1, <3>2, WokenFinite
  <2>6. semTable'[s].status # UNUSED
    BY <1>1, <1>2, <1>5 DEF NoneBeside
  <2>7. ASSUME NEW t \in Sems \ {s}
        PROVE  /\ semTable'[t].status = UNUSED => semTable'[t].blockedProcessPtr = NULL
               /\ InUse(t)' /\ semTable'[t].blockedProcessPtr # NULL =>
                    semTable'[t].value <= Cardinality(On(t, "woken")')
    BY <1>3, <2>2 DEF NoneBeside, InUse
  <2> QED
    BY <2>5, <2>6, <2>7 DEF NoneBeside
<1> QED
  BY <1>4, <1>5

\* No step leaves a process waiting beside a permit.
LEMMA BesideStep ==
    ASSUME SemTypeOK, WalkOK, Lists, NoneBeside, [Next]_vars
    PROVE  NoneBeside'
<1>0. ASSUME \A t \in Sems :
                /\ On(t, "woken")' = On(t, "woken")
                /\ \/ semTable'[t] = semTable[t]
                   \/ semTable'[t].blockedProcessPtr = NULL
                   \/ /\ semTable'[t].status = semTable[t].status
                      /\ semTable'[t].blockedProcessPtr = semTable[t].blockedProcessPtr
                      /\ semTable'[t].value = semTable[t].value - 1
                   \/ semTable'[t].status # UNUSED /\ semTable'[t].value <= 0
                   \/ semTable'[t].status = FREED
      PROVE  NoneBeside'
  <2>1. ASSUME NEW t \in Sems
        PROVE  /\ semTable'[t].status = UNUSED => semTable'[t].blockedProcessPtr = NULL
               /\ InUse(t)' /\ semTable'[t].blockedProcessPtr # NULL =>
                    semTable'[t].value <= Cardinality(On(t, "woken")')
    <3>1. /\ semTable[t].value \in Int
          /\ Cardinality(On(t, "woken")) \in Nat
      BY WokenFinite DEF SemTypeOK, Semaphore
    <3>2. /\ semTable[t].status = UNUSED => semTable[t].blockedProcessPtr = NULL
          /\ semTable[t].status = USED /\ semTable[t].blockedProcessPtr # NULL =>
                semTable[t].value <= Cardinality(On(t, "woken"))
      BY DEF NoneBeside, InUse
    <3>3. On(t, "woken")' = On(t, "woken")
      BY <1>0
    <3>4. CASE semTable'[t] = semTable[t]
      BY <3>2, <3>3, <3>4 DEF InUse
    <3>5. CASE semTable'[t].blockedProcessPtr = NULL
      BY <3>5
    <3>6. CASE /\ semTable'[t].status = semTable[t].status
               /\ semTable'[t].blockedProcessPtr = semTable[t].blockedProcessPtr
               /\ semTable'[t].value = semTable[t].value - 1
      BY <3>1, <3>2, <3>3, <3>6 DEF InUse
    <3>7. CASE semTable'[t].status # UNUSED /\ semTable'[t].value <= 0
      <4>1. semTable'[t].value \in Int
        BY TypeStep DEF SemTypeOK, Semaphore
      <4> QED
        BY <3>1, <3>3, <3>7, <4>1
    <3>8. CASE semTable'[t].status = FREED
      BY <3>8 DEF InUse, USED, UNUSED, FREED
    <3> QED
      BY <1>0, <3>4, <3>5, <3>6, <3>7, <3>8
  <2> QED
    BY <2>1 DEF NoneBeside
<1>2. CASE UNCHANGED vars
  BY <1>2 DEF vars, NoneBeside, InUse, On
<1>3. CASE TimeSlice
  BY <1>3 DEF TimeSlice, NoneBeside, InUse, On
<1>4. ASSUME NEW value \in Values, SemCreate(value) PROVE NoneBeside'
  <2>1. PICK s \in Sems : /\ semTable[s].status = UNUSED
                          /\ semTable' = [semTable EXCEPT ![s].status = USED, ![s].value = value]
    BY <1>4 DEF SemCreate, FirstUnused
  <2>2. semTable[s].blockedProcessPtr = NULL
    BY <2>1 DEF NoneBeside
  <2>3. /\ \A t \in Sems \ {s} : semTable'[t] = semTable[t]
        /\ semTable'[s].blockedProcessPtr = NULL
    BY <2>1, <2>2 DEF SemTypeOK, Semaphore
  <2>4. \A t \in Sems : On(t, "woken")' = On(t, "woken")
    BY <1>4 DEF SemCreate, On
  <2> QED
    BY <1>0, <2>3, <2>4
<1>5. ASSUME NEW s \in Sems, SemPass(s) PROVE NoneBeside'
  <2>1. semTable' = [semTable EXCEPT ![s].value = @ - 1]
    BY <1>5 DEF SemPass, Counted
  <2>2. /\ \A t \in Sems \ {s} : semTable'[t] = semTable[t]
        /\ semTable'[s].status = semTable[s].status
        /\ semTable'[s].blockedProcessPtr = semTable[s].blockedProcessPtr
        /\ semTable'[s].value = semTable[s].value - 1
    BY <2>1 DEF SemTypeOK, Semaphore
  <2>3. \A t \in Sems : On(t, "woken")' = On(t, "woken")
    BY <1>5 DEF SemPass, On
  <2> QED
    BY <1>0, <2>2, <2>3
<1>6. ASSUME NEW s \in Sems, SemBlock(s) PROVE NoneBeside'
  <2>1. /\ Current \in Procs /\ pc[Current] = "user"
        /\ semTable[s].value <= 0 /\ semTable[s].status # UNUSED
    BY <1>6, CurrentIsAProcess DEF SemBlock
  <2>2. \E where \in {"blocked", "walk"} : pc' = [pc EXCEPT ![Current] = where]
    BY <1>6 DEF SemBlock, MboxReceive
  <2>3. sem' = [sem EXCEPT ![Current] = s]
    BY <1>6 DEF SemBlock, MboxReceive
  <2>4. ASSUME NEW t \in Sems PROVE On(t, "woken")' = On(t, "woken")
    BY <2>1, <2>2, <2>3 DEF On, SemTypeOK
  <2>5. CASE semTable' = semTable
    BY <1>0, <2>4, <2>5
  <2>6. CASE semTable' = [semTable EXCEPT ![s].blockedProcessPtr = Current]
    <3>1. /\ \A t \in Sems \ {s} : semTable'[t] = semTable[t]
          /\ semTable'[s].status # UNUSED /\ semTable'[s].value <= 0
      BY <2>1, <2>6 DEF SemTypeOK, Semaphore
    <3> QED
      BY <1>0, <2>4, <3>1
  <2> QED
    BY <1>6, <2>5, <2>6 DEF SemBlock
<1>7. CASE ListWalk
  BY <1>7 DEF ListWalk, NoneBeside, InUse, On
<1>8. CASE ListLink
  <2>1. /\ Current \in Procs /\ pc[Current] = "walk" /\ pc' = [pc EXCEPT ![Current] = "blocked"]
        /\ sem' = [sem EXCEPT ![Current] = sem[Current]] /\ semTable' = semTable
    BY <1>8, CurrentIsAProcess DEF ListLink, MboxReceive
  <2>2. ASSUME NEW t \in Sems PROVE On(t, "woken")' = On(t, "woken")
    BY <2>1 DEF On, SemTypeOK
  <2> QED
    BY <1>0, <2>1, <2>2
<1>9. CASE SemPResume
  <2>0. PICK s : s = sem[Current]
    OBVIOUS
  <2>1. Current \in Procs /\ pc[Current] = "woken" /\ s \in Sems /\ sem' = sem
    BY <1>9, <2>0, CurrentIsAProcess DEF SemPResume, SemTypeOK
  <2>2. \E where \in {"gone", "user"} : pc' = [pc EXCEPT ![Current] = where]
    BY <1>9 DEF SemPResume
  <2>3. \A t \in Sems \ {s} : On(t, "woken")' = On(t, "woken")
    BY <2>0, <2>1, <2>2 DEF On, SemTypeOK
  <2>4. On(s, "woken")' = On(s, "woken") \ {Current} /\ Current \in On(s, "woken")
    BY <2>0, <2>1, <2>2 DEF On, SemTypeOK
  <2>5. Cardinality(On(s, "woken")') = Cardinality(On(s, "woken")) - 1
    BY <2>4, WokenFinite, FS_RemoveElement
  <2>6. /\ \A t \in Sems \ {s} : semTable'[t] = semTable[t]
        /\ semTable'[s].status = semTable[s].status
        /\ semTable'[s].blockedProcessPtr = semTable[s].blockedProcessPtr
        /\ semTable[s].status # FREED => semTable'[s].value = semTable[s].value - 1
    <3>1. CASE semTable[s].status = FREED /\ semTable' = semTable
      BY <3>1
    <3>2. CASE semTable' = [semTable EXCEPT ![s].value = @ - 1]
      BY <2>1, <3>2 DEF SemTypeOK, Semaphore
    <3> QED
      BY <1>9, <2>0, <3>1, <3>2 DEF SemPResume, Counted, FreedMeanwhile
  <2>7. ASSUME InUse(s)', semTable'[s].blockedProcessPtr # NULL
        PROVE  semTable'[s].value <= Cardinality(On(s, "woken")')
    <3>1. InUse(s) /\ semTable[s].blockedProcessPtr # NULL /\ semTable[s].status # FREED
      BY <2>6, <2>7 DEF InUse, USED, FREED
    <3>2. semTable[s].value <= Cardinality(On(s, "woken")) /\ semTable[s].value \in Int
      BY <2>1, <3>1 DEF NoneBeside, SemTypeOK, Semaphore
    <3> QED
      BY <2>5, <2>6, <3>1, <3>2, WokenFinite
  <2>8. ASSUME NEW t \in Sems \ {s}
        PROVE  /\ semTable'[t].status = UNUSED => semTable'[t].blockedProcessPtr = NULL
               /\ InUse(t)' /\ semTable'[t].blockedProcessPtr # NULL =>
                    semTable'[t].value <= Cardinality(On(t, "woken")')
    BY <2>3, <2>6 DEF NoneBeside, InUse
  <2>9. semTable'[s].status = UNUSED => semTable'[s].blockedProcessPtr = NULL
    BY <2>1, <2>6 DEF NoneBeside
  <2> QED
    BY <2>7, <2>8, <2>9 DEF NoneBeside
<1>10. ASSUME NEW s \in Sems, SemV(s) PROVE NoneBeside'
  <2>1. pc \in [Procs -> Positions]
    BY DEF SemTypeOK, Positions
  <2> QED
    BY <1>10, <2>1, BesideV DEF SemV
<1>11. ASSUME NEW s \in Sems, SemFree(s) PROVE NoneBeside'
  <2>1. Current \in Procs /\ pc[Current] = "user"
    BY <1>11, CurrentIsAProcess DEF SemFree
  <2>2. ASSUME NEW t \in Sems PROVE On(t, "woken")' = On(t, "woken")
    BY <1>11, <2>1 DEF SemFree, On, SemTypeOK
  <2>3. CASE semTable[s].blockedProcessPtr = NULL
    <3>1. /\ \A t \in Sems \ {s} : semTable'[t] = semTable[t]
          /\ semTable'[s].blockedProcessPtr = NULL
      BY <1>11, <2>3 DEF SemFree, SemTypeOK, Semaphore
    <3> QED
      BY <1>0, <2>2, <3>1
  <2>4. CASE semTable[s].blockedProcessPtr # NULL
    <3>1. /\ \A t \in Sems \ {s} : semTable'[t] = semTable[t]
          /\ semTable'[s].status = FREED
      BY <1>11, <2>4 DEF SemFree, SemTypeOK, Semaphore
    <3> QED
      BY <1>0, <2>2, <3>1
  <2> QED
    BY <2>3, <2>4
<1>12. CASE FreeNext
  <2>1. Current \in Procs /\ pc[Current] \in {"free", "freeing"} /\ sem[Current] \in Sems
    BY <1>12, FreeEffect
  <2>2. ASSUME NEW at \in [Procs -> Positions], at = [pc EXCEPT ![Current] = "freeing"],
               \A p \in Procs : at[p] = "blocked" <=> pc[p] = "blocked",
               SemVReal(sem[Current], at)
        PROVE  NoneBeside'
    <3>1. \A p \in Procs : at[p] = "woken" <=> pc[p] = "woken"
      BY <2>1, <2>2 DEF SemTypeOK
    <3> QED
      BY <2>1, <2>2, <3>1, BesideV
  <2>3. CASE /\ pc' = [pc EXCEPT ![Current] = "user"]
             /\ UNCHANGED <<semTable, nextSemBlockedSiblingPtr, Current, sem, walker>>
    <3>1. ASSUME NEW t \in Sems PROVE On(t, "woken")' = On(t, "woken")
      BY <2>1, <2>3 DEF On, SemTypeOK
    <3> QED
      BY <1>0, <2>3, <3>1
  <2> QED
    BY <1>12, <2>2, <2>3, FreeEffect
<1> QED
  BY <1>2, <1>3, <1>4, <1>5, <1>6, <1>7, <1>8, <1>9, <1>10, <1>11, <1>12 DEF Next

\* Nobody waits beside a permit, whichever of the waker and the woken runs first,
\* while no process blocks with a link left over.
THEOREM BesideCorrect ==
    ASSUME ~StaleLinks
    PROVE  Spec => []NobodyWaitsBesideAPermit
<1> DEFINE IInv == SemTypeOK /\ WalkOK /\ Lists /\ WalksOnList /\ NoneBeside
<1>1. Init => NoneBeside
  BY DEF Init, NoneBeside, InUse, USED, UNUSED
<1>2. IInv /\ [Next]_vars => IInv'
  BY TypeStep, WalkStep, ListsStep, WalksStep, BesideStep
<1>3. ASSUME Lists, NoneBeside PROVE NobodyWaitsBesideAPermit
  <2>1. ASSUME NEW s \in Sems, Chain(s) # <<>> PROVE semTable[s].blockedProcessPtr # NULL
    <3>1. PICK q : ListOf(s, q)
      BY <1>3 DEF Lists
    <3>2. q # <<>>
      BY <2>1, <3>1, ChainIsList
    <3> QED
      BY <3>1, <3>2, ListFirst, SemaphoresAssumption DEF ListOf
  <2> QED
    BY <1>3, <2>1 DEF NoneBeside, NobodyWaitsBesideAPermit
<1>4. Init => IInv
  BY <1>1, InitialTypes, InitialLists
<1> QED
  BY <1>2, <1>3, <1>4, PTL DEF Spec

-----------------------------------------------------------------------------
(***************************************************************************)
(* Semaphores that are waited for.                                         *)
(***************************************************************************)
Queuing == {"walk", "blocked"}
InSemFree == {"free", "freeing"}

\* A semaphore on whose list somebody is, or is about to be, is not given away, and
\* one that is being freed stays so.
HeldOpen ==
    /\ \A p \in Procs : pc[p] \in Queuing => semTable[sem[p]].status # UNUSED
    /\ \A p \in Procs : pc[p] \in InSemFree => semTable[sem[p]].status = FREED

\* A process walks to the end of a list only where there is no permit to be had.
WalkersWait == \A p \in Procs : pc[p] = "walk" => semTable[sem[p]].value <= 0

\* No step gives a semaphore away that is waited for, or reopens a freed one.
LEMMA HeldStep ==
    ASSUME SemTypeOK, Lists, WalkOK, HeldOpen, [Next]_vars
    PROVE  HeldOpen'
<1>0. ASSUME \A p \in Procs : pc'[p] \in Queuing => pc[p] \in Queuing,
             \A p \in Procs : pc'[p] \in InSemFree => pc[p] \in InSemFree,
             \A t \in Sems : semTable'[t].status = semTable[t].status,
             sem' = sem
      PROVE  HeldOpen'
  <2>1. ASSUME NEW p \in Procs PROVE sem[p] \in Sems
    BY DEF SemTypeOK
  <2> QED
    BY <1>0, <2>1 DEF HeldOpen
<1>1. ASSUME NEW s \in Sems, NEW at \in [Procs -> Positions], SemVReal(s, at),
             \A p \in Procs : at[p] = "blocked" <=> pc[p] = "blocked",
             \A p \in Procs : at[p] \in Queuing => pc[p] \in Queuing,
             \A p \in Procs : at[p] \in InSemFree => pc[p] \in InSemFree
      PROVE  HeldOpen'
  <2>1. PICK first : first = semTable[s].blockedProcessPtr
    OBVIOUS
  <2>2. sem' = sem /\ \A t \in Sems : semTable'[t].status = semTable[t].status
    BY <1>1, <2>1, VEffect
  <2>3. CASE first = NULL
    <3>1. pc' = at
      BY <1>1, <2>1, <2>3, VEffect
    <3> QED
      BY <1>0, <1>1, <2>2, <3>1
  <2>4. CASE first # NULL
    <3>1. first \in Procs /\ pc[first] = "blocked" /\ pc' = [at EXCEPT ![first] = "woken"]
      BY <1>1, <2>1, <2>4, VEffect DEF On
    <3>2. ASSUME NEW p \in Procs
          PROVE  /\ pc'[p] \in Queuing => pc[p] \in Queuing
                 /\ pc'[p] \in InSemFree => pc[p] \in InSemFree
      BY <1>1, <3>1 DEF Queuing, InSemFree
    <3> QED
      BY <1>0, <2>2, <3>2
  <2> QED
    BY <2>3, <2>4
<1>2. CASE UNCHANGED vars
  BY <1>0, <1>2 DEF vars
<1>3. CASE TimeSlice
  BY <1>0, <1>3 DEF TimeSlice
<1>4. ASSUME NEW value \in Values, SemCreate(value) PROVE HeldOpen'
  <2>1. PICK s \in Sems :
            semTable[s].status = UNUSED /\ semTable' = [semTable EXCEPT ![s].status = USED, ![s].value = value]
    BY <1>4 DEF SemCreate, FirstUnused
  <2>2. UNCHANGED <<pc, sem>>
    BY <1>4 DEF SemCreate
  <2>3. \A t \in Sems : semTable'[t].status = IF t = s THEN USED ELSE semTable[t].status
    BY <2>1 DEF SemTypeOK, Semaphore
  <2>4. ASSUME NEW p \in Procs
        PROVE  /\ pc[p] \in Queuing => semTable'[sem[p]].status # UNUSED
               /\ pc[p] \in InSemFree => semTable'[sem[p]].status = FREED
    <3>1. sem[p] \in Sems
      BY DEF SemTypeOK
    <3>2. pc[p] \in InSemFree => sem[p] # s
      BY <2>1 DEF HeldOpen, UNUSED, FREED
    <3> QED
      BY <2>3, <3>1, <3>2 DEF HeldOpen, UNUSED, USED
  <2> QED
    BY <2>2, <2>4 DEF HeldOpen
<1>5. ASSUME NEW s \in Sems, SemPass(s) PROVE HeldOpen'
  <2>1. \A t \in Sems : semTable'[t].status = semTable[t].status
    BY <1>5 DEF SemPass, Counted, SemTypeOK, Semaphore
  <2> QED
    BY <1>0, <1>5, <2>1 DEF SemPass
<1>6. ASSUME NEW s \in Sems, SemBlock(s) PROVE HeldOpen'
  <2>1. Current \in Procs /\ semTable[s].status # UNUSED
    BY <1>6, CurrentIsAProcess DEF SemBlock
  <2>2. \E where \in {"blocked", "walk"} : pc' = [pc EXCEPT ![Current] = where]
    BY <1>6 DEF SemBlock, MboxReceive
  <2>3. sem' = [sem EXCEPT ![Current] = s]
    BY <1>6 DEF SemBlock, MboxReceive
  <2>4. \A t \in Sems : semTable'[t].status = semTable[t].status
    BY <1>6 DEF SemBlock, SemTypeOK, Semaphore
  <2>5. ASSUME NEW p \in Procs
        PROVE  /\ pc'[p] \in Queuing => semTable'[sem'[p]].status # UNUSED
               /\ pc'[p] \in InSemFree => semTable'[sem'[p]].status = FREED
    <3>1. CASE p = Current
      BY <2>1, <2>2, <2>3, <2>4, <3>1 DEF SemTypeOK, InSemFree
    <3>2. CASE p # Current
      <4>1. pc'[p] = pc[p] /\ sem'[p] = sem[p] /\ sem[p] \in Sems
        BY <2>2, <2>3, <3>2 DEF SemTypeOK
      <4> QED
        BY <2>4, <4>1 DEF HeldOpen
    <3> QED
      BY <3>1, <3>2
  <2> QED
    BY <2>5 DEF HeldOpen
<1>7. CASE ListWalk
  BY <1>0, <1>7 DEF ListWalk
<1>8. CASE ListLink
  <2>1. /\ Current \in Procs /\ pc[Current] = "walk" /\ pc' = [pc EXCEPT ![Current] = "blocked"]
        /\ sem' = [sem EXCEPT ![Current] = sem[Current]] /\ semTable' = semTable
    BY <1>8, CurrentIsAProcess DEF ListLink, MboxReceive
  <2>2. sem' = sem
    BY <2>1 DEF SemTypeOK
  <2>3. ASSUME NEW p \in Procs
        PROVE  /\ pc'[p] \in Queuing => pc[p] \in Queuing
               /\ pc'[p] \in InSemFree => pc[p] \in InSemFree
    BY <2>1 DEF SemTypeOK, Queuing, InSemFree
  <2> QED
    BY <1>0, <2>1, <2>2, <2>3
<1>9. CASE SemPResume
  <2>1. Current \in Procs /\ sem[Current] \in Sems /\ sem' = sem
    BY <1>9, CurrentIsAProcess DEF SemPResume, SemTypeOK
  <2>2. \E where \in {"gone", "user"} : pc' = [pc EXCEPT ![Current] = where]
    BY <1>9 DEF SemPResume
  <2>3. ASSUME NEW p \in Procs
        PROVE  /\ pc'[p] \in Queuing => pc[p] \in Queuing
               /\ pc'[p] \in InSemFree => pc[p] \in InSemFree
    BY <2>2 DEF SemTypeOK, Queuing, InSemFree
  <2>4. \A t \in Sems : semTable'[t].status = semTable[t].status
    BY <1>9, <2>1 DEF SemPResume, Counted, SemTypeOK, Semaphore
  <2> QED
    BY <1>0, <2>1, <2>3, <2>4
<1>10. ASSUME NEW s \in Sems, SemV(s) PROVE HeldOpen'
  <2>1. pc \in [Procs -> Positions]
    BY DEF SemTypeOK, Positions
  <2> QED
    BY <1>1, <1>10, <2>1 DEF SemV
<1>11. ASSUME NEW s \in Sems, SemFree(s) PROVE HeldOpen'
  <2>1. Current \in Procs /\ pc[Current] = "user" /\ semTable[s].status = USED
    BY <1>11, CurrentIsAProcess DEF SemFree
  <2>2. CASE semTable[s].blockedProcessPtr = NULL
    <3>1. UNCHANGED <<pc, sem>> /\ semTable' = [semTable EXCEPT ![s].status = UNUSED]
      BY <1>11, <2>2 DEF SemFree
    <3>2. \A t \in Sems : t # s => semTable'[t].status = semTable[t].status
      BY <3>1 DEF SemTypeOK
    <3>3. ASSUME NEW p \in Procs, pc[p] \in Queuing \cup InSemFree PROVE sem[p] \in Sems \ {s}
      <4>1. On(s, "blocked") = {} /\ sem[p] \in Sems
        BY <2>2, FirstIsBlocked DEF SemTypeOK
      <4>2. pc[p] # "walk"
        BY <2>1 DEF WalkOK
      <4>3. sem[p] = s => pc[p] \in InSemFree
        BY <3>3, <4>1, <4>2 DEF On, Queuing
      <4>4. sem[p] = s => semTable[s].status = FREED
        BY <4>3 DEF HeldOpen
      <4> QED
        BY <2>1, <4>1, <4>4 DEF USED, FREED
    <3> QED
      BY <3>1, <3>2, <3>3 DEF HeldOpen
  <2>3. CASE semTable[s].blockedProcessPtr # NULL
    <3>1. /\ pc' = [pc EXCEPT ![Current] = "free"] /\ sem' = [sem EXCEPT ![Current] = s]
          /\ semTable' = [semTable EXCEPT ![s].status = FREED]
      BY <1>11, <2>3 DEF SemFree
    <3>2. \A t \in Sems : semTable'[t].status = IF t = s THEN FREED ELSE semTable[t].status
      BY <3>1 DEF SemTypeOK, Semaphore
    <3>3. ASSUME NEW p \in Procs
          PROVE  /\ pc'[p] \in Queuing => semTable'[sem'[p]].status # UNUSED
                 /\ pc'[p] \in InSemFree => semTable'[sem'[p]].status = FREED
      <4>1. CASE p = Current
        BY <2>1, <3>1, <3>2, <4>1 DEF SemTypeOK, Queuing, UNUSED, FREED
      <4>2. CASE p # Current
        <5>1. pc'[p] = pc[p] /\ sem'[p] = sem[p] /\ sem[p] \in Sems
          BY <3>1, <4>2 DEF SemTypeOK
        <5> QED
          BY <3>2, <5>1 DEF HeldOpen, UNUSED, FREED
      <4> QED
        BY <4>1, <4>2
    <3> QED
      BY <3>3 DEF HeldOpen
  <2> QED
    BY <2>2, <2>3
<1>12. CASE FreeNext
  <2>1. Current \in Procs /\ pc[Current] \in {"free", "freeing"} /\ sem[Current] \in Sems
    BY <1>12, FreeEffect
  <2>2. ASSUME NEW at \in [Procs -> Positions], at = [pc EXCEPT ![Current] = "freeing"],
               \A p \in Procs : at[p] = "blocked" <=> pc[p] = "blocked",
               SemVReal(sem[Current], at)
        PROVE  HeldOpen'
    <3>1. ASSUME NEW p \in Procs
          PROVE  /\ at[p] \in Queuing => pc[p] \in Queuing
                 /\ at[p] \in InSemFree => pc[p] \in InSemFree
      BY <2>1, <2>2 DEF SemTypeOK, Queuing, InSemFree
    <3> QED
      BY <1>1, <2>1, <2>2, <3>1
  <2>3. CASE /\ pc' = [pc EXCEPT ![Current] = "user"]
             /\ UNCHANGED <<semTable, nextSemBlockedSiblingPtr, Current, sem, walker>>
    <3>1. ASSUME NEW p \in Procs
          PROVE  /\ pc'[p] \in Queuing => pc[p] \in Queuing
                 /\ pc'[p] \in InSemFree => pc[p] \in InSemFree
      BY <2>1, <2>3 DEF SemTypeOK, Queuing, InSemFree
    <3> QED
      BY <1>0, <2>3, <3>1
  <2> QED
    BY <1>12, <2>2, <2>3, FreeEffect
<1> QED
  BY <1>2, <1>3, <1>4, <1>5, <1>6, <1>7, <1>8, <1>9, <1>10, <1>11, <1>12 DEF Next

\* No step makes a permit for a process that walks to the end of a list.
LEMMA WalkersStep ==
    ASSUME SemTypeOK, WalkOK, WalkersWait, [Next]_vars
    PROVE  WalkersWait'
<1>0. ASSUME \A p \in Procs : pc'[p] # "walk" PROVE WalkersWait'
  BY <1>0 DEF WalkersWait
<1>n. ASSUME Current \in Procs, pc[Current] # "walk" PROVE \A p \in Procs : pc[p] # "walk"
  BY <1>n DEF WalkOK
<1>1. ASSUME NEW s \in Sems, NEW at \in [Procs -> Positions], SemVReal(s, at),
             \A p \in Procs : at[p] # "walk"
      PROVE  WalkersWait'
  <2>1. \A p \in Procs : pc'[p] # "walk"
    BY <1>1 DEF SemVReal, MboxCondSend
  <2> QED
    BY <1>0, <2>1
<1>2. CASE UNCHANGED vars
  BY <1>2 DEF vars, WalkersWait
<1>3. CASE TimeSlice
  BY <1>3 DEF TimeSlice, WalkersWait
<1>4. ASSUME NEW value \in Values, SemCreate(value) PROVE WalkersWait'
  <2>1. pc' = pc /\ \A p \in Procs : pc[p] # "walk"
    BY <1>4, <1>n, CurrentIsAProcess DEF SemCreate
  <2> QED
    BY <1>0, <2>1
<1>5. ASSUME NEW s \in Sems, SemPass(s) PROVE WalkersWait'
  <2>1. pc' = pc /\ \A p \in Procs : pc[p] # "walk"
    BY <1>5, <1>n, CurrentIsAProcess DEF SemPass
  <2> QED
    BY <1>0, <2>1
<1>6. ASSUME NEW s \in Sems, SemBlock(s) PROVE WalkersWait'
  <2>1. /\ Current \in Procs /\ pc[Current] = "user" /\ semTable[s].value <= 0
        /\ \A p \in Procs : pc[p] # "walk"
        /\ sem' = [sem EXCEPT ![Current] = s]
    BY <1>6, <1>n, CurrentIsAProcess DEF SemBlock, MboxReceive
  <2>2. \E where \in {"blocked", "walk"} : pc' = [pc EXCEPT ![Current] = where]
    BY <1>6 DEF SemBlock, MboxReceive
  <2>3. semTable'[s].value = semTable[s].value
    BY <1>6 DEF SemBlock, SemTypeOK, Semaphore
  <2>4. ASSUME NEW p \in Procs, pc'[p] = "walk" PROVE semTable'[sem'[p]].value <= 0
    <3>1. p = Current
      BY <2>1, <2>2, <2>4
    <3> QED
      BY <2>1, <2>3, <3>1 DEF SemTypeOK
  <2> QED
    BY <2>4 DEF WalkersWait
<1>7. CASE ListWalk
  BY <1>7 DEF ListWalk, WalkersWait
<1>8. CASE ListLink
  <2>1. /\ Current \in Procs /\ pc' = [pc EXCEPT ![Current] = "blocked"]
        /\ \A p \in Procs : pc[p] = "walk" => p = Current
    BY <1>8, CurrentIsAProcess DEF ListLink, MboxReceive, WalkOK
  <2>2. \A p \in Procs : pc'[p] # "walk"
    BY <2>1 DEF SemTypeOK
  <2> QED
    BY <1>0, <2>2
<1>9. CASE SemPResume
  <2>1. \A p \in Procs : pc[p] # "walk"
    BY <1>9, <1>n, CurrentIsAProcess DEF SemPResume
  <2>2. \A p \in Procs : pc'[p] # "walk"
    BY <1>9, <2>1 DEF SemPResume, SemTypeOK
  <2> QED
    BY <1>0, <2>2
<1>10. ASSUME NEW s \in Sems, SemV(s) PROVE WalkersWait'
  <2>1. pc \in [Procs -> Positions] /\ \A p \in Procs : pc[p] # "walk"
    BY <1>10, <1>n, CurrentIsAProcess DEF SemV, SemTypeOK, Positions
  <2> QED
    BY <1>1, <1>10, <2>1 DEF SemV
<1>11. ASSUME NEW s \in Sems, SemFree(s) PROVE WalkersWait'
  <2>1. \A p \in Procs : pc[p] # "walk"
    BY <1>11, <1>n, CurrentIsAProcess DEF SemFree
  <2>2. \A p \in Procs : pc'[p] # "walk"
    BY <1>11, <2>1 DEF SemFree, SemTypeOK
  <2> QED
    BY <1>0, <2>2
<1>12. CASE FreeNext
  <2>1. Current \in Procs /\ sem[Current] \in Sems /\ \A p \in Procs : pc[p] # "walk"
    BY <1>12, <1>n, FreeEffect
  <2>2. ASSUME NEW at \in [Procs -> Positions], at = [pc EXCEPT ![Current] = "freeing"],
               SemVReal(sem[Current], at)
        PROVE  WalkersWait'
    <3>1. \A p \in Procs : at[p] # "walk"
      BY <2>1, <2>2 DEF SemTypeOK
    <3> QED
      BY <1>1, <2>1, <2>2, <3>1
  <2>3. CASE pc' = [pc EXCEPT ![Current] = "user"]
    <3>1. \A p \in Procs : pc'[p] # "walk"
      BY <2>1, <2>3 DEF SemTypeOK
    <3> QED
      BY <1>0, <3>1
  <2> QED
    BY <1>12, <2>2, <2>3, FreeEffect
<1> QED
  BY <1>2, <1>3, <1>4, <1>5, <1>6, <1>7, <1>8, <1>9, <1>10, <1>11, <1>12 DEF Next

\* The inductive invariant of the semaphores.
SemInv ==
    /\ SemTypeOK /\ WalkOK
    /\ Lists /\ WalksOnList
    /\ HeldOpen /\ WalkersWait

\* The inductive invariant holds.
LEMMA SemInvariant ==
    ASSUME ~StaleLinks
    PROVE  Spec => []SemInv
<1>1. Init => HeldOpen /\ WalkersWait
  BY DEF Init, HeldOpen, WalkersWait, Queuing, InSemFree
<1>2. Init => SemInv
  BY <1>1, InitialTypes, InitialLists DEF SemInv
<1>3. SemInv /\ [Next]_vars => SemInv'
  BY TypeStep, WalkStep, ListsStep, WalksStep, HeldStep, WalkersStep DEF SemInv
<1> QED
  BY <1>2, <1>3, PTL DEF Spec

-----------------------------------------------------------------------------
(***************************************************************************)
(* Each semaphore is a counting semaphore, but for the permits it has      *)
(* promised.                                                               *)
(***************************************************************************)
\* The permits nobody has taken, and the processes that wait, of semaphore s.
FreePermits(s) == IF InUse(s) THEN semTable[s].value - Promised(s) ELSE 0
Waiting(s) == IF InUse(s) THEN Chain(s) ELSE <<>>

\* A step of the counting semaphore s, or none.
Counts(s) == Abstract(s)!Next \/ UNCHANGED Abstract(s)!semaphoreVars

\* The promised permits are a number.
LEMMA PromisedNumber ==
    ASSUME NEW s
    PROVE  Promised(s) \in Nat
BY WokenFinite DEF Promised

\* A step from the list q to the list r, of a semaphore that stays in use.
LEMMA CountsLists ==
    ASSUME NEW s, NEW q, NEW r, ListOf(s, q), ListOf(s, r)', InUse(s), InUse(s)'
    PROVE  Waiting(s) = q /\ Waiting(s)' = r
BY FollowedList DEF Waiting, Chain, ListOf

\* A semaphore that is not in use, before or after the step.
LEMMA CountsClosed ==
    ASSUME NEW s, ~ InUse(s), ~ InUse(s)'
    PROVE  Counts(s)
<1>1. InUse(s)' = InUse(s)
  BY DEF InUse
<1>2. /\ (IF InUse(s) THEN semTable[s].value - Promised(s) ELSE 0)'
            = IF InUse(s) THEN semTable[s].value - Promised(s) ELSE 0
      /\ (IF InUse(s) THEN Chain(s) ELSE <<>>)' = IF InUse(s) THEN Chain(s) ELSE <<>>
  OBVIOUS
<1> QED
  BY <1>1, <1>2 DEF Counts, Abstract!semaphoreVars

\* A step that leaves the list and the permits as they are.
LEMMA CountsSame ==
    ASSUME NEW s, NEW q, ListOf(s, q), ListOf(s, q)', InUse(s)' = InUse(s),
           FreePermits(s)' = FreePermits(s)
    PROVE  Counts(s)
<1>1. Chain(s)' = Chain(s)
  BY FollowedList DEF Chain, ListOf
<1> QED
  BY <1>1 DEF Counts, Abstract!semaphoreVars, FreePermits

\* A step that leaves the list, the value and the woken as they are.
LEMMA CountsIdle ==
    ASSUME NEW s, NEW q, ListOf(s, q), ListOf(s, q)',
           semTable'[s].status = semTable[s].status,
           semTable'[s].value = semTable[s].value,
           On(s, "woken")' = On(s, "woken")
    PROVE  Counts(s)
<1>1. InUse(s)' = InUse(s)
  BY DEF InUse
<1>2. FreePermits(s)' = FreePermits(s)
  BY <1>1 DEF FreePermits, Promised
<1> QED
  BY <1>1, <1>2, CountsSame

\* A process goes to the end of the list.
LEMMA CountsWait ==
    ASSUME NEW s, NEW p \in Procs, NEW q, ListOf(s, q), ListOf(s, Append(q, p))',
           InUse(s), InUse(s)', FreePermits(s) <= 0, FreePermits(s)' = FreePermits(s)
    PROVE  Counts(s)
<1>1. Waiting(s) = q /\ Waiting(s)' = Append(q, p)
  BY CountsLists
<1> QED
  BY <1>1 DEF Counts, Abstract!Next, Abstract!Wait, FreePermits, Waiting

\* A permit more, with nobody waiting.
LEMMA CountsPermit ==
    ASSUME NEW s, ListOf(s, <<>>), ListOf(s, <<>>)', InUse(s), InUse(s)',
           FreePermits(s)' = FreePermits(s) + 1
    PROVE  Counts(s)
<1>1. Waiting(s) = <<>> /\ Waiting(s)' = <<>>
  BY CountsLists
<1> QED
  BY <1>1 DEF Counts, Abstract!Next, Abstract!Signal, FreePermits, Waiting

\* A permit to the first of those waiting.
LEMMA CountsHandOver ==
    ASSUME NEW s, NEW q, q # <<>>, ListOf(s, q), ListOf(s, Tail(q))', InUse(s), InUse(s)',
           FreePermits(s)' = FreePermits(s)
    PROVE  Counts(s)
<1>1. Waiting(s) = q /\ Waiting(s)' = Tail(q)
  BY CountsLists
<1> QED
  BY <1>1 DEF Counts, Abstract!Next, Abstract!Signal, FreePermits, Waiting

\* semVReal is a V of the counting semaphore, if it is in use.
LEMMA CountsV ==
    ASSUME SemTypeOK, Lists, NEW s \in Sems, NEW at \in [Procs -> Positions],
           \A p \in Procs : /\ at[p] = "blocked" <=> pc[p] = "blocked"
                            /\ at[p] = "woken" <=> pc[p] = "woken",
           SemVReal(s, at), NEW t \in Sems
    PROVE  Counts(t)
<1> DEFINE first == semTable[s].blockedProcessPtr
<1>1. /\ sem' = sem
      /\ semTable'[t].status = semTable[t].status
      /\ semTable'[t].value = semTable[t].value + IF t = s THEN 1 ELSE 0
  BY VEffect
<1>2. PICK q : ListOf(t, q)
  BY DEF Lists
<1>3. semTable[t].value \in Int /\ Promised(t) \in Nat
  BY PromisedNumber DEF SemTypeOK, Semaphore
<1>4. InUse(t)' = InUse(t)
  BY <1>1 DEF InUse
<1>5. CASE ~ InUse(t)
  BY <1>4, <1>5, CountsClosed
<1>6. CASE InUse(t) /\ first = NULL
  <2>1. pc' = at
    BY <1>6 DEF SemVReal
  <2>2. On(t, "woken")' = On(t, "woken")
    BY <1>1, <2>1 DEF On
  <2>3. ListOf(t, q)'
    BY <1>2, <1>6, ListShrinks
  <2>4. CASE t # s
    BY <1>1, <1>2, <1>3, <2>2, <2>3, <2>4, CountsIdle
  <2>5. CASE t = s
    <3>1. q = <<>>
      BY <1>2, <1>6, <2>5, ListFirst, SemaphoresAssumption DEF ListOf
    <3>2. Promised(t)' = Promised(t)
      BY <2>2 DEF Promised
    <3>3. FreePermits(t)' = FreePermits(t) + 1
      BY <1>1, <1>3, <1>4, <1>6, <2>5, <3>2 DEF FreePermits
    <3> QED
      BY <1>2, <1>4, <1>6, <2>3, <3>1, <3>3, CountsPermit
  <2> QED
    BY <2>4, <2>5
<1>7. CASE InUse(t) /\ first # NULL
  <2>1. /\ first \in Procs /\ sem[first] = s /\ pc[first] = "blocked"
        /\ pc' = [at EXCEPT ![first] = "woken"]
    BY <1>7, VEffect DEF On
  <2>2. CASE t # s
    <3>1. On(t, "woken")' = On(t, "woken")
      BY <1>1, <2>1, <2>2 DEF On
    <3>2. ListOf(t, q)'
      BY <1>2, <2>2, ListShrinks
    <3> QED
      BY <1>1, <1>2, <1>3, <2>2, <3>1, <3>2, CountsIdle
  <2>3. CASE t = s
    <3>1. On(t, "woken")' = On(t, "woken") \cup {first} /\ first \notin On(t, "woken")
      BY <1>1, <2>1, <2>3 DEF On
    <3>2. Promised(t)' = Promised(t) + 1
      BY <3>1, WokenFinite, FS_AddElement DEF Promised
    <3>3. FreePermits(t)' = FreePermits(t)
      BY <1>1, <1>3, <1>4, <1>7, <2>3, <3>2 DEF FreePermits
    <3>4. q # <<>> /\ ListOf(t, Tail(q))'
      BY <1>2, <1>7, <2>3, ListShrinks
    <3> QED
      BY <1>2, <1>4, <1>7, <3>3, <3>4, CountsHandOver
  <2> QED
    BY <2>2, <2>3
<1> QED
  BY <1>5, <1>6, <1>7

\* Every step is, for every semaphore, one of the counting semaphore, none, or one
\* in which a woken process is not waited for.
LEMMA CountsStep ==
    ASSUME SemInv, ~StaleLinks, [Next]_vars, NEW t \in Sems
    PROVE  Counts(t) \/ TakesAPromised(t) \/ MadeAnew(t)
<1>t. SemTypeOK /\ WalkOK /\ Lists /\ WalksOnList /\ HeldOpen /\ WalkersWait
  BY DEF SemInv
<1>q. PICK q : ListOf(t, q)
  BY <1>t DEF Lists
<1>v. semTable[t].value \in Int /\ Promised(t) \in Nat
  BY <1>t, PromisedNumber DEF SemTypeOK, Semaphore
<1>0. ASSUME UNCHANGED <<nextSemBlockedSiblingPtr>>,
             semTable'[t].blockedProcessPtr = semTable[t].blockedProcessPtr,
             semTable'[t].status = semTable[t].status,
             semTable'[t].value = semTable[t].value,
             On(t, "blocked")' = On(t, "blocked"),
             On(t, "woken")' = On(t, "woken")
      PROVE  Counts(t)
  <2>1. ListOf(t, q)'
    BY <1>0, <1>q, ListUntouched
  <2> QED
    BY <1>0, <1>q, <2>1, CountsIdle
<1>2. CASE UNCHANGED vars
  BY <1>0, <1>2 DEF vars, On
<1>3. CASE TimeSlice
  BY <1>0, <1>3 DEF TimeSlice, On
<1>4. ASSUME NEW value \in Values, SemCreate(value) PROVE Counts(t) \/ MadeAnew(t)
  <2>1. PICK s \in Sems : /\ semTable[s].status = UNUSED
                          /\ semTable' = [semTable EXCEPT ![s].status = USED, ![s].value = value]
    BY <1>4 DEF SemCreate, FirstUnused
  <2>2. UNCHANGED <<nextSemBlockedSiblingPtr, pc, sem>>
    BY <1>4 DEF SemCreate
  <2>3. On(t, "blocked")' = On(t, "blocked") /\ On(t, "woken")' = On(t, "woken")
    BY <2>2 DEF On
  <2>4. CASE t # s
    <3>1. semTable'[t] = semTable[t]
      BY <1>t, <2>1, <2>4 DEF SemTypeOK
    <3> QED
      BY <1>0, <2>2, <2>3, <3>1
  <2>5. CASE t = s
    <3>1. /\ semTable'[t].status = USED
          /\ semTable'[t].value = value
          /\ semTable'[t].blockedProcessPtr = semTable[t].blockedProcessPtr
      BY <1>t, <2>1, <2>5 DEF SemTypeOK, Semaphore
    <3>2. ~ InUse(t) /\ InUse(t)'
      BY <2>1, <2>5, <3>1 DEF InUse, USED, UNUSED
    <3>3. CASE On(t, "woken") # {}
      BY <3>2, <3>3 DEF MadeAnew
    <3>4. CASE On(t, "woken") = {}
      <4>1. On(t, "blocked") = {}
        BY <1>t, <2>1, <2>5 DEF HeldOpen, Queuing, On
      <4>2. q = <<>> /\ ListOf(t, q)'
        BY <1>q, <2>2, <2>3, <3>1, <4>1, ListUntouched, ListFirst, SemaphoresAssumption DEF ListOf
      <4>3. Chain(t)' = <<>>
        BY <4>2, FollowedList DEF Chain, ListOf
      <4>4. Promised(t)' = 0
        BY <2>3, <3>4, FS_EmptySet DEF Promised
      <4>5. value \in Int
        BY SemaphoresAssumption
      <4>6. (IF InUse(t) THEN semTable[t].value - Promised(t) ELSE 0)' = value
        BY <3>1, <3>2, <4>4, <4>5
      <4> QED
        BY <3>2, <4>3, <4>6 DEF Counts, Abstract!Next, Abstract!Create
    <3> QED
      BY <3>3, <3>4
  <2> QED
    BY <2>4, <2>5
<1>5. ASSUME NEW s \in Sems, SemPass(s) PROVE Counts(t) \/ TakesAPromised(t)
  <2>1. /\ UNCHANGED <<nextSemBlockedSiblingPtr, pc, sem>>
        /\ semTable' = [semTable EXCEPT ![s].value = @ - 1]
    BY <1>5 DEF SemPass, Counted
  <2>2. On(t, "blocked")' = On(t, "blocked") /\ On(t, "woken")' = On(t, "woken")
    BY <2>1 DEF On
  <2>3. CASE t # s
    <3>1. semTable'[t] = semTable[t]
      BY <1>t, <2>1, <2>3 DEF SemTypeOK
    <3> QED
      BY <1>0, <2>1, <2>2, <3>1
  <2>4. CASE t = s
    <3>1. /\ semTable'[t].status = semTable[t].status
          /\ semTable'[t].value = semTable[t].value - 1
          /\ semTable'[t].blockedProcessPtr = semTable[t].blockedProcessPtr
      BY <1>t, <2>1, <2>4 DEF SemTypeOK, Semaphore
    <3>2. InUse(t)' = InUse(t)
      BY <3>1 DEF InUse
    <3>3. ListOf(t, q)'
      BY <1>q, <2>1, <2>2, <3>1, ListUntouched
    <3>4. Promised(t)' = Promised(t)
      BY <2>2 DEF Promised
    <3>5. CASE ~ InUse(t)
      BY <3>2, <3>5, CountsClosed
    <3>6. CASE InUse(t) /\ semTable[t].value > Promised(t)
      <4>1. Waiting(t)' = Waiting(t)
        BY <1>q, <3>2, <3>3, <3>6, CountsLists
      <4>2. FreePermits(t) > 0 /\ FreePermits(t)' = FreePermits(t) - 1
        BY <1>v, <3>1, <3>2, <3>4, <3>6 DEF FreePermits
      <4> QED
        BY <3>2, <3>6, <4>1, <4>2 DEF Counts, Abstract!Next, Abstract!Pass, FreePermits, Waiting
    <3>7. CASE InUse(t) /\ semTable[t].value <= Promised(t)
      <4>1. Chain(t)' = Chain(t)
        BY <1>q, <3>3, FollowedList DEF Chain, ListOf
      <4> QED
        BY <2>2, <3>1, <3>2, <3>7, <4>1 DEF TakesAPromised
    <3> QED
      BY <1>v, <3>5, <3>6, <3>7
  <2> QED
    BY <2>3, <2>4
<1>w. ASSUME NEW p \in Procs, ListOf(t, Append(q, p))', InUse(t), InUse(t)',
             semTable[t].value <= 0, semTable'[t].value = semTable[t].value,
             On(t, "woken")' = On(t, "woken")
      PROVE  Counts(t)
  <2>1. Promised(t)' = Promised(t)
    BY <1>w DEF Promised
  <2>2. FreePermits(t) <= 0 /\ FreePermits(t)' = FreePermits(t)
    BY <1>v, <1>w, <2>1 DEF FreePermits
  <2> QED
    BY <1>q, <1>w, <2>2, CountsWait
<1>6. ASSUME NEW s \in Sems, SemBlock(s) PROVE Counts(t)
  <2>1. /\ Current \in Procs /\ pc[Current] = "user" /\ semTable[s].value <= 0
        /\ nextSemBlockedSiblingPtr' = nextSemBlockedSiblingPtr
        /\ sem' = [sem EXCEPT ![Current] = s]
    BY <1>6, <1>t, CurrentIsAProcess DEF SemBlock, MboxReceive
  <2>2. PICK p : p = Current
    OBVIOUS
  <2>3. CASE semTable[s].blockedProcessPtr # NULL
    <3>1. semTable' = semTable /\ pc' = [pc EXCEPT ![Current] = "walk"]
      BY <1>6, <2>3 DEF SemBlock
    <3>2. On(t, "blocked")' = On(t, "blocked") /\ On(t, "woken")' = On(t, "woken")
      BY <1>t, <2>1, <3>1 DEF On, SemTypeOK
    <3> QED
      BY <1>0, <2>1, <3>1, <3>2
  <2>4. CASE semTable[s].blockedProcessPtr = NULL
    <3>1. /\ semTable' = [semTable EXCEPT ![s].blockedProcessPtr = Current]
          /\ pc' = [pc EXCEPT ![Current] = "blocked"]
      BY <1>6, <2>4 DEF SemBlock, MboxReceive
    <3>2. /\ semTable'[t].status = semTable[t].status
          /\ semTable'[t].value = semTable[t].value
      BY <1>t, <3>1 DEF SemTypeOK, Semaphore
    <3>3. On(t, "woken")' = On(t, "woken")
      BY <1>t, <2>1, <3>1 DEF On, SemTypeOK
    <3>4. CASE t # s
      <4>1. ListOf(t, q)'
        BY <1>6, <1>q, <1>t, <2>2, <2>4, <3>4, ListBegins
      <4> QED
        BY <1>q, <3>2, <3>3, <4>1, CountsIdle
    <3>5. CASE t = s /\ InUse(t)
      <4>1. q = <<>>
        BY <1>q, <2>4, <3>5, ListFirst, SemaphoresAssumption DEF ListOf
      <4>2. ListOf(t, <<p>>)' /\ p \in Procs
        BY <1>6, <1>t, <2>1, <2>2, <2>4, <3>5, ListBegins
      <4>3. ListOf(t, Append(q, p))'
        BY <4>1, <4>2, ListOfOne
      <4>4. InUse(t)'
        BY <3>2, <3>5 DEF InUse
      <4> QED
        BY <1>w, <2>1, <3>2, <3>3, <3>5, <4>2, <4>3, <4>4
    <3>6. CASE ~ InUse(t)
      BY <3>2, <3>6, CountsClosed DEF InUse
    <3> QED
      BY <3>4, <3>5, <3>6
  <2> QED
    BY <2>3, <2>4
<1>7. CASE ListWalk
  BY <1>0, <1>7 DEF ListWalk, On
<1>8. CASE ListLink
  <2>1. /\ Current \in Procs /\ pc[Current] = "walk" /\ pc' = [pc EXCEPT ![Current] = "blocked"]
        /\ sem' = [sem EXCEPT ![Current] = sem[Current]] /\ semTable' = semTable
    BY <1>8, <1>t, CurrentIsAProcess DEF ListLink, MboxReceive
  <2>2. PICK p : p = Current
    OBVIOUS
  <2>3. On(t, "woken")' = On(t, "woken")
    BY <1>t, <2>1 DEF On, SemTypeOK
  <2>4. InUse(t)' = InUse(t)
    BY <2>1 DEF InUse
  <2>5. CASE t # sem[p]
    <3>1. ListOf(t, q)'
      BY <1>8, <1>q, <1>t, <2>2, <2>5, ListGrows
    <3> QED
      BY <1>q, <2>1, <2>3, <3>1, CountsIdle
  <2>6. CASE t = sem[p] /\ InUse(t)
    <3>1. ListOf(t, Append(q, p))'
      BY <1>8, <1>q, <1>t, <2>2, <2>6, ListGrows
    <3>2. semTable[t].value <= 0
      BY <1>t, <2>1, <2>2, <2>6 DEF WalkersWait
    <3> QED
      BY <1>w, <2>1, <2>2, <2>3, <2>4, <2>6, <3>1, <3>2
  <2>7. CASE ~ InUse(t)
    BY <2>4, <2>7, CountsClosed
  <2> QED
    BY <2>5, <2>6, <2>7
<1>9. CASE SemPResume
  <2>0. PICK p : p = Current
    OBVIOUS
  <2>1. /\ p \in Procs /\ pc[p] = "woken" /\ sem[p] \in Sems
        /\ UNCHANGED <<nextSemBlockedSiblingPtr, sem>>
    BY <1>9, <1>t, <2>0, CurrentIsAProcess DEF SemPResume, SemTypeOK
  <2>2. \E where \in {"gone", "user"} : pc' = [pc EXCEPT ![p] = where]
    BY <1>9, <2>0 DEF SemPResume
  <2>3. On(t, "blocked")' = On(t, "blocked")
    BY <1>t, <2>1, <2>2 DEF On, SemTypeOK
  <2>4. CASE t # sem[p]
    <3>1. semTable'[t] = semTable[t]
      BY <1>9, <1>t, <2>0, <2>1, <2>4 DEF SemPResume, Counted, SemTypeOK
    <3>2. On(t, "woken")' = On(t, "woken")
      BY <1>t, <2>1, <2>2, <2>4 DEF On, SemTypeOK
    <3> QED
      BY <1>0, <2>1, <2>3, <3>1, <3>2
  <2>5. CASE t = sem[p] /\ InUse(t)
    <3>1. semTable' = [semTable EXCEPT ![t].value = @ - 1]
      BY <1>9, <2>0, <2>5 DEF SemPResume, FreedMeanwhile, Counted, InUse, USED, FREED
    <3>2. /\ semTable'[t].status = semTable[t].status
          /\ semTable'[t].value = semTable[t].value - 1
          /\ semTable'[t].blockedProcessPtr = semTable[t].blockedProcessPtr
      BY <1>t, <3>1 DEF SemTypeOK, Semaphore
    <3>3. On(t, "woken")' = On(t, "woken") \ {p} /\ p \in On(t, "woken")
      BY <1>t, <2>1, <2>2, <2>5 DEF On, SemTypeOK
    <3>4. Promised(t)' = Promised(t) - 1
      BY <3>3, WokenFinite, FS_RemoveElement DEF Promised
    <3>5. InUse(t)' = InUse(t)
      BY <3>2 DEF InUse
    <3>6. FreePermits(t)' = FreePermits(t)
      BY <1>v, <2>5, <3>2, <3>4, <3>5 DEF FreePermits
    <3>7. ListOf(t, q)'
      BY <1>q, <2>1, <2>3, <3>2, ListUntouched
    <3> QED
      BY <1>q, <3>5, <3>6, <3>7, CountsSame
  <2>6. CASE t = sem[p] /\ ~ InUse(t)
    <3>1. semTable'[t].status = semTable[t].status
      BY <1>9, <1>t, <2>0, <2>1 DEF SemPResume, Counted, SemTypeOK, Semaphore
    <3>2. ~ InUse(t)'
      BY <2>6, <3>1 DEF InUse
    <3> QED
      BY <2>6, <3>2, CountsClosed
  <2> QED
    BY <2>4, <2>5, <2>6
<1>10. ASSUME NEW s \in Sems, SemV(s) PROVE Counts(t)
  <2>1. pc \in [Procs -> Positions] /\ SemVReal(s, pc)
    BY <1>10, <1>t DEF SemV, SemTypeOK, Positions
  <2> QED
    BY <1>t, <2>1, CountsV
<1>11. ASSUME NEW s \in Sems, SemFree(s) PROVE Counts(t)
  <2>1. Current \in Procs /\ pc[Current] = "user" /\ semTable[s].status = USED
    BY <1>11, <1>t, CurrentIsAProcess DEF SemFree
  <2>2. \E status \in {UNUSED, FREED} : semTable' = [semTable EXCEPT ![s].status = status]
    BY <1>11 DEF SemFree
  <2>3. CASE t # s
    <3>1. semTable'[t] = semTable[t] /\ nextSemBlockedSiblingPtr' = nextSemBlockedSiblingPtr
      BY <1>11, <1>t, <2>2, <2>3 DEF SemFree, SemTypeOK
    <3>2. On(t, "blocked")' = On(t, "blocked") /\ On(t, "woken")' = On(t, "woken")
      BY <1>11, <1>t, <2>1, <2>3 DEF SemFree, On, SemTypeOK
    <3> QED
      BY <1>0, <3>1, <3>2
  <2>4. CASE t = s
    <3>1. semTable'[t].status # USED
      BY <1>t, <2>2, <2>4 DEF SemTypeOK, Semaphore, USED, UNUSED, FREED
    <3>2. InUse(t) /\ ~ InUse(t)'
      BY <2>1, <2>4, <3>1 DEF InUse
    <3> QED
      BY <3>2 DEF Counts, Abstract!Next, Abstract!Free
  <2> QED
    BY <2>3, <2>4
<1>12. CASE FreeNext
  <2>1. Current \in Procs /\ pc[Current] \in {"free", "freeing"} /\ sem[Current] \in Sems
    BY <1>12, <1>t, FreeEffect
  <2>2. ASSUME NEW at \in [Procs -> Positions], at = [pc EXCEPT ![Current] = "freeing"],
               \A p \in Procs : at[p] = "blocked" <=> pc[p] = "blocked",
               SemVReal(sem[Current], at)
        PROVE  Counts(t)
    <3>1. \A p \in Procs : at[p] = "woken" <=> pc[p] = "woken"
      BY <1>t, <2>1, <2>2 DEF SemTypeOK
    <3> QED
      BY <1>t, <2>1, <2>2, <3>1, CountsV
  <2>3. CASE /\ pc' = [pc EXCEPT ![Current] = "user"]
             /\ UNCHANGED <<semTable, nextSemBlockedSiblingPtr, Current, sem, walker>>
    <3>1. On(t, "blocked")' = On(t, "blocked") /\ On(t, "woken")' = On(t, "woken")
      BY <1>t, <2>1, <2>3 DEF On, SemTypeOK
    <3> QED
      BY <1>0, <2>3, <3>1
  <2> QED
    BY <1>12, <1>t, <2>2, <2>3, FreeEffect
<1> QED
  BY <1>2, <1>3, <1>4, <1>5, <1>6, <1>7, <1>8, <1>9, <1>10, <1>11, <1>12 DEF Next

\* Every semaphore of phase 3 is a counting semaphore, whoever runs first behind a
\* wakeup, but for the steps in which a woken process is not waited for, and if no
\* process blocks with a link left over.
THEOREM SemaphoresCorrect ==
    ASSUME ~StaleLinks
    PROVE  Spec => SemaphoresCount
<1> DEFINE Starts == \A s \in Sems : Abstract(s)!Init
           Step == \A s \in Sems : \/ Abstract(s)!Next
                                   \/ UNCHANGED Abstract(s)!semaphoreVars
                                   \/ TakesAPromised(s)
                                   \/ MadeAnew(s)
<1>1. Init => Starts
  <2>1. Init => \A s \in Sems : ~ InUse(s)
    BY DEF Init, InUse, USED, UNUSED
  <2> QED
    BY <2>1 DEF Abstract!Init
<1>2. SemInv /\ [Next]_vars => [Step]_vars
  BY CountsStep DEF Counts
<1>3. (Spec => Starts /\ [][Step]_vars) => (Spec => SemaphoresCount)
  BY DEF SemaphoresCount
<1> HIDE DEF Starts, Step
<1>4. Spec => Starts /\ [][Step]_vars
  BY <1>1, <1>2, SemInvariant, PTL DEF Spec
<1> QED
  BY <1>3, <1>4
=============================================================================
