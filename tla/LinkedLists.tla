---------------------------- MODULE LinkedLists ----------------------------
(***************************************************************************)
(* Lists that the code links through pointers, and what the operations of  *)
(* the kernel and of the semaphores on them do: take the first off, append *)
(* behind the last, insert, remove.                                        *)
(***************************************************************************)
EXTENDS Integers, Sequences, FiniteSets, SequencesExt, TLAPS, SequenceTheorems,
        FiniteSetTheorems, WellFoundedInduction

Members(q) == {q[i] : i \in 1 .. Len(q)}

Distinct(q) == \A i, j \in 1 .. Len(q) : q[i] = q[j] => i = j

\* The pointers first and next make the list q of elements of S.
IsList(S, null, q, first, next) ==
    /\ q \in Seq(S)
    /\ Distinct(q)
    /\ first = IF Len(q) = 0 THEN null ELSE q[1]
    /\ \A i \in 1 .. Len(q) : next[q[i]] = IF i = Len(q) THEN null ELSE q[i+1]

\* Every non-empty set of naturals has a least element.
LEMMA LeastElement ==
    ASSUME NEW S \in SUBSET Nat, S # {}
    PROVE  \E x \in S : \A y \in S : x <= y
<1> DEFINE Less == {p \in Nat \X Nat : p[1] < p[2]}
<1>1. IsWellFoundedOn(Less, Nat)
  BY NatLessThanWellFounded DEF OpToRel
<1> HIDE DEF Less
<1>2. PICK x \in S : \A y \in S : ~ (<<y, x>> \in Less)
  BY <1>1, WFMin
<1>3. \A y \in S : <<y, x>> \in Nat \X Nat
  OBVIOUS
<1>4. \A y \in S : ~ (y < x)
  BY <1>2, <1>3 DEF Less
<1> QED
  BY <1>4

\* A list is no longer than there are processes.
LEMMA ListLength ==
    ASSUME NEW S, IsFiniteSet(S), NEW q \in Seq(S), Distinct(q)
    PROVE  Cardinality(S) \in Nat /\ Len(q) <= Cardinality(S)
<1>1. IsFiniteSet(S)
  OBVIOUS
<1>2. q \in [1 .. Len(q) -> S] /\ Len(q) \in Nat /\ DOMAIN q = 1 .. Len(q)
  BY LenProperties
<1>3. q \in Injection(1 .. Len(q), S)
  BY <1>2 DEF Distinct, Injection, IsInjective
<1>4. Cardinality(1 .. Len(q)) <= Cardinality(S)
  BY <1>1, <1>3, FS_Injection
<1>5. Cardinality(1 .. Len(q)) = Len(q)
  <2>1. 1 \in Int /\ Len(q) \in Int
    BY <1>2
  <2>2. Cardinality(1 .. Len(q)) = IF 1 > Len(q) THEN 0 ELSE Len(q) - 1 + 1
    BY <2>1, FS_Interval, Zenon
  <2> QED
    BY <1>2, <2>2
<1> QED
  BY <1>1, <1>4, <1>5, FS_CardinalityType

\* A list is empty when its first pointer is null, and else begins with it.
LEMMA ListFirst ==
    ASSUME NEW S, NEW null, null \notin S,
           NEW q, NEW first, NEW next, IsList(S, null, q, first, next)
    PROVE  /\ first = null <=> q = <<>>
           /\ first # null => /\ first \in Members(q) /\ first = Head(q)
           /\ first = null => Members(q) = {}
<1>1. Len(q) \in Nat /\ (Len(q) = 0 <=> q = <<>>)
  BY LenProperties, EmptySeq DEF IsList, Distinct
<1>2. \A i \in 1 .. Len(q) : q[i] \in S /\ q[i] # null
  BY ElementOfSeq DEF IsList, Distinct
<1>3. CASE Len(q) = 0
  BY <1>1, <1>3 DEF IsList, Distinct, Members
<1>4. CASE Len(q) # 0
  <2>1. 1 \in 1 .. Len(q) /\ first = q[1]
    BY <1>1, <1>4 DEF IsList, Distinct
  <2> QED
    BY <2>1, <1>1, <1>2, <1>4 DEF Members
<1> QED
  BY <1>3, <1>4

\* The empty list.
LEMMA EmptyList ==
    ASSUME NEW S, NEW null, NEW next
    PROVE  IsList(S, null, <<>>, null, next) /\ Members(<<>>) = {}
BY EmptySeq DEF IsList, Distinct, Members

\* A process with no link is a list of one.
LEMMA ListOfOne ==
    ASSUME NEW S, NEW null, NEW p \in S, NEW next, next[p] = null
    PROVE  IsList(S, null, <<p>>, p, next) /\ Members(<<p>>) = {p} /\ <<p>> = Append(<<>>, p)
<1>1. <<p>> \in Seq(S) /\ Len(<<p>>) = 1 /\ <<p>>[1] = p
  OBVIOUS
<1> QED
  BY <1>1 DEF IsList, Distinct, Members

\* A link of a process that is not on the list is no link of the list.
LEMMA ListElsewhere ==
    ASSUME NEW S, NEW null,
           NEW q, NEW first, NEW next, IsList(S, null, q, first, next),
           NEW w, w \notin Members(q), NEW p, next \in [S -> S \cup {null}]
    PROVE  IsList(S, null, q, first, [next EXCEPT ![w] = p])
<1>1. \A i \in 1 .. Len(q) : q[i] \in S /\ q[i] # w
  BY ElementOfSeq DEF IsList, Distinct, Members
<1> QED
  BY <1>1 DEF IsList, Distinct

\* Without its first process a list is a list.
LEMMA ListTail ==
    ASSUME NEW S, NEW null, null \notin S,
           NEW q, NEW first, NEW next, IsList(S, null, q, first, next), first # null
    PROVE  /\ q # <<>>
           /\ IsList(S, null, Tail(q), next[first], next)
           /\ Members(Tail(q)) = Members(q) \ {first}
<1>1. q # <<>> /\ first = q[1] /\ q \in Seq(S)
  BY ListFirst DEF IsList, Distinct
<1>2. /\ Tail(q) \in Seq(S) /\ Len(q) \in Nat \ {0} /\ Len(Tail(q)) = Len(q) - 1
      /\ \A i \in 1 .. Len(Tail(q)) : Tail(q)[i] = q[i+1]
  BY <1>1, HeadTailProperties, EmptySeq
<1> DEFINE t == Tail(q)
<1> HIDE DEF t
<1>3. /\ t \in Seq(S) /\ Len(t) \in Nat /\ Len(t) = Len(q) - 1
      /\ \A i \in 1 .. Len(t) : t[i] = q[i+1] /\ i + 1 \in 1 .. Len(q)
  BY <1>2 DEF t
<1>4. \A i, j \in 1 .. Len(t) : t[i] = t[j] => i = j
  <2> TAKE i, j \in 1 .. Len(t)
  <2>1. t[i] = q[i+1] /\ t[j] = q[j+1] /\ i+1 \in 1 .. Len(q) /\ j+1 \in 1 .. Len(q)
    BY <1>3
  <2>2. q[i+1] = q[j+1] => i + 1 = j + 1
    BY <2>1 DEF IsList, Distinct
  <2> QED
    BY <2>1, <2>2, <1>3
<1>5. next[first] = IF Len(t) = 0 THEN null ELSE t[1]
  <2>1. 1 \in 1 .. Len(q)
    BY <1>2
  <2>2. next[q[1]] = IF 1 = Len(q) THEN null ELSE q[1+1]
    BY <2>1 DEF IsList, Distinct
  <2> QED
    BY <1>1, <1>2, <1>3, <2>2
<1>6. \A i \in 1 .. Len(t) : next[t[i]] = IF i = Len(t) THEN null ELSE t[i+1]
  <2> TAKE i \in 1 .. Len(t)
  <2>1. i + 1 \in 1 .. Len(q) /\ t[i] = q[i+1]
    BY <1>3
  <2>2. next[q[i+1]] = IF i + 1 = Len(q) THEN null ELSE q[i+2]
    BY <2>1 DEF IsList, Distinct
  <2>3. i # Len(t) => i + 1 \in 1 .. Len(t) /\ t[i+1] = q[i+2]
    BY <1>3
  <2> QED
    BY <1>3, <2>1, <2>2, <2>3
<1>7. Members(t) = Members(q) \ {first}
  <2>1. ASSUME NEW x \in Members(t) PROVE x \in Members(q) \ {first}
    <3>1. PICK i \in 1 .. Len(t) : x = t[i]
      BY DEF Members
    <3>2. x = q[i+1] /\ i + 1 \in 1 .. Len(q) /\ i + 1 # 1 /\ 1 \in 1 .. Len(q)
      BY <1>2, <1>3, <3>1
    <3> QED
      BY <3>2, <1>1 DEF IsList, Distinct, Members
  <2>2. ASSUME NEW x \in Members(q), x # first PROVE x \in Members(t)
    <3>1. PICK i \in 1 .. Len(q) : x = q[i]
      BY DEF Members
    <3>2. i - 1 \in 1 .. Len(t) /\ t[i-1] = q[i]
      BY <1>1, <1>3, <2>2, <3>1
    <3> QED
      BY <3>1, <3>2 DEF Members
  <2> QED
    BY <2>1, <2>2
<1> QED
  BY <1>1, <1>3, <1>4, <1>5, <1>6, <1>7 DEF IsList, Distinct, t

\* Linking a process behind the last of a list.
LEMMA ListAppend ==
    ASSUME NEW S, NEW null, null \notin S,
           NEW q, NEW first, NEW next, IsList(S, null, q, first, next),
           next \in [S -> S \cup {null}],
           NEW w \in Members(q), next[w] = null,
           NEW p \in S, p \notin Members(q), next[p] = null,
           NEW links, \A x \in S : links[x] = IF x = w THEN p ELSE next[x]
    PROVE  /\ IsList(S, null, Append(q, p), first, links)
           /\ Members(Append(q, p)) = Members(q) \cup {p}
<1> DEFINE a == Append(q, p)
<1>1. /\ q \in Seq(S) /\ Len(q) \in Nat
      /\ \A i \in 1 .. Len(q) : q[i] \in S /\ q[i] # null /\ q[i] # p
  BY ElementOfSeq, LenProperties DEF IsList, Distinct, Members
<1>2. /\ a \in Seq(S) /\ Len(a) = Len(q) + 1 /\ a[Len(q) + 1] = p
      /\ \A i \in 1 .. Len(q) : a[i] = q[i]
  BY <1>1, AppendProperties
<1> HIDE DEF a
<1>3. PICK k \in 1 .. Len(q) : q[k] = w
  BY DEF Members
<1>4. k = Len(q)
  <2>1. next[q[k]] = IF k = Len(q) THEN null ELSE q[k+1]
    BY DEF IsList, Distinct
  <2>2. k # Len(q) => k + 1 \in 1 .. Len(q)
    BY <1>1
  <2> QED
    BY <1>1, <1>3, <2>1, <2>2
<1>5. \A i, j \in 1 .. Len(a) : a[i] = a[j] => i = j
  <2> TAKE i, j \in 1 .. Len(a)
  <2>1. (i \in 1 .. Len(q) \/ i = Len(q) + 1) /\ (j \in 1 .. Len(q) \/ j = Len(q) + 1)
    BY <1>1, <1>2
  <2> QED
    BY <1>1, <1>2, <2>1 DEF IsList, Distinct
<1>6. first = IF Len(a) = 0 THEN null ELSE a[1]
  <2>1. Len(q) # 0 /\ 1 \in 1 .. Len(q) /\ Len(a) # 0
    BY <1>1, <1>2, <1>3
  <2> QED
    BY <1>2, <2>1 DEF IsList, Distinct
<1>7. \A i \in 1 .. Len(a) : links[a[i]] = IF i = Len(a) THEN null ELSE a[i+1]
  <2> TAKE i \in 1 .. Len(a)
  <2>1. CASE i = Len(q) + 1
    <3>1. a[i] = p /\ p # w /\ i = Len(a)
      BY <1>1, <1>2, <1>3, <2>1
    <3> QED
      BY <3>1
  <2>2. CASE i = Len(q)
    <3>1. a[i] = w /\ a[i+1] = p /\ i # Len(a)
      BY <1>1, <1>2, <1>3, <1>4, <2>2
    <3>2. w \in S
      BY <1>1, <1>3
    <3> QED
      BY <3>1, <3>2
  <2>3. CASE i \in 1 .. Len(q) /\ i # Len(q)
    <3>1. i + 1 \in 1 .. Len(q) /\ i # Len(a) /\ a[i] = q[i] /\ a[i+1] = q[i+1]
      BY <1>1, <1>2, <2>3
    <3>2. q[i] # w /\ q[i] \in S
      BY <1>1, <1>3, <1>4, <2>3 DEF IsList, Distinct
    <3>3. next[q[i]] = q[i+1]
      BY <2>3 DEF IsList, Distinct
    <3> QED
      BY <3>1, <3>2, <3>3
  <2> QED
    BY <1>1, <1>2, <2>1, <2>2, <2>3
<1>8. Members(a) = Members(q) \cup {p}
  <2>1. ASSUME NEW x \in Members(a) PROVE x \in Members(q) \cup {p}
    <3>1. PICK i \in 1 .. Len(a) : x = a[i]
      BY DEF Members
    <3>2. i \in 1 .. Len(q) \/ i = Len(q) + 1
      BY <1>1, <1>2
    <3> QED
      BY <1>2, <3>1, <3>2 DEF Members
  <2>2. ASSUME NEW x \in Members(q) PROVE x \in Members(a)
    <3>1. PICK i \in 1 .. Len(q) : x = q[i]
      BY DEF Members
    <3>2. i \in 1 .. Len(a) /\ a[i] = x
      BY <1>1, <1>2, <3>1
    <3> QED
      BY <3>2 DEF Members
  <2>3. p \in Members(a)
    <3>1. Len(q) + 1 \in 1 .. Len(a)
      BY <1>1, <1>2
    <3> QED
      BY <1>2, <3>1 DEF Members
  <2> QED
    BY <2>1, <2>2, <2>3
<1> QED
  BY <1>2, <1>5, <1>6, <1>7, <1>8 DEF IsList, Distinct, a

-----------------------------------------------------------------------------
(***************************************************************************)

\* InsertAt, element by element.
LEMMA InsertAtElements ==
    ASSUME NEW S, NEW q \in Seq(S), NEW e \in S, NEW i \in 1 .. Len(q)+1
    PROVE  /\ InsertAt(q, i, e) \in Seq(S)
           /\ Len(InsertAt(q, i, e)) = Len(q) + 1
           /\ \A j \in 1 .. Len(q)+1 :
                InsertAt(q, i, e)[j] =
                  IF j < i THEN q[j] ELSE IF j = i THEN e ELSE q[j-1]
<1> DEFINE front == SubSeq(q, 1, i-1)
           back == SubSeq(q, i, Len(q))
<1>1. /\ front \in Seq(S) /\ Len(front) = i-1
      /\ \A j \in 1 .. i-1 : front[j] = q[j]
  <2>1. \A j \in 1 .. i-1 : q[j] \in S
    BY ElementOfSeq, LenProperties
  <2> QED
    BY <2>1, SubSeqProperties, LenProperties
<1>2. /\ back \in Seq(S) /\ Len(back) = Len(q) - i + 1
      /\ \A j \in 1 .. Len(q) - i + 1 : back[j] = q[i+j-1]
  <2>1. \A j \in i .. Len(q) : q[j] \in S
    BY ElementOfSeq, LenProperties
  <2> QED
    BY <2>1, SubSeqProperties, LenProperties
<1>3. <<e>> \in Seq(S) /\ Len(<<e>>) = 1 /\ <<e>>[1] = e
  OBVIOUS
<1> HIDE DEF front, back
<1> DEFINE upto == front \o <<e>>
<1>4. /\ upto \in Seq(S) /\ Len(upto) = i
      /\ \A j \in 1 .. i : upto[j] = IF j < i THEN q[j] ELSE e
  BY <1>1, <1>3, ConcatProperties, LenProperties
<1>6. InsertAt(q, i, e) = upto \o back
  BY DEF InsertAt, front, back
<1> HIDE DEF upto
<1>5. /\ upto \o back \in Seq(S)
      /\ Len(upto \o back) = Len(q) + 1
      /\ \A j \in 1 .. Len(q)+1 : (upto \o back)[j] =
            IF j <= i THEN upto[j] ELSE back[j - i]
  <2>1. Len(upto) + Len(back) = Len(q) + 1
    BY <1>2, <1>4, LenProperties
  <2>2. upto \in Seq(S) /\ back \in Seq(S) /\ Len(upto) = i
    BY <1>2, <1>4
  <2>3. /\ upto \o back \in Seq(S)
        /\ Len(upto \o back) = Len(upto) + Len(back)
        /\ \A j \in 1 .. Len(upto) + Len(back) : (upto \o back)[j] =
              IF j <= Len(upto) THEN upto[j] ELSE back[j - Len(upto)]
    BY <2>2, ConcatProperties
  <2> QED
    BY <2>1, <2>2, <2>3
<1> QED
  BY <1>2, <1>4, <1>5, <1>6, LenProperties

\* RemoveAt, element by element.
LEMMA RemoveAtElements ==
    ASSUME NEW S, NEW q \in Seq(S), NEW i \in 1 .. Len(q)
    PROVE  /\ RemoveAt(q, i) \in Seq(S)
           /\ Len(RemoveAt(q, i)) = Len(q) - 1
           /\ \A j \in 1 .. Len(q)-1 :
                RemoveAt(q, i)[j] = IF j < i THEN q[j] ELSE q[j+1]
<1> DEFINE front == SubSeq(q, 1, i-1)
           back == SubSeq(q, i+1, Len(q))
<1>1. /\ front \in Seq(S) /\ Len(front) = i-1
      /\ \A j \in 1 .. i-1 : front[j] = q[j]
  <2>1. \A j \in 1 .. i-1 : q[j] \in S
    BY ElementOfSeq, LenProperties
  <2> QED
    BY <2>1, SubSeqProperties, LenProperties
<1>2. /\ back \in Seq(S) /\ Len(back) = Len(q) - i
      /\ \A j \in 1 .. Len(q) - i : back[j] = q[i+j]
  <2>1. \A j \in i+1 .. Len(q) : q[j] \in S
    BY ElementOfSeq, LenProperties
  <2> QED
    BY <2>1, SubSeqProperties, LenProperties
<1> HIDE DEF front, back
<1>3. /\ front \o back \in Seq(S)
      /\ Len(front \o back) = Len(q) - 1
      /\ \A j \in 1 .. Len(q)-1 : (front \o back)[j] =
            IF j <= i-1 THEN front[j] ELSE back[j - (i-1)]
  <2>1. Len(front) = i-1 /\ Len(front) + Len(back) = Len(q) - 1
    BY <1>1, <1>2, LenProperties
  <2>2. /\ front \o back \in Seq(S)
        /\ Len(front \o back) = Len(front) + Len(back)
        /\ \A j \in 1 .. Len(front) + Len(back) : (front \o back)[j] =
              IF j <= Len(front) THEN front[j] ELSE back[j - Len(front)]
    BY <1>1, <1>2, ConcatProperties
  <2> QED
    BY <2>1, <2>2
<1>4. RemoveAt(q, i) = front \o back
  BY DEF RemoveAt, front, back
<1>5. \A j \in 1 .. Len(q)-1 :
        RemoveAt(q, i)[j] = IF j < i THEN q[j] ELSE q[j+1]
  <2> SUFFICES ASSUME NEW j \in 1 .. Len(q)-1
               PROVE  (front \o back)[j] = IF j < i THEN q[j] ELSE q[j+1]
    BY <1>4
  <2>1. CASE j < i
    BY <2>1, <1>1, <1>3
  <2>2. CASE ~(j < i)
    <3>1. /\ ~(j <= i-1) /\ j - (i-1) \in 1 .. Len(q) - i
          /\ i + (j - (i-1)) = j + 1
      BY <2>2, LenProperties
    <3>2. (front \o back)[j] = back[j - (i-1)]
      BY <3>1, <1>3
    <3>3. back[j - (i-1)] = q[i + (j - (i-1))]
      BY <3>1, <1>2
    <3> QED
      BY <2>2, <3>1, <3>2, <3>3
  <2> QED
    BY <2>1, <2>2
<1> QED
  BY <1>3, <1>4, <1>5

\* Appending adds one element.
LEMMA AppendMembers ==
    ASSUME NEW S, NEW q \in Seq(S), NEW e \in S
    PROVE  Members(Append(q, e)) = Members(q) \cup {e}
<1> DEFINE a == Append(q, e)
<1>1. /\ Len(q) \in Nat /\ Len(a) = Len(q) + 1 /\ a[Len(q) + 1] = e
      /\ \A i \in 1 .. Len(q) : a[i] = q[i]
  BY AppendProperties, LenProperties
<1> HIDE DEF a
<1>2. \A i \in 1 .. Len(a) : i \in 1 .. Len(q) \/ i = Len(q) + 1
  BY <1>1
<1>3. 1 .. Len(q) \subseteq 1 .. Len(a) /\ Len(q) + 1 \in 1 .. Len(a)
  BY <1>1
<1>4. Members(a) \subseteq Members(q) \cup {e}
  BY <1>1, <1>2 DEF Members
<1>5. Members(q) \cup {e} \subseteq Members(a)
  <2>1. \A i \in 1 .. Len(q) : i \in 1 .. Len(a) /\ a[i] = q[i]
    BY <1>1, <1>3
  <2> QED
    BY <1>1, <1>3, <2>1 DEF Members
<1> QED
  BY <1>4, <1>5 DEF a

\* Removing takes one element off a list without repetitions.
LEMMA RemoveAtMembers ==
    ASSUME NEW S, NEW q \in Seq(S), Distinct(q), NEW i \in 1 .. Len(q)
    PROVE  Members(RemoveAt(q, i)) = Members(q) \ {q[i]}
<1> DEFINE r == RemoveAt(q, i)
<1>1. /\ Len(q) \in Nat /\ Len(r) = Len(q) - 1
      /\ \A j \in 1 .. Len(q)-1 : r[j] = IF j < i THEN q[j] ELSE q[j+1]
  BY RemoveAtElements, LenProperties
<1> HIDE DEF r
<1>2. ASSUME NEW x \in Members(r) PROVE x \in Members(q) \ {q[i]}
  <2>1. PICK j \in 1 .. Len(q)-1 : x = r[j]
    BY <1>1 DEF Members
  <2>2. PICK k \in 1 .. Len(q) : k # i /\ x = q[k]
    <3>1. CASE j < i
      BY <3>1, <2>1, <1>1
    <3>2. CASE ~(j < i)
      <4>1. j + 1 \in 1 .. Len(q) /\ j + 1 # i /\ x = q[j+1]
        BY <3>2, <2>1, <1>1
      <4> QED
        BY <4>1
    <3> QED
      BY <3>1, <3>2
  <2> QED
    BY <2>2 DEF Members, Distinct
<1>3. ASSUME NEW x \in Members(q), x # q[i] PROVE x \in Members(r)
  <2>1. PICK k \in 1 .. Len(q) : x = q[k]
    BY DEF Members
  <2>2. k # i
    BY <1>3, <2>1
  <2>3. CASE k < i
    <3>1. k \in 1 .. Len(r) /\ r[k] = x
      BY <1>1, <2>1, <2>3
    <3> QED
      BY <3>1 DEF Members
  <2>4. CASE k > i
    <3>1. k - 1 \in 1 .. Len(r) /\ ~(k - 1 < i) /\ r[k - 1] = q[k - 1 + 1]
      BY <1>1, <2>4
    <3>2. q[k - 1 + 1] = x
      BY <2>1
    <3> QED
      BY <3>1, <3>2 DEF Members
  <2> QED
    BY <2>2, <2>3, <2>4
<1> QED
  BY <1>2, <1>3 DEF r

\* The first of a list, and what is behind it.
LEMMA TailMembers ==
    ASSUME NEW S, NEW q \in Seq(S), q # <<>>
    PROVE  /\ Head(q) \in S /\ Tail(q) \in Seq(S) /\ Len(q) \in Nat \ {0}
           /\ Head(q) = q[1] /\ Len(Tail(q)) = Len(q) - 1
           /\ \A i \in 1 .. Len(q)-1 : Tail(q)[i] = q[i+1]
           /\ Head(q) \in Members(q)
           /\ Members(q) = Members(Tail(q)) \cup {Head(q)}
           /\ Distinct(q) => Distinct(Tail(q)) /\ Head(q) \notin Members(Tail(q))
<1> DEFINE t == Tail(q)
           h == Head(q)
<1>1. /\ h \in S /\ t \in Seq(S) /\ Len(q) \in Nat \ {0} /\ h = q[1]
      /\ Len(t) = Len(q) - 1 /\ \A i \in 1 .. Len(q)-1 : t[i] = q[i+1]
  BY HeadTailProperties, EmptySeq
<1> HIDE DEF t, h
<1>2. h \in Members(q)
  BY <1>1 DEF Members
<1>3. Members(q) \subseteq Members(t) \cup {h}
  <2> SUFFICES ASSUME NEW i \in 1 .. Len(q), i # 1 PROVE q[i] \in Members(t)
    BY <1>1 DEF Members
  <2>1. i-1 \in 1 .. Len(t) /\ i-1 \in 1 .. Len(q)-1 /\ (i-1) + 1 = i
    BY <1>1
  <2>2. t[i-1] = q[i]
    BY <1>1, <2>1
  <2> QED
    BY <2>1, <2>2 DEF Members
<1>4. Members(t) \subseteq Members(q)
  <2> SUFFICES ASSUME NEW i \in 1 .. Len(t) PROVE t[i] \in Members(q)
    BY DEF Members
  <2>1. i+1 \in 1 .. Len(q) /\ t[i] = q[i+1]
    BY <1>1
  <2> QED
    BY <2>1 DEF Members
<1>5. Distinct(q) => Distinct(t)
  BY <1>1 DEF Distinct
<1>6. Distinct(q) => h \notin Members(t)
  <2> SUFFICES ASSUME Distinct(q), NEW i \in 1 .. Len(t), t[i] = h PROVE FALSE
    BY DEF Members
  <2>1. i+1 \in 1 .. Len(q) /\ q[i+1] = q[1] /\ 1 \in 1 .. Len(q)
    BY <1>1
  <2> QED
    BY <2>1 DEF Distinct
<1> QED
  BY <1>1, <1>2, <1>3, <1>4, <1>5, <1>6 DEF t, h

\* Appending somebody who is not on the list.
LEMMA AppendDistinct ==
    ASSUME NEW S, NEW q \in Seq(S), Distinct(q), NEW e \in S, e \notin Members(q)
    PROVE  Distinct(Append(q, e))
<1> DEFINE a == Append(q, e)
<1>1. /\ Len(q) \in Nat /\ Len(a) = Len(q) + 1 /\ a[Len(q) + 1] = e
      /\ \A i \in 1 .. Len(q) : a[i] = q[i] /\ q[i] # e
  BY AppendProperties, LenProperties DEF Members
<1> HIDE DEF a
<1>2. \A i \in 1 .. Len(a) : i \in 1 .. Len(q) \/ i = Len(q) + 1
  BY <1>1
<1> QED
  BY <1>1, <1>2 DEF Distinct, a

\* Inserting somebody.
LEMMA InsertAtMembers ==
    ASSUME NEW S, NEW q \in Seq(S), NEW e \in S, NEW i \in 1 .. Len(q)+1
    PROVE  /\ Members(InsertAt(q, i, e)) = Members(q) \cup {e}
           /\ Distinct(q) /\ e \notin Members(q) => Distinct(InsertAt(q, i, e))
<1> DEFINE r == InsertAt(q, i, e)
<1>1. /\ r \in Seq(S) /\ Len(r) = Len(q) + 1 /\ Len(q) \in Nat
      /\ \A j \in 1 .. Len(q)+1 :
            r[j] = IF j < i THEN q[j] ELSE IF j = i THEN e ELSE q[j-1]
  BY InsertAtElements, LenProperties
<1> HIDE DEF r
<1>2. Members(r) \subseteq Members(q) \cup {e}
  <2> SUFFICES ASSUME NEW j \in 1 .. Len(r) PROVE r[j] \in Members(q) \cup {e}
    BY DEF Members
  <2>1. j < i => j \in 1 .. Len(q)
    BY <1>1
  <2>2. j > i => j-1 \in 1 .. Len(q)
    BY <1>1
  <2> QED
    BY <1>1, <2>1, <2>2 DEF Members
<1>3. e \in Members(r)
  BY <1>1 DEF Members
<1>4. Members(q) \subseteq Members(r)
  <2> SUFFICES ASSUME NEW j \in 1 .. Len(q) PROVE q[j] \in Members(r)
    BY DEF Members
  <2>1. CASE j < i
    BY <2>1, <1>1 DEF Members
  <2>2. CASE j >= i
    <3>1. j+1 \in 1 .. Len(r) /\ r[j+1] = q[j]
      BY <2>2, <1>1
    <3> QED
      BY <3>1 DEF Members
  <2> QED
    BY <2>1, <2>2, <1>1
<1>5. ASSUME Distinct(q), e \notin Members(q) PROVE Distinct(r)
  <2> DEFINE at(j) == IF j < i THEN j ELSE j-1
  <2>1. \A j \in 1 .. Len(r) : j # i => at(j) \in 1 .. Len(q) /\ r[j] = q[at(j)] /\ r[j] # e
    <3> SUFFICES ASSUME NEW j \in 1 .. Len(r), j # i
                 PROVE  at(j) \in 1 .. Len(q) /\ r[j] = q[at(j)] /\ r[j] # e
      OBVIOUS
    <3>1. at(j) \in 1 .. Len(q) /\ r[j] = q[at(j)]
      BY <1>1
    <3> QED
      BY <3>1, <1>5 DEF Members
  <2>2. r[i] = e /\ i \in 1 .. Len(r)
    BY <1>1
  <2>3. \A j, k \in 1 .. Len(r) : (j # i /\ k # i /\ j # k) => at(j) # at(k)
    BY <1>1
  <2> HIDE DEF at
  <2> QED
    BY <2>1, <2>2, <2>3, <1>5 DEF Distinct
<1> QED
  BY <1>2, <1>3, <1>4, <1>5 DEF r

LEMMA RemoveAtDistinct ==
    ASSUME NEW S, NEW q \in Seq(S), Distinct(q), NEW i \in 1 .. Len(q)
    PROVE  Distinct(RemoveAt(q, i))
<1> DEFINE r == RemoveAt(q, i)
           at(j) == IF j < i THEN j ELSE j+1
<1>1. /\ Len(q) \in Nat /\ Len(r) = Len(q) - 1
      /\ \A j \in 1 .. Len(q)-1 : r[j] = IF j < i THEN q[j] ELSE q[j+1]
  BY RemoveAtElements, LenProperties
<1> HIDE DEF r
<1>2. \A j \in 1 .. Len(r) : at(j) \in 1 .. Len(q) /\ r[j] = q[at(j)]
  BY <1>1
<1>3. \A j, k \in 1 .. Len(r) : j # k => at(j) # at(k)
  BY <1>1
<1> HIDE DEF at
<1> QED
  BY <1>2, <1>3 DEF Distinct, r

-----------------------------------------------------------------------------
\* Places behind place i.
LEMMA PlacesBehind ==
    ASSUME NEW n \in Nat, NEW i \in 1 .. n, NEW j \in Nat, j <= n+1, j > i+1
    PROVE  /\ j \in 1 .. n+1 /\ ~(j < i+1) /\ j # i+1 /\ j-1 \in 1 .. n /\ j-1 # i
           /\ (j-1 = n <=> j = n+1) /\ (j-1)+1 = j /\ (j+1)-1 = j
           /\ (j # n+1 => j+1 \in 1 .. n+1) /\ ~(j+1 < i+1) /\ j+1 # i+1
OBVIOUS

LEMMA PlacesFrom ==
    ASSUME NEW n \in Nat, NEW i \in 2 .. n, NEW j \in 1 .. n-1, j > i-1
    PROVE  /\ ~(j < i) /\ j+1 \in 1 .. n /\ j+1 # i-1
           /\ (j+1 = n <=> j = n-1) /\ ~(j+1 < i) /\ (j # n-1 => j+1 \in 1 .. n-1)
OBVIOUS

\* Behind its i-th process a list takes another.
LEMMA ListInsertAfter ==
    ASSUME NEW S, NEW null, null \notin S,
           NEW q, NEW first, NEW next, IsList(S, null, q, first, next),
           NEW i \in 1 .. Len(q), NEW p \in S, p \notin Members(q),
           NEW links, \A x \in S : links[x] = IF x = q[i] THEN p
                                              ELSE IF x = p THEN next[q[i]] ELSE next[x]
    PROVE  /\ IsList(S, null, InsertAt(q, i+1, p), first, links)
           /\ Members(InsertAt(q, i+1, p)) = Members(q) \cup {p}
<1> DEFINE r == InsertAt(q, i+1, p)
<1>1. /\ q \in Seq(S) /\ Distinct(q) /\ Len(q) \in Nat /\ i \in Nat /\ i+1 \in 1 .. Len(q)+1
      /\ first = q[1] /\ \A j \in 1 .. Len(q) : q[j] \in S /\ q[j] # p
  BY LenProperties, ElementOfSeq DEF IsList, Members
<1>2. /\ r \in Seq(S) /\ Len(r) = Len(q) + 1
      /\ \A j \in 1 .. Len(q)+1 : r[j] = IF j < i+1 THEN q[j] ELSE IF j = i+1 THEN p ELSE q[j-1]
  BY <1>1, InsertAtElements
<1>3. Members(r) = Members(q) \cup {p} /\ Distinct(r)
  BY <1>1, InsertAtMembers
<1> HIDE DEF r
<1>4. first = r[1] /\ Len(r) # 0
  BY <1>1, <1>2
<1>5. ASSUME NEW j \in 1 .. Len(r)
      PROVE  links[r[j]] = IF j = Len(r) THEN null ELSE r[j+1]
  <2>1. \A k \in 1 .. Len(q) : next[q[k]] = IF k = Len(q) THEN null ELSE q[k+1]
    BY DEF IsList
  <2>2. CASE j < i
    <3>1. j \in 1 .. Len(q) /\ r[j] = q[j] /\ j # Len(q) /\ j # Len(r) /\ j # i
          /\ r[j+1] = q[j+1]
      BY <1>1, <1>2, <2>2
    <3>2. q[j] # q[i]
      BY <1>1, <3>1 DEF Distinct
    <3> QED
      BY <1>1, <2>1, <3>1, <3>2
  <2>3. CASE j = i
    <3>1. r[j] = q[i] /\ r[j+1] = p /\ j # Len(r)
      BY <1>1, <1>2, <2>3
    <3> QED
      BY <1>1, <3>1
  <2>4. CASE j = i+1
    <3>1. r[j] = p /\ p # q[i] /\ (j = Len(r) <=> i = Len(q)) /\ (j # Len(r) => r[j+1] = q[i+1])
      BY <1>1, <1>2, <2>4
    <3> QED
      BY <1>1, <2>1, <3>1
  <2>5. CASE j > i+1
    <3>a. /\ j \in 1 .. Len(q)+1 /\ ~(j < i+1) /\ j # i+1 /\ j-1 \in 1 .. Len(q) /\ j-1 # i
          /\ (j-1 = Len(q) <=> j = Len(r)) /\ (j-1)+1 = j /\ (j+1)-1 = j
          /\ (j # Len(r) => j+1 \in 1 .. Len(q)+1) /\ ~(j+1 < i+1) /\ j+1 # i+1
      <4>1. j \in Nat /\ j <= Len(q)+1 /\ Len(r) = Len(q)+1
        BY <1>1, <1>2
      <4> QED
        BY <1>1, <2>5, <4>1, PlacesBehind
    <3>b. r[j] = q[j-1]
      BY <1>2, <3>a
    <3>c. j # Len(r) => r[j+1] = q[j]
      BY <1>2, <3>a
    <3>1. /\ j-1 \in 1 .. Len(q) /\ r[j] = q[j-1] /\ j-1 # i /\ (j-1 = Len(q) <=> j = Len(r))
          /\ (j # Len(r) => r[j+1] = q[j]) /\ (j-1)+1 = j
      BY <3>a, <3>b, <3>c
    <3>2. q[j-1] # q[i]
      <4>1. j-1 \in 1 .. Len(q) /\ j-1 # i
        BY <3>1
      <4> QED
        BY <1>1, <4>1 DEF Distinct
    <3> QED
      BY <1>1, <2>1, <3>1, <3>2
  <2>6. j < i \/ j = i \/ j = i+1 \/ j > i+1
    BY <1>1, <1>2
  <2> QED
    BY <2>2, <2>3, <2>4, <2>5, <2>6
<1>6. IsList(S, null, r, first, links)
  BY <1>2, <1>3, <1>4, <1>5 DEF IsList
<1> QED
  BY <1>3, <1>6 DEF r

\* A process behind the first is taken off the list when the one in front of it is linked to the
\* one behind it.
LEMMA ListRemoveAt ==
    ASSUME NEW S, NEW null, null \notin S,
           NEW q, NEW first, NEW next, IsList(S, null, q, first, next),
           NEW i \in 2 .. Len(q),
           NEW links, \A x \in S : links[x] = IF x = q[i-1] THEN next[q[i]] ELSE next[x]
    PROVE  /\ IsList(S, null, RemoveAt(q, i), first, links)
           /\ Members(RemoveAt(q, i)) = Members(q) \ {q[i]}
<1> DEFINE r == RemoveAt(q, i)
<1>1. /\ q \in Seq(S) /\ Distinct(q) /\ Len(q) \in Nat /\ i \in 1 .. Len(q) /\ i-1 \in 1 .. Len(q)
      /\ first = q[1] /\ (i-1)+1 = i /\ i \in Nat /\ \A j \in 1 .. Len(q) : q[j] \in S
  BY LenProperties, ElementOfSeq DEF IsList
<1>2. /\ r \in Seq(S) /\ Len(r) = Len(q) - 1
      /\ \A j \in 1 .. Len(q)-1 : r[j] = IF j < i THEN q[j] ELSE q[j+1]
  BY <1>1, RemoveAtElements
<1>3. Members(r) = Members(q) \ {q[i]} /\ Distinct(r)
  BY <1>1, RemoveAtMembers, RemoveAtDistinct
<1> HIDE DEF r
<1>4. first = r[1] /\ Len(r) # 0
  <2>1. 1 \in 1 .. Len(q)-1 /\ 1 < i
    BY <1>1
  <2> QED
    BY <1>1, <1>2, <2>1
<1>5. ASSUME NEW j \in 1 .. Len(r)
      PROVE  links[r[j]] = IF j = Len(r) THEN null ELSE r[j+1]
  <2>1. \A k \in 1 .. Len(q) : next[q[k]] = IF k = Len(q) THEN null ELSE q[k+1]
    BY DEF IsList
  <2>2. CASE j < i-1
    <3>1. j \in 1 .. Len(q) /\ r[j] = q[j] /\ j # Len(q) /\ j # Len(r) /\ j # i-1
          /\ r[j+1] = q[j+1]
      BY <1>1, <1>2, <2>2
    <3>2. q[j] # q[i-1]
      BY <1>1, <3>1 DEF Distinct
    <3> QED
      BY <1>1, <2>1, <3>1, <3>2
  <2>3. CASE j = i-1
    <3>1. r[j] = q[i-1] /\ (j = Len(r) <=> i = Len(q)) /\ (j # Len(r) => r[j+1] = q[i+1])
      BY <1>1, <1>2, <2>3
    <3> QED
      BY <1>1, <2>1, <3>1
  <2>4. CASE j > i-1
    <3>a. /\ j \in 1 .. Len(q)-1 /\ ~(j < i) /\ j+1 \in 1 .. Len(q) /\ j+1 # i-1
          /\ (j+1 = Len(q) <=> j = Len(r)) /\ ~(j+1 < i)
          /\ (j # Len(r) => j+1 \in 1 .. Len(q)-1)
      <4>1. j \in 1 .. Len(q)-1 /\ Len(r) = Len(q)-1
        BY <1>1, <1>2
      <4> QED
        BY <1>1, <2>4, <4>1, PlacesFrom
    <3>b. r[j] = q[j+1]
      BY <1>2, <3>a
    <3>c. j # Len(r) => r[j+1] = q[(j+1)+1]
      BY <1>2, <3>a
    <3>1. /\ j+1 \in 1 .. Len(q) /\ r[j] = q[j+1] /\ j+1 # i-1 /\ (j+1 = Len(q) <=> j = Len(r))
          /\ (j # Len(r) => r[j+1] = q[(j+1)+1])
      BY <3>a, <3>b, <3>c
    <3>2. q[j+1] # q[i-1]
      <4>1. j+1 \in 1 .. Len(q) /\ j+1 # i-1
        BY <3>1
      <4> QED
        BY <1>1, <4>1 DEF Distinct
    <3> QED
      BY <1>1, <2>1, <3>1, <3>2
  <2>5. j < i-1 \/ j = i-1 \/ j > i-1
    BY <1>1, <1>2
  <2> QED
    BY <2>2, <2>3, <2>4, <2>5
<1>6. IsList(S, null, r, first, links)
  BY <1>2, <1>3, <1>4, <1>5 DEF IsList
<1> QED
  BY <1>3, <1>6 DEF r

\* From a process of a list its link leads to another of them, or nowhere.
LEMMA NextInList ==
    ASSUME NEW S, NEW null, NEW q, NEW first, NEW next, IsList(S, null, q, first, next)
    PROVE  /\ \A x \in Members(q) : next[x] \in Members(q) \cup {null}
           /\ Len(q) > 0 => q[Len(q)] \in Members(q) /\ next[q[Len(q)]] = null
           /\ \A x, y \in Members(q) : next[x] = next[y] => x = y \/ next[x] = null
           /\ \A x \in Members(q) : next[x] # x \/ next[x] = null
<1>1. /\ Len(q) \in Nat /\ Distinct(q) /\ q \in Seq(S)
      /\ \A i \in 1 .. Len(q) : next[q[i]] = IF i = Len(q) THEN null ELSE q[i+1]
  BY LenProperties DEF IsList
<1>2. ASSUME NEW x \in Members(q) PROVE next[x] \in Members(q) \cup {null}
  <2>1. PICK i \in 1 .. Len(q) : x = q[i]
    BY DEF Members
  <2> QED
    BY <1>1, <2>1 DEF Members
<1>3. Len(q) > 0 => q[Len(q)] \in Members(q) /\ next[q[Len(q)]] = null
  <2>1. Len(q) > 0 => Len(q) \in 1 .. Len(q)
    BY <1>1
  <2> QED
    BY <1>1, <2>1 DEF Members
<1>4. ASSUME NEW x \in Members(q), NEW y \in Members(q), next[x] = next[y], next[x] # null
      PROVE  x = y
  <2>1. PICK i \in 1 .. Len(q) : x = q[i]
    BY DEF Members
  <2>2. PICK j \in 1 .. Len(q) : y = q[j]
    BY DEF Members
  <2>3. i # Len(q) /\ j # Len(q) /\ q[i+1] = q[j+1]
    BY <1>1, <1>4, <2>1, <2>2
  <2>4. i+1 \in 1 .. Len(q) /\ j+1 \in 1 .. Len(q)
    BY <1>1, <2>3
  <2>5. i+1 = j+1
    BY <1>1, <2>3, <2>4 DEF Distinct
  <2>6. i = j
    BY <2>4, <2>5, <1>1
  <2> QED
    BY <2>1, <2>2, <2>6
<1>5. ASSUME NEW x \in Members(q), next[x] = x, next[x] # null
      PROVE  FALSE
  <2>1. PICK i \in 1 .. Len(q) : x = q[i]
    BY DEF Members
  <2>2. i # Len(q) /\ q[i+1] = q[i]
    BY <1>1, <1>5, <2>1
  <2>3. i+1 \in 1 .. Len(q) /\ i+1 # i
    BY <1>1, <2>2
  <2> QED
    BY <1>1, <2>2, <2>3 DEF Distinct
<1> QED
  BY <1>2, <1>3, <1>4, <1>5
=============================================================================
