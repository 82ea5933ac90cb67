------------------------------- MODULE ListFacts -------------------------------
(***************************************************************************)
(* What the operations on the kernels' linked lists, modelled as sequences *)
(* without repetitions, do to the set of their elements.                   *)
(***************************************************************************)
EXTENDS SequencesExt, Integers, SequenceTheorems, FiniteSetTheorems,
        WellFoundedInduction, TLAPS

\* No element is chained twice.
Once(s) == \A i, j \in 1..Len(s) : s[i] = s[j] => i = j

\* A set of numbers that is not empty has a least one.
LEMMA LeastNumber ==
    ASSUME NEW S \in SUBSET Nat, S # {}
    PROVE  \E n \in S : \A k \in S : n <= k
  <1> DEFINE R == OpToRel(<, Nat)
  <1>1. PICK n \in S : \A k \in S : <<k, n>> \notin R
    BY NatLessThanWellFounded, WFMin
  <1>2. \A k \in S : ~(k < n)
    BY <1>1 DEF OpToRel
  <1> QED
    BY <1>2

\* The first of some places of a list: none of those before it is one of them.
LEMMA FirstPlace ==
    ASSUME NEW n \in Nat, NEW B
    PROVE  \E k \in 0..n : (\A i \in 1..k : i \notin B) /\ (k < n => k + 1 \in B)
  <1> DEFINE S == {k \in 0..n : k = n \/ k + 1 \in B}
  <1>1. n \in S /\ S \in SUBSET Nat
    OBVIOUS
  <1>2. PICK k \in S : \A j \in S : k <= j
    BY <1>1, LeastNumber
  <1>3. k \in 0..n /\ (k < n => k + 1 \in B)
    OBVIOUS
  <1>4. ASSUME NEW i \in 1..k, i \in B PROVE FALSE
    <2>1. i - 1 \in 0..n /\ i - 1 + 1 = i
      BY <1>3
    <2>2. i - 1 \in S
      BY <1>4, <2>1
    <2> QED
      BY <1>2, <1>3, <2>2
  <1> QED
    BY <1>3, <1>4

\* The elements of a sequence, by their places.
LEMMA ElementsAre ==
    ASSUME NEW T, NEW s \in Seq(T)
    PROVE  /\ ToSet(s) \subseteq T
           /\ \A i \in 1..Len(s) : s[i] \in ToSet(s)
           /\ \A t \in ToSet(s) : \E i \in 1..Len(s) : s[i] = t
  BY DEF ToSet

\* t is put in front (t->next = list; list = t).
LEMMA PutInFront ==
    ASSUME NEW T, NEW s \in Seq(T), NEW t \in T
    PROVE  /\ <<t>> \o s \in Seq(T) /\ <<t>> \o s # <<>>
           /\ ToSet(<<t>> \o s) = ToSet(s) \cup {t}
           /\ Once(s) /\ t \notin ToSet(s) => Once(<<t>> \o s)
  <1> DEFINE r == <<t>> \o s
  <1>1. /\ r \in Seq(T) /\ Len(r) = Len(s) + 1 /\ r[1] = t /\ r # <<>>
        /\ \A i \in 1..Len(s) : r[i + 1] = s[i]
    OBVIOUS
  <1> HIDE DEF r
  <1>2. \A i \in 1..Len(r) : i = 1 \/ (i - 1 \in 1..Len(s) /\ r[i] = s[i - 1])
    BY <1>1
  <1>a. ToSet(r) \subseteq ToSet(s) \cup {t}
    <2> SUFFICES ASSUME NEW x \in ToSet(r) PROVE x \in ToSet(s) \cup {t}
      OBVIOUS
    <2>1. PICK i \in 1..Len(r) : r[i] = x
      BY <1>1, ElementsAre
    <2> QED
      BY <1>1, <1>2, <2>1, ElementsAre
  <1>b. ToSet(s) \cup {t} \subseteq ToSet(r)
    <2>1. t \in ToSet(r)
      BY <1>1, ElementsAre
    <2>2. \A i \in 1..Len(s) : i + 1 \in 1..Len(r)
      BY <1>1
    <2> SUFFICES ASSUME NEW x \in ToSet(s) PROVE x \in ToSet(r)
      BY <2>1
    <2>3. PICK i \in 1..Len(s) : s[i] = x
      BY ElementsAre
    <2> QED
      BY <1>1, <2>2, <2>3, ElementsAre
  <1>4. Once(s) /\ t \notin ToSet(s) => Once(r)
    <2> SUFFICES ASSUME Once(s), t \notin ToSet(s), NEW i \in 1..Len(r), NEW j \in 1..Len(r),
                        r[i] = r[j]
                 PROVE  i = j
      BY DEF Once
    <2>1. \A k \in 1..Len(s) : s[k] # t
      BY ElementsAre
    <2>2. CASE i = 1
      BY <1>1, <1>2, <2>1, <2>2
    <2>3. CASE j = 1
      BY <1>1, <1>2, <2>1, <2>3
    <2>4. CASE i # 1 /\ j # 1
      <3>1. /\ i - 1 \in 1..Len(s) /\ j - 1 \in 1..Len(s)
            /\ s[i - 1] = s[j - 1]
        BY <1>2, <2>4
      <3>2. i - 1 = j - 1
        BY <3>1 DEF Once
      <3> QED
        BY <1>1, <3>2
    <2> QED
      BY <2>2, <2>3, <2>4
  <1> QED
    BY <1>1, <1>a, <1>b, <1>4 DEF r

\* The first element is taken away.
LEMMA FirstIsTaken ==
    ASSUME NEW T, NEW s \in Seq(T), s # <<>>
    PROVE  /\ Head(s) \in ToSet(s) /\ Tail(s) \in Seq(T)
           /\ ToSet(s) = ToSet(Tail(s)) \cup {Head(s)}
           /\ Once(s) => Once(Tail(s)) /\ Head(s) \notin ToSet(Tail(s))
  <1> DEFINE r == Tail(s)
             h == Head(s)
  <1>1. /\ r \in Seq(T) /\ Len(r) = Len(s) - 1 /\ Len(s) \in Nat \ {0} /\ h = s[1] /\ h \in T
        /\ \A i \in 1..Len(r) : r[i] = s[i + 1]
    OBVIOUS
  <1>2. s = <<h>> \o r
    OBVIOUS
  <1> HIDE DEF r, h
  <1>3. ToSet(s) = ToSet(r) \cup {h}
    BY <1>1, <1>2, PutInFront
  <1>4. Once(s) => Once(r)
    <2>1. \A i \in 1..Len(r) : i + 1 \in 1..Len(s)
      BY <1>1
    <2> QED
      BY <1>1, <2>1 DEF Once
  <1>5. ASSUME Once(s) PROVE h \notin ToSet(r)
    <2> SUFFICES ASSUME h \in ToSet(r) PROVE FALSE
      OBVIOUS
    <2>1. PICK i \in 1..Len(r) : r[i] = h
      BY SMTT(30), <1>1, ElementsAre
    <2> QED
      BY <1>1, <1>5, <2>1 DEF Once
  <1> QED
    BY <1>1, <1>3, <1>4, <1>5 DEF r, h

\* A list that is not empty is its first element and the others.
LEMMA FirstAndRest ==
    ASSUME NEW T, NEW s \in Seq(T), s # <<>>
    PROVE  SubSeq(s, 1, 1) = <<Head(s)>> /\ SubSeq(s, 2, Len(s)) = Tail(s)
  <1>1. Len(s) \in Nat /\ Len(s) >= 1 /\ Head(s) = s[1] /\ s[1] \in T
    OBVIOUS
  <1>2. SubSeq(s, 1, 1) = <<s[1]>>
    <2>1. SubSeq(s, 1, 1) = <<s[1]>> \o SubSeq(s, 1 + 1, 1)
      BY <1>1, SubSeqRecursiveFirst
    <2>2. SubSeq(s, 1 + 1, 1) = <<>>
      BY <1>1, SubSeqEmpty
    <2>3. <<s[1]>> \o <<>> = <<s[1]>>
      BY <1>1
    <2> QED
      BY <2>1, <2>2, <2>3, Zenon
  <1>3. SubSeq(s, 2, Len(s)) = Tail(s)
    BY <1>1
  <1> QED
    BY <1>1, <1>2, <1>3

\* One list is put before another one.
LEMMA ListsJoined ==
    ASSUME NEW T, NEW s \in Seq(T), NEW r \in Seq(T)
    PROVE  /\ s \o r \in Seq(T)
           /\ ToSet(s \o r) = ToSet(s) \cup ToSet(r)
           /\ Once(s) /\ Once(r) /\ ToSet(s) \cap ToSet(r) = {} => Once(s \o r)
           /\ Once(s \o r) => Once(s) /\ Once(r) /\ ToSet(s) \cap ToSet(r) = {}
  <1> DEFINE u == s \o r
             n == Len(s)
             m == Len(r)
  <1>1. /\ u \in Seq(T) /\ Len(u) = n + m /\ n \in Nat /\ m \in Nat
        /\ \A i \in 1..n : u[i] = s[i]
        /\ \A i \in 1..m : u[n + i] = r[i]
    OBVIOUS
  <1> HIDE DEF u
  <1>2. \A i \in 1..n : i \in 1..Len(u)
    BY <1>1
  <1>3. \A i \in 1..m : n + i \in 1..Len(u)
    BY <1>1
  <1>4. \A i \in 1..Len(u) : i \in 1..n \/ (i - n \in 1..m /\ u[i] = r[i - n])
    BY <1>1
  <1> HIDE DEF n, m
  <1>5. ToSet(u) \subseteq ToSet(s) \cup ToSet(r)
    <2> SUFFICES ASSUME NEW x \in ToSet(u) PROVE x \in ToSet(s) \cup ToSet(r)
      OBVIOUS
    <2>1. PICK i \in 1..Len(u) : u[i] = x
      BY <1>1, ElementsAre
    <2>2. CASE i \in 1..n
      BY <1>1, <2>1, <2>2, ElementsAre DEF n
    <2>3. CASE i - n \in 1..m /\ u[i] = r[i - n]
      BY <1>1, <2>1, <2>3, ElementsAre DEF m
    <2> QED
      BY <1>4, <2>2, <2>3
  <1>6. ToSet(s) \subseteq ToSet(u)
    <2> SUFFICES ASSUME NEW x \in ToSet(s) PROVE x \in ToSet(u)
      OBVIOUS
    <2>1. PICK i \in 1..n : s[i] = x
      BY ElementsAre DEF n
    <2> QED
      BY <1>1, <1>2, <2>1, ElementsAre
  <1>7. ToSet(r) \subseteq ToSet(u)
    <2> SUFFICES ASSUME NEW x \in ToSet(r) PROVE x \in ToSet(u)
      OBVIOUS
    <2>1. PICK i \in 1..m : r[i] = x
      BY ElementsAre DEF m
    <2> QED
      BY <1>1, <1>3, <2>1, ElementsAre
  <1>8. ASSUME Once(s), Once(r), ToSet(s) \cap ToSet(r) = {} PROVE Once(u)
    <2> SUFFICES ASSUME NEW i \in 1..Len(u), NEW j \in 1..Len(u), u[i] = u[j] PROVE i = j
      BY DEF Once
    <2>1. \A k \in 1..n, l \in 1..m : s[k] # r[l]
      BY <1>8, ElementsAre DEF n, m
    <2>2. \A k, l \in 1..n : s[k] = s[l] => k = l
      BY <1>8 DEF Once, n
    <2>3. \A k, l \in 1..m : r[k] = r[l] => k = l
      BY <1>8 DEF Once, m
    <2>4. CASE i \in 1..n /\ j \in 1..n
      BY <1>1, <2>2, <2>4
    <2>5. CASE i \notin 1..n /\ j \notin 1..n
      <3>1. i - n \in 1..m /\ j - n \in 1..m /\ r[i - n] = r[j - n]
        BY <1>4, <2>5
      <3>2. i - n = j - n
        BY <2>3, <3>1
      <3> QED
        BY <1>1, <3>2
    <2>6. CASE i \in 1..n /\ j \notin 1..n
      BY <1>1, <1>4, <2>1, <2>6
    <2>7. CASE i \notin 1..n /\ j \in 1..n
      BY <1>1, <1>4, <2>1, <2>7
    <2> QED
      BY <2>4, <2>5, <2>6, <2>7
  <1>9. ASSUME Once(u) PROVE Once(s) /\ Once(r) /\ ToSet(s) \cap ToSet(r) = {}
    <2>1. Once(s)
      BY <1>1, <1>2, <1>9 DEF Once, n
    <2>2. Once(r)
      <3> SUFFICES ASSUME NEW i \in 1..m, NEW j \in 1..m, r[i] = r[j] PROVE i = j
        BY DEF Once, m
      <3>1. n + i = n + j
        BY <1>1, <1>3, <1>9 DEF Once
      <3> QED
        BY <1>1, <3>1
    <2>3. ASSUME NEW x \in ToSet(s) \cap ToSet(r) PROVE FALSE
      <3>1. PICK i \in 1..n : s[i] = x
        BY ElementsAre DEF n
      <3>2. PICK j \in 1..m : r[j] = x
        BY ElementsAre DEF m
      <3>3. i = n + j
        BY <1>1, <1>2, <1>3, <1>9, <3>1, <3>2 DEF Once
      <3> QED
        BY <1>1, <3>3
    <2> QED
      BY <2>1, <2>2, <2>3
  <1> QED
    BY <1>1, <1>5, <1>6, <1>7, <1>8, <1>9 DEF u

\* Where an element that is there is found first.
LEMMA FoundAt ==
    ASSUME NEW T, NEW s \in Seq(T), NEW t \in ToSet(s)
    PROVE  LET i == SelectInSeq(s, LAMBDA v : v = t) IN i \in 1..Len(s) /\ s[i] = t
  <1> DEFINE I == {i \in 1..Len(s) : s[i] = t}
  <1>1. I # {} /\ I \in SUBSET Nat
    BY ElementsAre
  <1>2. \E n \in I : \A k \in I : n <= k
    BY <1>1, LeastNumber
  <1>3. Min(I) \in I
    BY <1>2 DEF Min
  <1>4. SelectInSeq(s, LAMBDA v : v = t) = Min(I)
    BY <1>1 DEF SelectInSeq
  <1> QED
    BY <1>3, <1>4

\* A list is what is before a place and what is from there on.
LEMMA ListCut ==
    ASSUME NEW T, NEW s \in Seq(T), NEW k \in 0..Len(s)
    PROVE  /\ SubSeq(s, 1, k) \in Seq(T) /\ SubSeq(s, k + 1, Len(s)) \in Seq(T)
           /\ Len(SubSeq(s, 1, k)) = k
           /\ ToSet(s) = ToSet(SubSeq(s, 1, k)) \cup ToSet(SubSeq(s, k + 1, Len(s)))
           /\ Once(s) => /\ Once(SubSeq(s, 1, k)) /\ Once(SubSeq(s, k + 1, Len(s)))
                         /\ ToSet(SubSeq(s, 1, k)) \cap ToSet(SubSeq(s, k + 1, Len(s))) = {}
  <1> DEFINE u == SubSeq(s, 1, k)
             v == SubSeq(s, k + 1, Len(s))
  <1>1. u \in Seq(T) /\ v \in Seq(T) /\ Len(u) = k
    OBVIOUS
  <1>2. s = u \o v
    <2>1. 1 \in 1..Len(s) + 1 /\ k \in 1 - 1..Len(s) /\ Len(s) \in k..Len(s)
      OBVIOUS
    <2>2. u \o v = SubSeq(s, 1, Len(s))
      BY <2>1, ConcatAdjacentSubSeq
    <2> QED
      BY <2>2, SubSeqFull
  <1> HIDE DEF u, v
  <1>3. ToSet(s) = ToSet(u) \cup ToSet(v)
    BY <1>1, <1>2, ListsJoined
  <1>4. Once(s) => Once(u) /\ Once(v) /\ ToSet(u) \cap ToSet(v) = {}
    BY <1>1, <1>2, ListsJoined
  <1> QED
    BY <1>1, <1>3, <1>4 DEF u, v

\* An element is put behind the first k.
LEMMA PutBehind ==
    ASSUME NEW T, NEW s \in Seq(T), NEW k \in 0..Len(s), NEW t \in T
    PROVE  /\ InsertAt(s, k + 1, t) \in Seq(T)
           /\ ToSet(InsertAt(s, k + 1, t)) = ToSet(s) \cup {t}
           /\ Once(s) /\ t \notin ToSet(s) => Once(InsertAt(s, k + 1, t))
  <1> DEFINE u == SubSeq(s, 1, k)
             v == SubSeq(s, k + 1, Len(s))
             w == <<t>> \o v
  <1>1. InsertAt(s, k + 1, t) = u \o w
    <2>1. k + 1 - 1 = k
      OBVIOUS
    <2>2. u \in Seq(T) /\ v \in Seq(T) /\ <<t>> \in Seq(T)
      BY ListCut
    <2>3. InsertAt(s, k + 1, t) = u \o <<t>> \o v
      <3>1. PICK j : j = k + 1
        OBVIOUS
      <3>2. InsertAt(s, j, t) = SubSeq(s, 1, j - 1) \o <<t>> \o SubSeq(s, j, Len(s))
        BY DEF InsertAt
      <3>3. j - 1 = k
        BY <3>1
      <3> QED
        BY <3>1, <3>2, <3>3, Zenon
    <2> HIDE DEF u, v
    <2>4. (u \o <<t>>) \o v = u \o (<<t>> \o v)
      BY <2>2, ConcatAssociative
    <2> QED
      BY <2>3, <2>4 DEF w
  <1>2. /\ u \in Seq(T) /\ v \in Seq(T) /\ ToSet(s) = ToSet(u) \cup ToSet(v)
        /\ Once(s) => Once(u) /\ Once(v) /\ ToSet(u) \cap ToSet(v) = {}
    BY ListCut
  <1> HIDE DEF u, v
  <1>3. /\ w \in Seq(T) /\ ToSet(w) = ToSet(v) \cup {t}
        /\ Once(v) /\ t \notin ToSet(v) => Once(w)
    BY <1>2, PutInFront
  <1> HIDE DEF w
  <1>4. /\ u \o w \in Seq(T) /\ ToSet(u \o w) = ToSet(u) \cup ToSet(w)
        /\ Once(u) /\ Once(w) /\ ToSet(u) \cap ToSet(w) = {} => Once(u \o w)
    BY <1>2, <1>3, ListsJoined
  <1> QED
    BY <1>1, <1>2, <1>3, <1>4

\* An element is unlinked.
LEMMA ElementUnlinked ==
    ASSUME NEW T, NEW s \in Seq(T), NEW t, Once(s)
    PROVE  /\ RemoveFirst(s, t) \in Seq(T) /\ Once(RemoveFirst(s, t))
           /\ ToSet(RemoveFirst(s, t)) = ToSet(s) \ {t}
  <1>1. CASE t \notin ToSet(s)
    <2>1. ~\E i \in 1..Len(s) : s[i] = t
      BY <1>1, ElementsAre
    <2>2. RemoveFirst(s, t) = s
      BY <2>1 DEF RemoveFirst
    <2> QED
      BY <1>1, <2>2
  <1>2. CASE t \in ToSet(s)
    <2>1. PICK i : i = SelectInSeq(s, LAMBDA v : v = t)
      OBVIOUS
    <2>2. i \in 1..Len(s) /\ s[i] = t
      BY <1>2, <2>1, FoundAt
    <2> DEFINE u == SubSeq(s, 1, i - 1)
               v == SubSeq(s, i, Len(s))
               w == SubSeq(s, i + 1, Len(s))
    <2>3. i - 1 \in 0..Len(s) /\ i - 1 + 1 = i
      BY <2>2
    <2>4. /\ u \in Seq(T) /\ v \in Seq(T) /\ ToSet(s) = ToSet(u) \cup ToSet(v)
          /\ Once(u) /\ Once(v) /\ ToSet(u) \cap ToSet(v) = {}
      BY <2>3, ListCut
    <2>5. v # <<>> /\ Head(v) = t /\ Tail(v) = w
      <3>1. Len(s) \in i..Len(s)
        BY <2>2
      <3>2. Head(v) = s[i] /\ Tail(v) = w
        BY <2>2, <3>1, HeadTailOfSubSeq
      <3>3. Len(v) = Len(s) - i + 1
        BY <2>2
      <3>4. v # <<>>
        <4> SUFFICES ASSUME v = <<>> PROVE FALSE
          OBVIOUS
        <4>1. Len(v) = 0
          OBVIOUS
        <4> QED
          BY <2>2, <3>3, <4>1
      <3> QED
        BY <2>2, <3>2, <3>4
    <2>6. RemoveFirst(s, t) = u \o w
      <3>1. \E j \in 1..Len(s) : s[j] = t
        BY <2>2
      <3> QED
        BY <3>1, <2>1 DEF RemoveFirst, RemoveAt
    <2> HIDE DEF u, v, w
    <2>7. w \in Seq(T) /\ Once(w) /\ t \notin ToSet(w) /\ ToSet(v) = ToSet(w) \cup {t}
      BY <2>4, <2>5, FirstIsTaken
    <2>8. /\ u \o w \in Seq(T) /\ ToSet(u \o w) = ToSet(u) \cup ToSet(w)
          /\ Once(u \o w)
      BY <2>4, <2>7, ListsJoined
    <2> QED
      BY <2>4, <2>6, <2>7, <2>8
  <1> QED
    BY <1>1, <1>2

\* A list is turned round.
LEMMA Reversed ==
    ASSUME NEW T, NEW s \in Seq(T)
    PROVE  /\ Reverse(s) \in Seq(T) /\ ToSet(Reverse(s)) = ToSet(s)
           /\ Once(s) => Once(Reverse(s))
  <1> DEFINE r == Reverse(s)
             n == Len(s)
  <1>1. \A i \in 1..n : n - i + 1 \in 1..n /\ n - (n - i + 1) + 1 = i
    OBVIOUS
  <1>2. /\ r \in Seq(T) /\ Len(r) = n
        /\ \A i \in 1..n : r[i] = s[n - i + 1]
    BY <1>1 DEF Reverse
  <1> HIDE DEF r
  <1>3. ToSet(r) \subseteq ToSet(s)
    BY <1>1, <1>2, ElementsAre
  <1>4. ToSet(s) \subseteq ToSet(r)
    <2> SUFFICES ASSUME NEW x \in ToSet(s) PROVE x \in ToSet(r)
      OBVIOUS
    <2>1. PICK i \in 1..n : s[i] = x
      BY ElementsAre
    <2>2. r[n - i + 1] = x /\ n - i + 1 \in 1..Len(r)
      BY <1>1, <1>2, <2>1
    <2> QED
      BY <1>2, <2>2, ElementsAre
  <1>5. ASSUME Once(s) PROVE Once(r)
    <2> SUFFICES ASSUME NEW i \in 1..n, NEW j \in 1..n, r[i] = r[j] PROVE i = j
      BY <1>2 DEF Once
    <2>1. n - i + 1 = n - j + 1
      BY <1>1, <1>2, <1>5 DEF Once
    <2> QED
      BY <2>1
  <1> QED
    BY <1>2, <1>3, <1>4, <1>5 DEF r

\* A set all of whose elements are equal has at most one.
LEMMA AtMostOne ==
    ASSUME NEW P, \A x, y \in P : x = y
    PROVE  Cardinality(P) = IF P = {} THEN 0 ELSE 1
  <1>1. CASE P = {}
    BY <1>1, FS_EmptySet
  <1>2. CASE P # {}
    <2>1. PICK x \in P : TRUE
      BY <1>2
    <2>2. P = {x}
      BY <2>1
    <2> QED
      BY <1>2, <2>2, FS_Singleton
  <1> QED
    BY <1>1, <1>2
==============================================================================
