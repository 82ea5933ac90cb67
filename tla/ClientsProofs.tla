----------------------------- MODULE ClientsProofs -----------------------------
(***************************************************************************)
(* Proofs about the GUIs' connections, for every number of them, every     *)
(* form of a command whose brackets close at its end and every way in      *)
(* which recv cuts the streams: what is handed to processCommand are the   *)
(* commands that were said, whole and in their order, until a buffer is    *)
(* overrun.                                                                *)
(***************************************************************************)
EXTENDS Clients, ListFacts

\* A sequence, whatever its elements are.
IsList(s) == \E S : s \in Seq(S)

LEMMA EmptyIsList == IsList(<<>>) /\ Len(<<>>) = 0
  <1>1. <<>> \in Seq({}) /\ Len(<<>>) = 0
    BY EmptySeq
  <1> QED
    BY <1>1 DEF IsList

\* The length of a list is a number, and only that of the empty one is zero.
LEMMA ListLen ==
    ASSUME NEW s, IsList(s)
    PROVE  /\ Len(s) \in Nat /\ DOMAIN s = 1..Len(s)
           /\ s = <<>> <=> Len(s) = 0
  <1>1. PICK S : s \in Seq(S)
    BY DEF IsList
  <1> QED
    BY <1>1, LenProperties, EmptySeq

LEMMA ListAppend ==
    ASSUME NEW s, IsList(s), NEW e
    PROVE  /\ IsList(Append(s, e)) /\ Len(Append(s, e)) = Len(s) + 1
           /\ \A i \in 1..Len(s) : Append(s, e)[i] = s[i]
           /\ Append(s, e)[Len(s) + 1] = e
  <1>1. PICK S : s \in Seq(S)
    BY DEF IsList
  <1> DEFINE T == S \cup {e}
  <1>2. s \in Seq(T) /\ e \in T
    BY <1>1, SeqMonotonic
  <1> HIDE DEF T
  <1>3. /\ Append(s, e) \in Seq(T) /\ Len(Append(s, e)) = Len(s) + 1
        /\ \A i \in 1..Len(s) : Append(s, e)[i] = s[i]
        /\ Append(s, e)[Len(s) + 1] = e
    BY <1>2, AppendProperties
  <1> QED
    BY <1>3 DEF IsList

\* A list that is not empty is its head and its tail.
LEMMA ListTail ==
    ASSUME NEW s, IsList(s), s # <<>>
    PROVE  /\ Len(s) \in Nat \ {0} /\ Head(s) = s[1]
           /\ IsList(Tail(s)) /\ Len(Tail(s)) = Len(s) - 1
           /\ \A i \in 1..Len(s) - 1 : Tail(s)[i] = s[i + 1]
  <1>1. PICK S : s \in Seq(S)
    BY DEF IsList
  <1>2. /\ Tail(s) \in Seq(S) /\ Len(Tail(s)) = Len(s) - 1
        /\ \A i \in 1..Len(Tail(s)) : Tail(s)[i] = s[i + 1]
    BY <1>1, HeadTailProperties
  <1>3. Len(s) \in Nat \ {0} /\ Head(s) = s[1]
    BY <1>1, EmptySeq
  <1> QED
    BY <1>2, <1>3 DEF IsList

LEMMA ListConcat ==
    ASSUME NEW s, IsList(s), NEW t, IsList(t)
    PROVE  /\ IsList(s \o t) /\ Len(s \o t) = Len(s) + Len(t)
           /\ \A i \in 1..Len(s) + Len(t) :
                 (s \o t)[i] = IF i <= Len(s) THEN s[i] ELSE t[i - Len(s)]
           /\ <<>> \o t = t /\ s \o <<>> = s
  <1>1. PICK S : s \in Seq(S)
    BY DEF IsList
  <1>2. PICK T : t \in Seq(T)
    BY DEF IsList
  <1> DEFINE U == S \cup T
  <1>3. s \in Seq(U) /\ t \in Seq(U)
    BY <1>1, <1>2, SeqMonotonic
  <1> HIDE DEF U
  <1>4. /\ s \o t \in Seq(U) /\ Len(s \o t) = Len(s) + Len(t)
        /\ \A i \in 1..Len(s) + Len(t) :
                 (s \o t)[i] = IF i <= Len(s) THEN s[i] ELSE t[i - Len(s)]
    BY <1>3, ConcatProperties, Zenon
  <1>5. <<>> \o t = t /\ s \o <<>> = s
    BY <1>3, ConcatEmptySeq, Zenon
  <1> QED
    BY <1>4, <1>5 DEF IsList

LEMMA ListAssociative ==
    ASSUME NEW s, NEW t, NEW u, IsList(s), IsList(t), IsList(u)
    PROVE  (s \o t) \o u = s \o (t \o u)
  <1>1. PICK S : s \in Seq(S)
    BY DEF IsList
  <1>2. PICK T : t \in Seq(T)
    BY DEF IsList
  <1>3. PICK R : u \in Seq(R)
    BY DEF IsList
  <1> DEFINE U == S \cup (T \cup R)
  <1>4. s \in Seq(U) /\ t \in Seq(U) /\ u \in Seq(U)
    BY <1>1, <1>2, <1>3, SeqMonotonic
  <1> HIDE DEF U
  <1> QED
    BY <1>4, ConcatAssociative

\* The first n elements and the others.
LEMMA ListSplit ==
    ASSUME NEW s, IsList(s), NEW n \in 1..Len(s)
    PROVE  /\ IsList(SubSeq(s, 1, n)) /\ IsList(SubSeq(s, n + 1, Len(s)))
           /\ SubSeq(s, 1, n) \o SubSeq(s, n + 1, Len(s)) = s
  <1>1. PICK S : s \in Seq(S)
    BY DEF IsList
  <1>2. Len(s) \in Nat /\ \A i \in 1..Len(s) : s[i] \in S
    BY <1>1, ElementOfSeq, LenProperties
  <1>3. SubSeq(s, 1, n) \in Seq(S)
    <2>1. \A i \in 1..n : s[i] \in S
      BY <1>2
    <2> QED
      BY <2>1, SubSeqProperties
  <1>4. SubSeq(s, n + 1, Len(s)) \in Seq(S)
    <2>1. \A i \in n + 1..Len(s) : s[i] \in S
      BY <1>2
    <2>2. n + 1 \in Int /\ Len(s) \in Int
      BY <1>2
    <2> QED
      BY <2>1, <2>2, SubSeqProperties
  <1>5. SubSeq(s, 1, n) \o SubSeq(s, n + 1, Len(s)) = SubSeq(s, 1, Len(s))
    <2>1. 1 \in 1..Len(s) + 1 /\ n \in 1 - 1..Len(s) /\ Len(s) \in n..Len(s)
      BY <1>2
    <2> QED
      BY <1>1, <2>1, ConcatAdjacentSubSeq
  <1>6. SubSeq(s, 1, Len(s)) = s
    BY <1>1, SubSeqFull
  <1> QED
    BY <1>3, <1>4, <1>5, <1>6 DEF IsList

\* Two lists with the same elements are the same.
LEMMA ListEqual ==
    ASSUME NEW s, IsList(s), NEW t, IsList(t), Len(s) = Len(t),
           \A i \in 1..Len(s) : s[i] = t[i]
    PROVE  s = t
  <1>1. PICK S : s \in Seq(S)
    BY DEF IsList
  <1>2. PICK T : t \in Seq(T)
    BY DEF IsList
  <1> DEFINE U == S \cup T
  <1>3. s \in Seq(U) /\ t \in Seq(U)
    BY <1>1, <1>2, SeqMonotonic
  <1> HIDE DEF U
  <1> QED
    BY <1>3, SeqEqual, Zenon

-----------------------------------------------------------------------------
(* The bytes that wait for guiMsgRec.                                       *)

\* The open brackets behind each place of a command.
IsDepth(d) ==
    /\ d[0] = 0
    /\ \A k \in 1..CmdLen : d[k] = d[k - 1] + Brackets[k] /\ (d[k] = 0 <=> k = CmdLen)
Depth == CHOOSE d \in [0..CmdLen -> 0..CmdLen] : IsDepth(d)

LEMMA DepthIs ==
    /\ CmdLen \in Nat \ {0} /\ Depth \in [0..CmdLen -> 0..CmdLen] /\ Depth[0] = 0
    /\ \A k \in 1..CmdLen :
          Depth[k] = Depth[k - 1] + Brackets[k] /\ (Depth[k] = 0 <=> k = CmdLen)
  <1>1. CmdLen \in Nat \ {0}
    BY ClientsAssumption, BracketsClose, LenProperties
    DEF ClientsAssumption, BracketsClose, CmdLen
  <1>2. \E d \in [0..CmdLen -> 0..CmdLen] : IsDepth(d)
    BY BracketsClose, Zenon DEF BracketsClose, IsDepth
  <1>3. Depth \in [0..CmdLen -> 0..CmdLen] /\ IsDepth(Depth)
    BY <1>2, Zenon DEF Depth
  <1> QED
    BY <1>1, <1>3 DEF IsDepth

LEMMA CommandIsList ==
    ASSUME NEW c
    PROVE  /\ IsList(CommandBytes(c)) /\ Len(CommandBytes(c)) = CmdLen
           /\ \A k \in 1..CmdLen : CommandBytes(c)[k] = <<c, k>>
  <1> DEFINE S == {<<c, k>> : k \in 1..CmdLen}
  <1>1. CommandBytes(c) \in [1..CmdLen -> S] /\ CmdLen \in Nat
    BY DepthIs DEF CommandBytes
  <1>2. \A k \in 1..CmdLen : CommandBytes(c)[k] = <<c, k>>
    BY DEF CommandBytes
  <1> HIDE DEF S
  <1>3. CommandBytes(c) \in Seq(S) /\ Len(CommandBytes(c)) = CmdLen
    BY <1>1
  <1> QED
    BY <1>2, <1>3 DEF IsList

\* The bytes of n commands.
Times(n) == n * CmdLen

LEMMA TimesIs ==
    /\ Times(0) = 0
    /\ \A n \in Nat : Times(n) \in Nat /\ Times(n + 1) = Times(n) + CmdLen
  <1>1. CmdLen \in Nat
    BY DepthIs
  <1> QED
    BY <1>1 DEF Times

LEMMA TimesGrows ==
    ASSUME NEW m \in Nat, NEW n \in Nat, m < n
    PROVE  Times(m) + CmdLen <= Times(n)
  <1>1. CmdLen \in Nat
    BY DepthIs
  <1>2. PICK k \in Nat : n = m + 1 + k
    <2>1. n - m - 1 \in Nat /\ n = m + 1 + (n - m - 1)
      OBVIOUS
    <2> QED
      BY <2>1
  <1>3. (m + 1 + k) * CmdLen = m * CmdLen + CmdLen + k * CmdLen /\ k * CmdLen >= 0
    BY <1>1
  <1>4. m * CmdLen \in Nat /\ k * CmdLen \in Nat
    BY <1>1
  <1> QED
    BY <1>1, <1>2, <1>3, <1>4 DEF Times

\* A byte of a command that is not the last one of those that wait, and the
\* place where it waits.
LEMMA PlaceIs ==
    ASSUME NEW x \in Nat, NEW t \in Nat, NEW l \in Nat \ {0}, NEW j \in 1..l,
           NEW k \in 0..l - 1, x + l <= t, NEW r \in Nat, r = t - k, x + j > k
    PROVE  x + j - k \in 1..r
  OBVIOUS

\* It moves up by one when a byte is taken.
LEMMA PlaceBefore ==
    ASSUME NEW x \in Nat, NEW t \in Nat, NEW l \in Nat \ {0}, NEW j \in 1..l,
           NEW k \in 0..l - 1, x + l <= t, NEW r \in Nat, r = t - k, x + j > k + 1
    PROVE  /\ x + j - (k + 1) \in 1..r - 1
           /\ x + j - (k + 1) + 1 = x + j - k
  OBVIOUS

LEMMA PlaceInNext ==
    ASSUME NEW x \in Nat, NEW y \in Nat, NEW t \in Nat, NEW l \in Nat \ {0}, NEW j \in 1..l,
           NEW k \in 0..l - 1, k + 1 = l, y = x + l, y + l <= t,
           NEW r \in Nat, r = t - k
    PROVE  /\ x + j - 0 \in 1..r - 1
           /\ x + j - 0 + 1 = y + j - k
  OBVIOUS

\* Of the commands s, nd were handed on and k bytes of the next one collected;
\* what is left waits in rest, without a gap and in its order.
Waits(s, nd, k, rest) ==
    /\ nd \in 0..Len(s) /\ k \in 0..CmdLen - 1
    /\ Len(rest) = Times(Len(s) - nd) - k
    /\ \A n \in 1..Len(s) - nd, j \in 1..CmdLen :
          Times(n - 1) + j > k => rest[Times(n - 1) + j - k] = <<s[nd + n], j>>

LEMMA NothingWaits ==
    /\ Waits(<<>>, 0, 0, <<>>)
  <1>1. Len(<<>>) = 0 /\ CmdLen \in Nat \ {0} /\ Times(0) = 0
    BY EmptyIsList, DepthIs, TimesIs
  <1> QED
    BY <1>1 DEF Waits

\* The first byte that waits is the next one of the command in hand.
LEMMA FirstWaits ==
    ASSUME NEW s, IsList(s), NEW nd, NEW k, NEW rest, IsList(rest), rest # <<>>,
           Waits(s, nd, k, rest)
    PROVE  /\ nd \in Nat /\ nd < Len(s) /\ k \in 0..CmdLen - 1
           /\ rest[1] = <<s[nd + 1], k + 1>>
  <1>1. /\ CmdLen \in Nat \ {0} /\ Times(0) = 0 /\ Len(s) \in Nat
        /\ Len(rest) \in Nat \ {0}
    BY DepthIs, TimesIs, ListLen
  <1>2. nd \in 0..Len(s) /\ k \in 0..CmdLen - 1 /\ Len(rest) = Times(Len(s) - nd) - k
    BY DEF Waits
  <1>3. nd # Len(s)
    <2>1. SUFFICES ASSUME nd = Len(s) PROVE FALSE
      OBVIOUS
    <2>2. Len(s) - nd = 0
      BY <1>1, <2>1
    <2>3. Times(Len(s) - nd) = 0
      BY <1>1, <2>2
    <2> QED
      BY <1>1, <1>2, <2>3
  <1>4. 1 \in 1..Len(s) - nd /\ k + 1 \in 1..CmdLen /\ 1 - 1 = 0
    BY <1>1, <1>2, <1>3
  <1>5. Times(1 - 1) + (k + 1) > k => rest[Times(1 - 1) + (k + 1) - k] = <<s[nd + 1], k + 1>>
    BY <1>4 DEF Waits
  <1>6. Times(1 - 1) + (k + 1) > k /\ Times(1 - 1) + (k + 1) - k = 1
    BY <1>1, <1>2, <1>4
  <1> QED
    BY <1>1, <1>2, <1>3, <1>5, <1>6

\* A byte of a command is collected.
LEMMA ByteCollected ==
    ASSUME NEW s, IsList(s), NEW nd, NEW k, NEW rest, IsList(rest), rest # <<>>,
           Waits(s, nd, k, rest), k + 1 # CmdLen
    PROVE  Waits(s, nd, k + 1, Tail(rest))
  <1> DEFINE q == Tail(rest)
  <1>1. /\ CmdLen \in Nat \ {0} /\ Len(s) \in Nat
        /\ nd \in 0..Len(s) /\ k \in 0..CmdLen - 1 /\ Len(rest) = Times(Len(s) - nd) - k
    BY DepthIs, ListLen DEF Waits
  <1>2. /\ Len(rest) \in Nat \ {0} /\ Len(q) = Len(rest) - 1
        /\ \A i \in 1..Len(rest) - 1 : q[i] = rest[i + 1]
    BY ListTail
  <1> HIDE DEF q
  <1>a. Len(rest) \in Nat \ {0} /\ Len(q) = Len(rest) - 1
    BY <1>2
  <1>3. Times(Len(s) - nd) \in Nat
    BY <1>1, TimesIs
  <1>4. Len(q) = Times(Len(s) - nd) - (k + 1)
    BY <1>1, <1>2, <1>3
  <1>5. ASSUME NEW n \in 1..Len(s) - nd, NEW j \in 1..CmdLen, Times(n - 1) + j > k + 1
        PROVE  q[Times(n - 1) + j - (k + 1)] = <<s[nd + n], j>>
    <2>1. Times(n - 1) \in Nat /\ Times(n - 1) + CmdLen <= Times(Len(s) - nd)
      <3>1. n - 1 \in Nat /\ Len(s) - nd \in Nat /\ n - 1 < Len(s) - nd
        BY <1>1
      <3> QED
        BY <3>1, TimesIs, TimesGrows
    <2>2. rest[Times(n - 1) + j - k] = <<s[nd + n], j>>
      <3>1. Times(n - 1) + j > k
        BY <1>1, <1>5, <2>1
      <3> QED
        BY <3>1 DEF Waits
    <2> DEFINE p == Times(n - 1) + j - (k + 1)
    <2>3. p \in 1..Len(rest) - 1 /\ p + 1 = Times(n - 1) + j - k
      <3>1. /\ Times(n - 1) \in Nat /\ Times(Len(s) - nd) \in Nat /\ CmdLen \in Nat \ {0}
            /\ j \in 1..CmdLen /\ k \in 0..CmdLen - 1
        BY <1>1, <1>3, <2>1
      <3>2. /\ Times(n - 1) + CmdLen <= Times(Len(s) - nd)
            /\ Len(rest) = Times(Len(s) - nd) - k /\ Times(n - 1) + j > k + 1
        BY <1>1, <1>5, <2>1
      <3>3. Len(rest) \in Nat
        BY <1>a
      <3> QED
        BY SMTT(30), <3>1, <3>2, <3>3, PlaceBefore
    <2> HIDE DEF p
    <2>4. q[p] = <<s[nd + n], j>>
      BY <1>2, <2>2, <2>3
    <2> QED
      BY <2>4 DEF p
  <1>6. k + 1 \in 0..CmdLen - 1
    BY <1>1
  <1>7. Waits(s, nd, k + 1, q)
    BY <1>1, <1>4, <1>5, <1>6 DEF Waits
  <1> QED
    BY <1>7 DEF q

\* The last byte of a command is collected.
LEMMA CommandCollected ==
    ASSUME NEW s, IsList(s), NEW nd, NEW k, NEW rest, IsList(rest), rest # <<>>,
           Waits(s, nd, k, rest), k + 1 = CmdLen
    PROVE  Waits(s, nd + 1, 0, Tail(rest))
  <1> DEFINE q == Tail(rest)
  <1>1. /\ CmdLen \in Nat \ {0} /\ Len(s) \in Nat /\ nd \in Nat /\ nd < Len(s)
        /\ k \in 0..CmdLen - 1 /\ Len(rest) = Times(Len(s) - nd) - k
    BY DepthIs, ListLen, FirstWaits DEF Waits
  <1>2. /\ Len(rest) \in Nat \ {0} /\ Len(q) = Len(rest) - 1
        /\ \A i \in 1..Len(rest) - 1 : q[i] = rest[i + 1]
    BY ListTail
  <1> HIDE DEF q
  <1>a. Len(rest) \in Nat \ {0} /\ Len(q) = Len(rest) - 1
    BY <1>2
  <1>3. /\ Times(Len(s) - (nd + 1)) \in Nat
        /\ Times(Len(s) - nd) = Times(Len(s) - (nd + 1)) + CmdLen
    <2>1. Len(s) - (nd + 1) \in Nat /\ (Len(s) - (nd + 1)) + 1 = Len(s) - nd
      BY <1>1
    <2> QED
      BY <2>1, TimesIs
  <1>4. Len(q) = Times(Len(s) - (nd + 1)) - 0
    BY <1>1, <1>2, <1>3
  <1>5. ASSUME NEW n \in 1..Len(s) - (nd + 1), NEW j \in 1..CmdLen
        PROVE  q[Times(n - 1) + j - 0] = <<s[(nd + 1) + n], j>>
    <2>1. /\ Times(n - 1) \in Nat /\ Times(n) = Times(n - 1) + CmdLen
          /\ Times(n) + CmdLen <= Times(Len(s) - nd)
      <3>1. /\ n - 1 \in Nat /\ (n - 1) + 1 = n /\ n \in Nat /\ Len(s) - nd \in Nat
            /\ n < Len(s) - nd
        BY <1>1
      <3> QED
        BY <3>1, TimesIs, TimesGrows
    <2>2. rest[Times(n) + j - k] = <<s[nd + (n + 1)], j>>
      <3>1. n + 1 \in 1..Len(s) - nd /\ (n + 1) - 1 = n
        BY <1>1
      <3>2. Times((n + 1) - 1) + j > k
        BY <1>1, <2>1, <3>1
      <3>3. rest[Times((n + 1) - 1) + j - k] = <<s[nd + (n + 1)], j>>
        BY <3>1, <3>2 DEF Waits
      <3> QED
        BY <3>1, <3>3
    <2> DEFINE p == Times(n - 1) + j - 0
    <2>3. p \in 1..Len(rest) - 1 /\ p + 1 = Times(n) + j - k
      <3>1. /\ Times(n - 1) \in Nat /\ Times(Len(s) - nd) \in Nat /\ CmdLen \in Nat \ {0}
            /\ j \in 1..CmdLen /\ k \in 0..CmdLen - 1 /\ Times(n) \in Nat
        BY SMTT(30), <1>1, <1>3, <2>1
      <3>2. /\ Times(n) = Times(n - 1) + CmdLen /\ k + 1 = CmdLen
            /\ Times(n) + CmdLen <= Times(Len(s) - nd) /\ Len(rest) = Times(Len(s) - nd) - k
        BY <1>1, <2>1
      <3>3. Len(rest) \in Nat
        BY <1>a
      <3> DEFINE x == Times(n - 1)
                 y == Times(n)
                 t == Times(Len(s) - nd)
                 r == Len(rest)
      <3>4. /\ x \in Nat /\ t \in Nat /\ CmdLen \in Nat \ {0} /\ j \in 1..CmdLen
            /\ k \in 0..CmdLen - 1 /\ y \in Nat /\ r \in Nat
            /\ y = x + CmdLen /\ k + 1 = CmdLen /\ y + CmdLen <= t /\ r = t - k
        BY <3>1, <3>2, <3>3
      <3> HIDE DEF x, y, t, r
      <3>5. x + j - 0 \in 1..r - 1 /\ x + j - 0 + 1 = y + j - k
        BY <3>4, PlaceInNext
      <3> QED
        BY <3>5 DEF x, y, t, r
    <2>4. nd + (n + 1) = (nd + 1) + n
      BY <1>1
    <2> HIDE DEF p
    <2>5. q[p] = <<s[nd + (n + 1)], j>>
      BY <1>2, <2>2, <2>3
    <2> QED
      BY <2>4, <2>5 DEF p
  <1>6. 0 \in 0..CmdLen - 1 /\ nd + 1 \in 0..Len(s)
    BY <1>1
  <1>7. Waits(s, nd + 1, 0, q)
    BY <1>4, <1>5, <1>6 DEF Waits
  <1> QED
    BY <1>7 DEF q

\* A command is said.
LEMMA CommandSaid ==
    ASSUME NEW s, IsList(s), NEW nd, NEW k, NEW rest, IsList(rest),
           Waits(s, nd, k, rest), NEW c
    PROVE  Waits(Append(s, c), nd, k, rest \o CommandBytes(c))
  <1> DEFINE t == Append(s, c)
             b == CommandBytes(c)
             r == rest \o b
  <1>1. /\ CmdLen \in Nat \ {0} /\ Len(s) \in Nat
        /\ nd \in 0..Len(s) /\ k \in 0..CmdLen - 1 /\ Len(rest) = Times(Len(s) - nd) - k
    BY DepthIs, ListLen DEF Waits
  <1>2. Len(t) = Len(s) + 1 /\ (\A i \in 1..Len(s) : t[i] = s[i]) /\ t[Len(s) + 1] = c
    BY ListAppend
  <1>3. IsList(b) /\ Len(b) = CmdLen /\ \A j \in 1..CmdLen : b[j] = <<c, j>>
    BY CommandIsList
  <1> HIDE DEF t, b
  <1>4. /\ Len(r) = Len(rest) + Len(b)
        /\ \A i \in 1..Len(rest) + Len(b) :
                 r[i] = IF i <= Len(rest) THEN rest[i] ELSE b[i - Len(rest)]
    BY <1>3, ListConcat
  <1>5. Len(rest) \in Nat
    BY ListLen
  <1> HIDE DEF r
  <1>6. /\ Times(Len(s) - nd) \in Nat
        /\ Times(Len(t) - nd) = Times(Len(s) - nd) + CmdLen
    <2>1. Len(s) - nd \in Nat /\ (Len(s) - nd) + 1 = Len(t) - nd
      BY <1>1, <1>2
    <2> QED
      BY <2>1, TimesIs
  <1>7. Len(r) = Times(Len(t) - nd) - k
    BY <1>1, <1>3, <1>4, <1>6
  <1>8. ASSUME NEW n \in 1..Len(t) - nd, NEW j \in 1..CmdLen, Times(n - 1) + j > k
        PROVE  r[Times(n - 1) + j - k] = <<t[nd + n], j>>
    <2> DEFINE p == Times(n - 1) + j - k
    <2>1. Times(n - 1) \in Nat
      <3>1. n - 1 \in Nat
        BY <1>1, <1>2
      <3> QED
        BY <3>1, TimesIs
    <2>2. CASE n <= Len(s) - nd
      <3>1. Times(n - 1) + CmdLen <= Times(Len(s) - nd)
        <4>1. n - 1 \in Nat /\ Len(s) - nd \in Nat /\ n - 1 < Len(s) - nd
          BY <1>1, <1>2, <2>2
        <4> QED
          BY <4>1, TimesGrows
      <3>2. rest[p] = <<s[nd + n], j>>
        <4>1. n \in 1..Len(s) - nd
          BY <1>1, <1>2, <2>2
        <4> QED
          BY <1>8, <4>1 DEF Waits
      <3>3. p \in 1..Len(rest)
        BY <1>1, <1>5, <1>6, <1>8, <2>1, <3>1, PlaceIs
      <3>4. nd + n \in 1..Len(s)
        BY <1>1, <1>2, <2>2
      <3> HIDE DEF p
      <3>5. r[p] = rest[p]
        BY <1>3, <1>1, <1>4, <1>5, <3>3
      <3>6. r[p] = <<t[nd + n], j>>
        BY <1>2, <3>2, <3>4, <3>5
      <3> QED
        BY <3>6 DEF p
    <2>a. n <= Len(s) - nd \/ n = Len(s) + 1 - nd
      BY <1>1, <1>2
    <2>3. CASE n = Len(s) + 1 - nd
      <3>1. n - 1 = Len(s) - nd /\ nd + n = Len(s) + 1
        BY <1>1, <2>3
      <3>2. p = Len(rest) + j
        BY <1>1, <2>1, <3>1
      <3> HIDE DEF p
      <3>3. p \in 1..Len(rest) + Len(b) /\ ~(p <= Len(rest)) /\ p - Len(rest) = j
        BY <1>1, <1>3, <1>5, <3>2
      <3>4. r[p] = b[j]
        BY <1>4, <3>3
      <3>5. r[p] = <<t[nd + n], j>>
        BY <1>2, <1>3, <3>1, <3>4
      <3> QED
        BY <3>5 DEF p
    <2> QED
      BY <2>2, <2>3, <2>a
  <1>9. nd \in 0..Len(t) /\ k \in 0..CmdLen - 1
    BY <1>1, <1>2
  <1>10. Waits(t, nd, k, r)
    BY <1>7, <1>8, <1>9 DEF Waits
  <1> QED
    BY <1>10 DEF t, r, b

-----------------------------------------------------------------------------
(* What guiMsgRec makes of them.                                            *)

\* s was said, dn handed on, tr collected with bl brackets open, and the
\* bytes of ch and st wait: nothing is lost, twice or out of its order.
Cut(s, dn, tr, bl, ch, st) ==
    /\ IsList(s) /\ IsList(dn) /\ IsList(tr) /\ IsList(ch) /\ IsList(st)
    /\ bl = Depth[Len(tr)]
    /\ \A j \in 1..Len(tr) : tr[j] = <<s[Len(dn) + 1], j>>
    /\ \A n \in 1..Len(dn) : dn[n] = CommandBytes(s[n])
    /\ Waits(s, Len(dn), Len(tr), ch \o st)

\* A connection on which nothing was said.
LEMMA NothingCut == Cut(<<>>, <<>>, <<>>, 0, <<>>, <<>>)
  <1>1. IsList(<<>>) /\ Len(<<>>) = 0 /\ Depth[0] = 0 /\ <<>> \o <<>> = <<>>
    BY EmptyIsList, DepthIs, ListConcat
  <1> QED
    BY <1>1, NothingWaits DEF Cut

LEMMA CutSaid ==
    ASSUME NEW s, NEW dn, NEW tr, NEW bl, NEW ch, NEW st,
           Cut(s, dn, tr, bl, ch, st), NEW c
    PROVE  Cut(Append(s, c), dn, tr, bl, ch, st \o CommandBytes(c))
  <1> DEFINE t == Append(s, c)
             b == CommandBytes(c)
  <1>1. IsList(s) /\ IsList(dn) /\ IsList(tr) /\ IsList(ch) /\ IsList(st)
    BY DEF Cut
  <1>2. IsList(t) /\ Len(t) = Len(s) + 1 /\ \A i \in 1..Len(s) : t[i] = s[i]
    BY <1>1, ListAppend
  <1>3. IsList(b) /\ IsList(st \o b) /\ IsList(ch \o st)
    BY <1>1, CommandIsList, ListConcat
  <1> HIDE DEF b
  <1>4. ch \o (st \o b) = (ch \o st) \o b
    <2>1. IsList(ch) /\ IsList(st) /\ IsList(b)
      BY <1>1, <1>3
    <2>2. (ch \o st) \o b = ch \o (st \o b)
      BY <2>1, ListAssociative
    <2> QED
      BY <2>2
  <1>5. Waits(s, Len(dn), Len(tr), ch \o st)
    BY DEF Cut
  <1>6. Waits(t, Len(dn), Len(tr), ch \o (st \o b))
    BY <1>1, <1>3, <1>4, <1>5, CommandSaid DEF b
  <1>7. Len(dn) \in Nat /\ Len(tr) \in Nat /\ Len(s) \in Nat /\ Len(ch \o st) \in Nat
    BY <1>1, <1>3, ListLen
  <1>8. Len(dn) <= Len(s) /\ (Len(tr) > 0 => Len(dn) < Len(s))
    <2>1. Len(dn) \in 0..Len(s) /\ Len(ch \o st) = Times(Len(s) - Len(dn)) - Len(tr)
      BY <1>5 DEF Waits
    <2>2. Len(dn) = Len(s) => Len(s) - Len(dn) = 0
      BY <1>7
    <2>3. Len(dn) = Len(s) => Len(ch \o st) = 0 - Len(tr)
      BY <2>1, <2>2, TimesIs
    <2> QED
      BY <1>7, <2>1, <2>3
  <1> HIDE DEF t
  <1>9. \A j \in 1..Len(tr) : tr[j] = <<t[Len(dn) + 1], j>>
    <2>1. \A j \in 1..Len(tr) : tr[j] = <<s[Len(dn) + 1], j>>
      BY DEF Cut
    <2>2. Len(tr) > 0 => t[Len(dn) + 1] = s[Len(dn) + 1]
      BY <1>2, <1>7, <1>8
    <2> QED
      BY <1>7, <2>1, <2>2
  <1>10. \A n \in 1..Len(dn) : dn[n] = CommandBytes(t[n])
    <2>1. \A n \in 1..Len(dn) : dn[n] = CommandBytes(s[n])
      BY DEF Cut
    <2>2. \A n \in 1..Len(dn) : t[n] = s[n]
      BY <1>2, <1>7, <1>8
    <2> QED
      BY <2>1, <2>2
  <1>11. bl = Depth[Len(tr)]
    BY DEF Cut
  <1>12. Cut(t, dn, tr, bl, ch, st \o b)
    BY <1>1, <1>2, <1>3, <1>6, <1>9, <1>10, <1>11 DEF Cut
  <1> QED
    BY <1>12 DEF t, b

LEMMA CutRecv ==
    ASSUME NEW s, NEW dn, NEW tr, NEW bl, NEW st, NEW n \in 1..Len(st),
           Cut(s, dn, tr, bl, <<>>, st)
    PROVE  Cut(s, dn, tr, bl, SubSeq(st, 1, n), SubSeq(st, n + 1, Len(st)))
  <1>1. IsList(st) /\ <<>> \o st = st
    BY ListConcat DEF Cut
  <1>2. /\ IsList(SubSeq(st, 1, n)) /\ IsList(SubSeq(st, n + 1, Len(st)))
        /\ SubSeq(st, 1, n) \o SubSeq(st, n + 1, Len(st)) = <<>> \o st
    BY <1>1, ListSplit
  <1> QED
    BY <1>2 DEF Cut

\* The byte in front goes to the command in hand.  When it closes the last
\* bracket, that command is whole and handed on.
LEMMA CutByte ==
    ASSUME NEW s, NEW dn, NEW tr, NEW bl, NEW ch, NEW st,
           Cut(s, dn, tr, bl, ch, st), ch # <<>>
    PROVE  LET text == Append(tr, Head(ch))
               count == bl + Brackets[Head(ch)[2]]
           IN  /\ count \in Nat
               /\ count = 0 => /\ Cut(s, Append(dn, text), <<>>, count, Tail(ch), st)
                               /\ Len(dn) \in Nat /\ Len(dn) < Len(s)
                               /\ text = CommandBytes(s[Len(dn) + 1])
               /\ count # 0 => Cut(s, dn, text, count, Tail(ch), st)
  <1> DEFINE text == Append(tr, Head(ch))
             count == bl + Brackets[Head(ch)[2]]
             nd == Len(dn)
             k == Len(tr)
             rest == ch \o st
  <1>1. IsList(s) /\ IsList(dn) /\ IsList(tr) /\ IsList(ch) /\ IsList(st)
    BY DEF Cut
  <1>2. /\ Waits(s, nd, k, rest) /\ bl = Depth[k]
        /\ \A j \in 1..k : tr[j] = <<s[nd + 1], j>>
        /\ \A n \in 1..nd : dn[n] = CommandBytes(s[n])
    BY DEF Cut
  <1>3. /\ Len(ch) \in Nat \ {0} /\ Head(ch) = ch[1] /\ IsList(Tail(ch))
        /\ Len(Tail(ch)) = Len(ch) - 1
        /\ \A i \in 1..Len(ch) - 1 : Tail(ch)[i] = ch[i + 1]
    BY <1>1, ListTail
  <1>4. /\ IsList(rest) /\ Len(rest) = Len(ch) + Len(st) /\ Len(st) \in Nat
        /\ \A i \in 1..Len(ch) + Len(st) : rest[i] = IF i <= Len(ch) THEN ch[i] ELSE st[i - Len(ch)]
    BY <1>1, ListConcat, ListLen
  <1>5. rest # <<>> /\ rest[1] = Head(ch)
    BY <1>3, <1>4, EmptyIsList
  <1>6. Tail(rest) = Tail(ch) \o st
    <2> DEFINE q == Tail(rest)
               r == Tail(ch) \o st
               h == Tail(ch)
    <2>1. /\ IsList(q) /\ Len(q) = Len(rest) - 1
          /\ \A i \in 1..Len(rest) - 1 : q[i] = rest[i + 1]
      BY <1>4, <1>5, ListTail
    <2>2. /\ IsList(r) /\ Len(r) = Len(h) + Len(st)
          /\ \A i \in 1..Len(h) + Len(st) : r[i] = IF i <= Len(h) THEN h[i] ELSE st[i - Len(h)]
      BY <1>1, <1>3, ListConcat
    <2>3. Len(h) = Len(ch) - 1 /\ \A i \in 1..Len(ch) - 1 : h[i] = ch[i + 1]
      BY <1>3
    <2> HIDE DEF q, r, h, rest
    <2>4. Len(q) = Len(r)
      BY <1>3, <1>4, <2>1, <2>2, <2>3
    <2>5. ASSUME NEW i \in 1..Len(q) PROVE q[i] = r[i]
      <3>1. /\ i \in 1..Len(rest) - 1 /\ i \in 1..Len(h) + Len(st) /\ i + 1 \in 1..Len(ch) + Len(st)
            /\ (i <= Len(h) <=> i + 1 <= Len(ch)) /\ i - Len(h) = i + 1 - Len(ch)
            /\ (i <= Len(h) => i \in 1..Len(ch) - 1)
        BY <1>3, <1>4, <2>1, <2>2, <2>3, <2>4
      <3>2. q[i] = rest[i + 1] /\ r[i] = IF i <= Len(h) THEN h[i] ELSE st[i - Len(h)]
        BY <2>1, <2>2, <3>1
      <3>3. rest[i + 1] = IF i + 1 <= Len(ch) THEN ch[i + 1] ELSE st[i + 1 - Len(ch)]
        BY <1>4, <3>1
      <3> QED
        BY <2>3, <3>1, <3>2, <3>3
    <2>6. q = r
      BY <2>1, <2>2, <2>4, <2>5, ListEqual
    <2> QED
      BY <2>6 DEF q, r, h
  <1> HIDE DEF rest
  <1>7. /\ nd \in Nat /\ nd < Len(s) /\ k \in 0..CmdLen - 1
        /\ Head(ch) = <<s[nd + 1], k + 1>>
    BY <1>1, <1>2, <1>4, <1>5, FirstWaits
  <1>8. Len(tr) = k /\ IsList(text) /\ Len(text) = k + 1
        /\ \A j \in 1..k + 1 : text[j] = <<s[nd + 1], j>>
    <2>1. /\ IsList(text) /\ Len(text) = k + 1 /\ \A j \in 1..k : text[j] = tr[j]
          /\ text[k + 1] = Head(ch)
      BY <1>1, ListAppend
    <2> HIDE DEF text, k
    <2>2. \A j \in 1..k + 1 : j \in 1..k \/ j = k + 1
      BY <1>7
    <2> QED
      BY <1>2, <1>7, <2>1, <2>2 DEF k
  <1>9. /\ count = Depth[k + 1] /\ count \in Nat /\ (count = 0 <=> k + 1 = CmdLen)
        /\ CmdLen \in Nat \ {0}
    <2>1. k + 1 \in 1..CmdLen /\ k + 1 \in 0..CmdLen /\ (k + 1) - 1 = k /\ CmdLen \in Nat \ {0}
      <3>1. CmdLen \in Nat \ {0}
        BY DepthIs
      <3> QED
        BY <1>7, <3>1
    <2>2. Head(ch)[2] = k + 1
      BY <1>7
    <2>3. Depth[k + 1] = Depth[(k + 1) - 1] + Brackets[k + 1] /\ (Depth[k + 1] = 0 <=> k + 1 = CmdLen)
      BY <2>1, DepthIs
    <2>4. count = Depth[k + 1]
      BY <1>2, <2>1, <2>2, <2>3
    <2>5. Depth[k + 1] \in 0..CmdLen
      BY <2>1, DepthIs
    <2> QED
      BY <2>1, <2>3, <2>4, <2>5
  <1> HIDE DEF count, text
  <1>10. ASSUME count # 0 PROVE Cut(s, dn, text, count, Tail(ch), st)
    <2>1. Waits(s, nd, k + 1, Tail(ch) \o st)
      <3>1. k + 1 # CmdLen
        BY <1>9, <1>10
      <3>2. Waits(s, nd, k + 1, Tail(rest))
        BY <1>1, <1>2, <1>4, <1>5, <3>1, ByteCollected, Zenon
      <3> QED
        BY <1>6, <3>2
    <2> QED
      BY <1>1, <1>2, <1>3, <1>8, <1>9, <2>1 DEF Cut
  <1>11. ASSUME count = 0
         PROVE  text = CommandBytes(s[nd + 1]) /\ Cut(s, Append(dn, text), <<>>, count, Tail(ch), st)
    <2>1. Waits(s, nd + 1, 0, Tail(ch) \o st)
      <3>1. k + 1 = CmdLen
        BY <1>9, <1>11
      <3>2. Waits(s, nd + 1, 0, Tail(rest))
        BY <1>1, <1>2, <1>4, <1>5, <3>1, CommandCollected, Zenon
      <3> QED
        BY <1>6, <3>2
    <2>2. text = CommandBytes(s[nd + 1])
      <3> DEFINE b == CommandBytes(s[nd + 1])
      <3>1. IsList(b) /\ Len(b) = CmdLen /\ \A j \in 1..CmdLen : b[j] = <<s[nd + 1], j>>
        BY CommandIsList
      <3>2. k + 1 = CmdLen
        BY <1>9, <1>11
      <3> HIDE DEF b
      <3>3. text = b
        BY <1>8, <3>1, <3>2, ListEqual
      <3> QED
        BY <3>3 DEF b
    <2> DEFINE e == Append(dn, text)
    <2>3. IsList(e) /\ Len(e) = nd + 1 /\ (\A n \in 1..nd : e[n] = dn[n]) /\ e[nd + 1] = text
      BY <1>1, ListAppend
    <2> HIDE DEF e
    <2>4. \A n \in 1..Len(e) : e[n] = CommandBytes(s[n])
      <3>1. \A n \in 1..nd + 1 : n \in 1..nd \/ n = nd + 1
        BY <1>7
      <3> QED
        BY <1>2, <2>2, <2>3, <3>1
    <2>5. IsList(<<>>) /\ Len(<<>>) = 0 /\ count = Depth[0]
      BY <1>11, EmptyIsList, DepthIs
    <2>6. \A j \in 1..Len(<<>>) : <<>>[j] = <<s[Len(e) + 1], j>>
      BY <2>5
    <2>7. Waits(s, Len(e), Len(<<>>), Tail(ch) \o st)
      BY <2>1, <2>3, <2>5
    <2>8. Cut(s, e, <<>>, count, Tail(ch), st)
      BY <1>1, <1>3, <2>3, <2>4, <2>5, <2>6, <2>7, Zenon DEF Cut
    <2> QED
      BY <2>2, <2>8 DEF e
  <1> QED
    BY <1>7, <1>9, <1>10, <1>11, Zenon DEF text, count

-----------------------------------------------------------------------------
(* The steps of the connections.                                            *)

\* What happens to the connections, whatever the commands are and do.
ClientsStep ==
    \/ \E i \in Conns :
          \/ Accept(i) \/ StartRec(i) \/ StartSend(i) \/ cleanClient(i)
          \/ Leaves(i) \/ \E c : Says(i, c)
          \/ (\E n \in 1..ChunkLen : RecvChunk(i, n)) \/ ParseByte(i)
          \/ todo[i] # <<>> /\ StepDone(i) /\ UNCHANGED <<life, phase, said, left, parser, mailbox>>
          \/ guiNetworkSend(i) \/ TakeAnswer(i) \/ SendAnswer(i)
    \/ Restart

ClientsTyped ==
    /\ life \in Nat
    /\ phase \in [Conns -> {"none", "listed", "rec", "on", "zombie"}]
    /\ left \in [Conns -> BOOLEAN]
    /\ blocs \in [Conns -> Nat]
    /\ DOMAIN said = Conns /\ DOMAIN stream = Conns /\ DOMAIN chunk = Conns
    /\ DOMAIN traite = Conns /\ DOMAIN done = Conns /\ DOMAIN answers = Conns
    /\ \A i \in Conns : IsList(answers[i]) /\ Len(answers[i]) <= AnswersSize
CutInv == \A i \in Conns : Cut(said[i], done[i], traite[i], blocs[i], chunk[i], stream[i])
ClientsInv == ClientsTyped /\ CutInv

\* Before anything was said.
Fresh ==
    /\ phase = All("none") /\ said = All(<<>>) /\ left = All(FALSE)
    /\ stream = All(<<>>) /\ chunk = All(<<>>) /\ traite = All(<<>>) /\ blocs = All(0)
    /\ done = All(<<>>)

LEMMA FreshIsCut ==
    ASSUME Fresh
    PROVE  /\ CutInv
           /\ phase \in [Conns -> {"none", "listed", "rec", "on", "zombie"}]
           /\ left \in [Conns -> BOOLEAN]
           /\ blocs \in [Conns -> Nat]
           /\ DOMAIN said = Conns /\ DOMAIN stream = Conns /\ DOMAIN chunk = Conns
           /\ DOMAIN traite = Conns /\ DOMAIN done = Conns
  <1>1. CutInv
    BY NothingCut DEF Fresh, All, CutInv
  <1>2. /\ phase \in [Conns -> {"none", "listed", "rec", "on", "zombie"}]
        /\ left \in [Conns -> BOOLEAN]
    BY Zenon DEF Fresh, All
  <1>3. blocs \in [Conns -> Nat]
    BY DEF Fresh, All
  <1>4. /\ DOMAIN said = Conns /\ DOMAIN stream = Conns /\ DOMAIN chunk = Conns
        /\ DOMAIN traite = Conns /\ DOMAIN done = Conns
    BY Zenon DEF Fresh, All
  <1> QED
    BY <1>1, <1>2, <1>3, <1>4

LEMMA ClientsInitOK == ClientsInit => ClientsInv
  <1> SUFFICES ASSUME ClientsInit PROVE ClientsInv
    OBVIOUS
  <1>1. Fresh
    BY Zenon DEF ClientsInit, Fresh
  <1>2. DOMAIN answers = Conns /\ \A i \in Conns : answers[i] = <<>>
    BY Zenon DEF ClientsInit, All
  <1>3. AnswersSize \in Nat /\ IsList(<<>>) /\ Len(<<>>) = 0
    BY ClientsAssumption, EmptyIsList DEF ClientsAssumption
  <1>4. \A i \in Conns : IsList(answers[i]) /\ Len(answers[i]) <= AnswersSize
    BY <1>2, <1>3
  <1>5. life \in Nat
    BY DEF ClientsInit
  <1> QED
    BY <1>1, <1>2, <1>4, <1>5, FreshIsCut DEF ClientsInv, ClientsTyped

\* One queue of answers gets longer or shorter.
LEMMA AnswersKept ==
    ASSUME ClientsTyped, NEW i \in Conns, NEW q, IsList(q), Len(q) <= AnswersSize,
           answers' = [answers EXCEPT ![i] = q]
    PROVE  /\ DOMAIN answers' = Conns
           /\ \A j \in Conns : IsList(answers'[j]) /\ Len(answers'[j]) <= AnswersSize
  BY DEF ClientsTyped

\* The bytes of one connection change.
LEMMA OneIsCut ==
    ASSUME ClientsInv, NEW i \in Conns,
           Cut(said'[i], done'[i], traite'[i], blocs'[i], chunk'[i], stream'[i]),
           \A j \in Conns \ {i} :
              /\ said'[j] = said[j] /\ done'[j] = done[j] /\ traite'[j] = traite[j]
              /\ blocs'[j] = blocs[j] /\ chunk'[j] = chunk[j] /\ stream'[j] = stream[j]
    PROVE  CutInv'
  <1>1. ASSUME NEW j \in Conns
        PROVE  Cut(said'[j], done'[j], traite'[j], blocs'[j], chunk'[j], stream'[j])
    <2>1. CASE j = i
      BY <2>1
    <2>2. CASE j # i
      <3>1. Cut(said[j], done[j], traite[j], blocs[j], chunk[j], stream[j])
        BY DEF ClientsInv, CutInv
      <3> QED
        BY <2>2, <3>1
    <2> QED
      BY <2>1, <2>2
  <1> QED
    BY <1>1 DEF CutInv

LEMMA ClientsStepOK == ClientsInv /\ [ClientsStep]_clients => ClientsInv'
  <1> SUFFICES ASSUME ClientsInv, [ClientsStep]_clients PROVE ClientsInv'
    OBVIOUS
  <1>0. ClientsTyped /\ CutInv
    BY DEF ClientsInv
  <1>a. ASSUME UNCHANGED <<said, parser>> PROVE CutInv'
    BY <1>0, <1>a DEF parser, CutInv
  <1>b. ASSUME UNCHANGED <<life, phase, left, said, parser, answers>> PROVE ClientsInv'
    <2>1. CutInv'
      BY <1>a, <1>b
    <2> QED
      BY <1>0, <1>b, <2>1 DEF ClientsInv, ClientsTyped, parser
  <1>c. ASSUME UNCHANGED <<life, left, said, parser, answers>>,
               phase' \in [Conns -> {"none", "listed", "rec", "on", "zombie"}]
        PROVE  ClientsInv'
    <2>1. CutInv'
      BY <1>a, <1>c
    <2> QED
      BY <1>0, <1>c, <2>1 DEF ClientsInv, ClientsTyped, parser
  <1>1. ASSUME NEW i \in Conns, NEW a, NEW b \in {"none", "listed", "rec", "on", "zombie"},
               Become(i, a, b), UNCHANGED <<life, left, said, parser, answers>>
        PROVE  ClientsInv'
    <2>1. phase' \in [Conns -> {"none", "listed", "rec", "on", "zombie"}]
      BY <1>0, <1>1 DEF Become, ClientsTyped
    <2> QED
      BY <1>1, <1>c, <2>1
  <1>2. ASSUME NEW i \in Conns, Accept(i) \/ StartRec(i) \/ StartSend(i) \/ cleanClient(i)
        PROVE  ClientsInv'
    BY <1>1, <1>2 DEF Accept, StartRec, StartSend, cleanClient, mailbox
  <1>3. ASSUME NEW i \in Conns, Leaves(i) PROVE ClientsInv'
    <2>1. left' \in [Conns -> BOOLEAN]
      BY <1>0, <1>3, Zenon DEF Leaves, ClientsTyped
    <2>2. CutInv'
      BY <1>3, <1>a DEF Leaves
    <2> QED
      BY <1>0, <1>3, <2>1, <2>2 DEF Leaves, ClientsInv, ClientsTyped, parser, mailbox
  <1>4. ASSUME NEW i \in Conns, NEW c, Says(i, c) PROVE ClientsInv'
    <2>1. /\ said' = [said EXCEPT ![i] = Append(@, c)]
          /\ stream' = [stream EXCEPT ![i] = @ \o CommandBytes(c)]
          /\ UNCHANGED <<life, phase, left, chunk, traite, blocs, done, answers>>
      BY <1>4 DEF Says, mailbox
    <2>2. /\ DOMAIN said' = Conns /\ DOMAIN stream' = Conns
          /\ said'[i] = Append(said[i], c) /\ stream'[i] = stream[i] \o CommandBytes(c)
          /\ \A j \in Conns \ {i} : said'[j] = said[j] /\ stream'[j] = stream[j]
      BY <1>0, <2>1 DEF ClientsTyped
    <2>3. Cut(said[i], done[i], traite[i], blocs[i], chunk[i], stream[i])
      BY <1>0 DEF CutInv
    <2>4. Cut(said'[i], done'[i], traite'[i], blocs'[i], chunk'[i], stream'[i])
      BY <2>1, <2>2, <2>3, CutSaid
    <2>5. CutInv'
      BY <2>1, <2>2, <2>4, OneIsCut
    <2> QED
      BY <1>0, <2>1, <2>2, <2>5 DEF ClientsInv, ClientsTyped
  <1>5. ASSUME NEW i \in Conns, NEW n \in 1..ChunkLen, RecvChunk(i, n) PROVE ClientsInv'
    <2>1. /\ chunk' = [chunk EXCEPT ![i] = SubSeq(stream[i], 1, n)]
          /\ stream' = [stream EXCEPT ![i] = SubSeq(@, n + 1, Len(@))]
          /\ chunk[i] = <<>> /\ n <= Len(stream[i])
          /\ UNCHANGED <<life, phase, said, left, traite, blocs, done, answers>>
      BY <1>5 DEF RecvChunk, AtRecv, mailbox
    <2>2. /\ DOMAIN chunk' = Conns /\ DOMAIN stream' = Conns
          /\ chunk'[i] = SubSeq(stream[i], 1, n)
          /\ stream'[i] = SubSeq(stream[i], n + 1, Len(stream[i]))
          /\ \A j \in Conns \ {i} : chunk'[j] = chunk[j] /\ stream'[j] = stream[j]
      BY <1>0, <2>1 DEF ClientsTyped
    <2>3. Cut(said[i], done[i], traite[i], blocs[i], <<>>, stream[i])
      BY <1>0, <2>1 DEF CutInv
    <2>4. n \in 1..Len(stream[i])
      <3>1. Len(stream[i]) \in Nat
        BY <2>3, ListLen DEF Cut
      <3> QED
        BY <2>1, <3>1
    <2>5. Cut(said'[i], done'[i], traite'[i], blocs'[i], chunk'[i], stream'[i])
      BY <2>1, <2>2, <2>3, <2>4, CutRecv
    <2>6. CutInv'
      BY <2>1, <2>2, <2>5, OneIsCut
    <2> QED
      BY <1>0, <2>1, <2>2, <2>6 DEF ClientsInv, ClientsTyped
  <1>6. ASSUME NEW i \in Conns, ParseByte(i) PROVE ClientsInv'
    <2> DEFINE text == Append(traite[i], Head(chunk[i]))
               count == blocs[i] + Brackets[Head(chunk[i])[2]]
    <2>1. /\ chunk[i] # <<>> /\ chunk' = [chunk EXCEPT ![i] = Tail(@)]
          /\ blocs' = [blocs EXCEPT ![i] = count]
          /\ count = 0 => /\ traite' = [traite EXCEPT ![i] = <<>>]
                          /\ done' = [done EXCEPT ![i] = Append(@, text)]
          /\ count # 0 => traite' = [traite EXCEPT ![i] = text] /\ done' = done
          /\ UNCHANGED <<life, phase, said, left, stream, answers>>
      BY <1>6 DEF ParseByte, AtByte, Count, mailbox
    <2>2. Cut(said[i], done[i], traite[i], blocs[i], chunk[i], stream[i])
      BY <1>0 DEF CutInv
    <2>3. /\ count \in Nat
          /\ count = 0 => Cut(said[i], Append(done[i], text), <<>>, count, Tail(chunk[i]), stream[i])
          /\ count # 0 => Cut(said[i], done[i], text, count, Tail(chunk[i]), stream[i])
      BY <2>1, <2>2, CutByte, Zenon
    <2> HIDE DEF text, count
    <2>4. /\ DOMAIN chunk' = Conns /\ chunk'[i] = Tail(chunk[i])
          /\ blocs' \in [Conns -> Nat] /\ blocs'[i] = count
          /\ \A j \in Conns \ {i} : chunk'[j] = chunk[j] /\ blocs'[j] = blocs[j]
      BY <1>0, <2>1, <2>3 DEF ClientsTyped
    <2>5. /\ DOMAIN traite' = Conns /\ DOMAIN done' = Conns
          /\ \A j \in Conns \ {i} : traite'[j] = traite[j] /\ done'[j] = done[j]
          /\ count = 0 => traite'[i] = <<>> /\ done'[i] = Append(done[i], text)
          /\ count # 0 => traite'[i] = text /\ done'[i] = done[i]
      BY <1>0, <2>1 DEF ClientsTyped
    <2>6. Cut(said'[i], done'[i], traite'[i], blocs'[i], chunk'[i], stream'[i])
      BY <2>1, <2>3, <2>4, <2>5
    <2>7. CutInv'
      BY <2>1, <2>4, <2>5, <2>6, OneIsCut
    <2> QED
      BY <1>0, <2>1, <2>4, <2>5, <2>7 DEF ClientsInv, ClientsTyped
  <1>7. ASSUME NEW i \in Conns, NEW q, IsList(q), Len(q) <= AnswersSize,
               answers' = [answers EXCEPT ![i] = q],
               UNCHANGED <<life, phase, said, left, parser>>
        PROVE  ClientsInv'
    <2>1. /\ DOMAIN answers' = Conns
          /\ \A j \in Conns : IsList(answers'[j]) /\ Len(answers'[j]) <= AnswersSize
      BY <1>0, <1>7, AnswersKept
    <2>2. CutInv'
      BY <1>7, <1>a
    <2> QED
      BY <1>0, <1>7, <2>1, <2>2 DEF ClientsInv, ClientsTyped, parser
  <1>8. ASSUME NEW i \in Conns, guiNetworkSend(i) PROVE ClientsInv'
    <2>1. UNCHANGED <<life, phase, left, said, parser>>
      BY <1>8 DEF guiNetworkSend
    <2>2. CASE answers' = answers
      BY <1>b, <2>1, <2>2
    <2>3. CASE /\ answers' = [answers EXCEPT ![i] = Append(answers[i], Head(todo[i]))]
               /\ Len(answers[i]) < AnswersSize
      <3> DEFINE q == Append(answers[i], Head(todo[i]))
      <3>1. IsList(answers[i]) /\ Len(answers[i]) \in Nat /\ AnswersSize \in Nat
        BY <1>0, ListLen, ClientsAssumption DEF ClientsTyped, ClientsAssumption
      <3>2. IsList(q) /\ Len(q) = Len(answers[i]) + 1
        BY <3>1, ListAppend
      <3> HIDE DEF q
      <3>3. Len(q) <= AnswersSize
        BY <2>3, <3>1, <3>2
      <3> QED
        BY <1>7, <2>1, <2>3, <3>2, <3>3 DEF q
    <2> QED
      BY <1>8, <2>2, <2>3 DEF guiNetworkSend, QueueOf
  <1>9. ASSUME NEW i \in Conns, TakeAnswer(i) PROVE ClientsInv'
    <2>1. /\ answers' = [answers EXCEPT ![i] = Tail(answers[i])]
          /\ answers[i] # <<>> /\ UNCHANGED <<life, phase, said, left, parser>>
      BY <1>9 DEF TakeAnswer
    <2> DEFINE q == Tail(answers[i])
    <2>2. /\ IsList(answers[i]) /\ Len(answers[i]) \in Nat /\ AnswersSize \in Nat
          /\ Len(answers[i]) <= AnswersSize
      BY <1>0, ListLen, ClientsAssumption DEF ClientsTyped, ClientsAssumption
    <2>3. IsList(q) /\ Len(q) = Len(answers[i]) - 1
      BY <2>1, <2>2, ListTail
    <2> HIDE DEF q
    <2>4. Len(q) <= AnswersSize
      BY <2>2, <2>3
    <2> QED
      BY <1>7, <2>1, <2>3, <2>4 DEF q
  <1>10. ASSUME NEW i \in Conns, SendAnswer(i) PROVE ClientsInv'
    BY <1>10, <1>b DEF SendAnswer
  <1>11. ASSUME UNCHANGED <<life, phase, said, left, parser, mailbox>> PROVE ClientsInv'
    BY <1>11, <1>b DEF mailbox
  <1>12. CASE Restart
    <2>1. Fresh'
      BY <1>12, Zenon DEF Restart, Fresh, All
    <2>2. answers' = answers /\ life' \in Nat
      BY <1>0, <1>12 DEF Restart, ClientsTyped
    <2>3. /\ CutInv'
          /\ phase' \in [Conns -> {"none", "listed", "rec", "on", "zombie"}]
          /\ left' \in [Conns -> BOOLEAN]
          /\ blocs' \in [Conns -> Nat]
          /\ DOMAIN said' = Conns /\ DOMAIN stream' = Conns /\ DOMAIN chunk' = Conns
          /\ DOMAIN traite' = Conns /\ DOMAIN done' = Conns
      <3>1. CutInv'
        BY <2>1, NothingCut DEF Fresh, All, CutInv
      <3>2. /\ phase' \in [Conns -> {"none", "listed", "rec", "on", "zombie"}]
            /\ left' \in [Conns -> BOOLEAN]
        BY <2>1, Zenon DEF Fresh, All
      <3>3. blocs' \in [Conns -> Nat]
        BY <2>1 DEF Fresh, All
      <3>4. /\ DOMAIN said' = Conns /\ DOMAIN stream' = Conns /\ DOMAIN chunk' = Conns
            /\ DOMAIN traite' = Conns /\ DOMAIN done' = Conns
        BY <2>1, Zenon DEF Fresh, All
      <3> QED
        BY <3>1, <3>2, <3>3, <3>4
    <2> QED
      BY <1>0, <2>2, <2>3 DEF ClientsInv, ClientsTyped
  <1>13. CASE UNCHANGED clients
    BY <1>13, <1>b DEF clients, mailbox
  <1> QED
    BY <1>2, <1>3, <1>4, <1>5, <1>6, <1>8, <1>9, <1>10, <1>11, <1>12, <1>13 DEF ClientsStep

\* What was handed on are the first commands that were said, byte by byte.
LEMMA CutShows ==
    ASSUME ClientsInv, NEW i \in Conns
    PROVE  /\ Len(done[i]) \in Nat /\ Len(done[i]) <= Len(said[i])
           /\ DOMAIN done[i] = 1..Len(done[i])
           /\ \A n \in DOMAIN done[i] : done[i][n] = CommandBytes(said[i][n])
  <1>1. Cut(said[i], done[i], traite[i], blocs[i], chunk[i], stream[i])
    BY DEF ClientsInv, CutInv
  <1>2. Len(done[i]) \in Nat /\ DOMAIN done[i] = 1..Len(done[i]) /\ Len(said[i]) \in Nat
    BY <1>1, ListLen DEF Cut
  <1>3. Len(done[i]) \in 0..Len(said[i])
    BY <1>1 DEF Cut, Waits
  <1> QED
    BY <1>1, <1>2, <1>3 DEF Cut
==============================================================================
