------------------------------ MODULE Ordo3Proofs ------------------------------
(***************************************************************************)
(* Proofs about kernel 3.0, for any threads, semaphores and queues: in the *)
(* runs of OrderedSpec the state keeps its types, the ready threads form   *)
(* one ring, every thread is in one place, the processor is on the stack   *)
(* of the current thread, no wake-up is lost, and each death is announced  *)
(* and reaped once.                                                        *)
(***************************************************************************)
EXTENDS Ordo3, ListFacts, FiniteSetTheorems

(***************************************************************************)
(* The inductive invariant.  scheduler() goes through several states in    *)
(* one step, so its parts are about values of the variables: the threads M *)
(* of the ring, the sleepers sl, the stores st, the places p of the        *)
(* stacks, the queues m they receive from and what they have got, g.       *)
(***************************************************************************)

\* r is a ring, chained both ways, and who goes round from c meets all of it.
Loop(r, c) ==
    /\ r \in R!Rings /\ R!Chained(r) /\ c \in R!Members(r)
    /\ \A S \in SUBSET R!Members(r) :
          c \in S /\ (\A d \in S : r.next[d] \in S) => S = R!Members(r)

Lives == {"user", "start", "woken", "unlink", "reap", "clear"}
Line(st, s) == ToSet(st[s].waiting)
Lines(st) == UNION {Line(st, s) : s \in AllSems}

\* No thread is in two places, or twice in one, and those that live are in one.
\* Sleepers and those that wait for a semaphore go on behind their call, those
\* that wait for a queue in the middle of it.
PlacesGood(M, sl, st, p, m) ==
    /\ Once(sl) /\ \A s \in AllSems : Once(st[s].waiting)
    /\ \A s, t \in AllSems : s # t => Line(st, s) \cap Line(st, t) = {}
    /\ M \cap ToSet(sl) = {} /\ M \cap Lines(st) = {} /\ ToSet(sl) \cap Lines(st) = {}
    /\ \A c \in Ctx : p[c] \in Lives <=> c \in M \cup ToSet(sl) \cup Lines(st)
    /\ \A c \in ToSet(sl) : p[c] = "user"
    /\ \A s \in Sems : \A c \in Line(st, s) : p[c] = "user"
    /\ \A q \in AllQueues : \A c \in Line(st, q) : p[c] = "woken" /\ m[c] = q

\* The receivers of q that were woken and have not unlinked their message.
Rec(st, p, m, q) == {t \in Ctx : p[t] \in {"woken", "unlink"} /\ m[t] = q /\ t \notin Line(st, q)}

CoinsGood(st, p, m) ==
    /\ st[WaitMq].alive /\ \A s \in AllSems : ~st[s].alive => st[s] = Deleted
    /\ \A s \in AllSems : st[s].counter > 0 => st[s].waiting = <<>>
    /\ \A q \in AllQueues : Len(st[q].messages) = st[q].counter + Cardinality(Rec(st, p, m, q))
    /\ \A t \in Ctx : p[t] \in {"woken", "unlink"} => m[t] \in AllQueues

\* A dead thread is announced, or one wait() knows of it; the one that wait()
\* has freed is in no list any more.
DeadGood(id, p, g) ==
    /\ id \in Seq(Ctx) /\ Once(id) /\ \A c \in ToSet(id) : p[c] = "dead"
    /\ \A t \in Ctx : p[t] = "reap" => g[t] \in Ctx /\ g[t] \notin ToSet(id) /\ p[g[t]] = "dead"
    /\ \A t, u \in Ctx : p[t] = "reap" /\ p[u] = "reap" /\ g[t] = g[u] => t = u
    /\ \A c \in Ctx : p[c] = "dead" => c \in ToSet(id) \/ \E t \in Ctx : p[t] = "reap" /\ g[t] = c
    /\ \A t \in Ctx : p[t] = "clear" => g[t] \in Ctx /\ p[g[t]] = "freed"
    /\ \A c \in Ctx : p[c] = "freed" => \E t \in Ctx : p[t] = "clear" /\ g[t] = c

\* Every thread but the one on the processor brings its own stack back.
StacksGood(sv, p, c) == \A t \in Ctx \ {c} : p[t] \in Lives => sv[t] = t

\* idle() is always ready; with the kill flags z, nobody is killed who is
\* receiving.
IdleGood(M, p, z) ==
    /\ Idle \in M /\ p[Idle] \in {"start", "user"} /\ ~z[Idle]
    /\ \A t \in Ctx : z[t] => p[t] \notin {"woken", "unlink", "reap", "clear"}

Cells == [alive : BOOLEAN, counter : Nat, waiting : Seq(Ctx), messages : Seq(Data \cup Ctx)]
Stores == [AllSems -> Cells]
Steps == {"none", "start", "user", "woken", "unlink", "reap", "clear", "dead", "freed"}
Typed(M, sl, st, p, m, g) ==
    /\ M \subseteq Ctx /\ sl \in Seq(Ctx) /\ st \in Stores /\ p \in [Ctx -> Steps]
    /\ m \in [Ctx -> AllQueues \cup {NULL}] /\ g \in [Ctx -> Data \cup Ctx \cup {NULL}]

\* What each call keeps, wherever in it the lists are looked at.
Good(M, sl, st, p, m, g) ==
    /\ Typed(M, sl, st, p, m, g) /\ PlacesGood(M, sl, st, p, m)
    /\ CoinsGood(st, p, m) /\ DeadGood(st[WaitMq].messages, p, g)

RingInv ==
    /\ Loop(R!Repaired(ring, current), current)
    /\ yielding \/ current = Idle => R!Chained(ring)

\* What the timer may not interrupt is done by the current thread, which has
\* read the first message when it unlinks it.
BusyInv ==
    /\ run = current /\ pc[current] # "start"
    /\ \A t \in Ctx : pc[t] \in {"unlink", "clear"} => t = current /\ ~yielding
    /\ pc[current] = "unlink" =>
          /\ store[mq[current]].messages # <<>>
          /\ got[current] = Head(store[mq[current]].messages)

Mem == R!Members(ring)
IInv ==
    /\ TypeOK /\ RingInv /\ BusyInv /\ SleepersSorted
    /\ Good(Mem, sleeping, store, pc, mq, got)
    /\ StacksGood(saved, pc, current) /\ IdleGood(Mem, pc, zombi)

-----------------------------------------------------------------------------
(* The ring.                                                                *)

LEMMA NullIsNone == NULL \notin Ctx /\ NULL \notin AllQueues
  BY Ordo3Assumption DEF AllQueues

\* What the pointers of a chained ring are.
LEMMA PointersAre ==
    ASSUME NEW r \in R!Rings, R!Chained(r), NEW c \in R!Members(r)
    PROVE  /\ c \in Ctx /\ r.next[c] \in R!Members(r) /\ r.last[c] \in R!Members(r)
           /\ r.next[r.last[c]] = c /\ r.last[r.next[c]] = c
  <1>1. c \in Ctx /\ r.next[c] \in Ctx /\ r.last[c] \in Ctx
    BY NullIsNone DEF R!Rings, R!Members, R!Chained
  <1>2. r.next[r.last[c]] = c /\ r.last[r.next[c]] = c
    BY <1>1, NullIsNone DEF R!Members, R!Chained
  <1>3. r.next[c] \in R!Members(r) /\ r.last[c] \in R!Members(r)
    BY <1>1, <1>2, NullIsNone DEF R!Members, R!Chained
  <1> QED
    BY <1>1, <1>2, <1>3

\* Who goes round from the next thread meets everybody too.
LEMMA NextGoesRound ==
    ASSUME NEW r, NEW c, Loop(r, c)
    PROVE  Loop(r, r.next[c])
  <1>1. r \in R!Rings /\ R!Chained(r) /\ c \in R!Members(r)
    BY DEF Loop
  <1>2. r.next[c] \in R!Members(r) /\ r.last[c] \in R!Members(r) /\ r.next[r.last[c]] = c
    BY <1>1, PointersAre
  <1>3. ASSUME NEW S \in SUBSET R!Members(r), r.next[c] \in S, \A d \in S : r.next[d] \in S
        PROVE  S = R!Members(r)
    <2>1. S \cup {c} = R!Members(r)
      <3>1. S \cup {c} \in SUBSET R!Members(r) /\ c \in S \cup {c}
        BY <1>1
      <3>2. \A d \in S \cup {c} : r.next[d] \in S \cup {c}
        BY <1>3
      <3> QED
        BY <3>1, <3>2 DEF Loop
    <2>2. c \in S
      BY <1>2, <1>3, <2>1
    <2> QED
      BY <2>1, <2>2
  <1> QED
    BY <1>1, <1>2, <1>3 DEF Loop

\* A thread that is chained behind c has its turn after c.
LEMMA RingGrows ==
    ASSUME NEW r, NEW c, Loop(r, c), NEW new \in Ctx \ R!Members(r)
    PROVE  /\ Loop(R!InsertAfter(r, c, new), c)
           /\ R!Members(R!InsertAfter(r, c, new)) = R!Members(r) \cup {new}
  <1> DEFINE r2 == R!InsertAfter(r, c, new)
             n == r.next[c]
  <1>1. r \in R!Rings /\ R!Chained(r) /\ c \in R!Members(r) /\ c \in Ctx
    BY DEF Loop, R!Members
  <1>2. n \in R!Members(r) /\ r.last[n] = c /\ n \in Ctx /\ n # NULL /\ new # c /\ new # n /\ new # NULL
    BY <1>1, PointersAre, NullIsNone DEF R!Members
  <1>3. /\ r2 \in R!Rings
        /\ \A d \in Ctx : r2.next[d] = IF d = c THEN new ELSE IF d = new THEN n ELSE r.next[d]
        /\ \A d \in Ctx : r2.last[d] = IF d = new THEN c ELSE IF d = n THEN new ELSE r.last[d]
    BY <1>1, <1>2 DEF R!InsertAfter, R!Rings
  <1>4. r.next[new] = NULL /\ r.last[new] = NULL
    BY <1>1 DEF R!Members, R!Chained
  <1> HIDE DEF r2, n
  <1>5. R!Members(r2) = R!Members(r) \cup {new}
    BY <1>1, <1>2, <1>3 DEF R!Members
  <1>6. R!Chained(r2)
    <2> SUFFICES ASSUME NEW d \in Ctx
                 PROVE  /\ r2.next[d] = NULL <=> r2.last[d] = NULL
                        /\ r2.next[d] # NULL => /\ r2.next[r2.last[d]] = d
                                                /\ r2.last[r2.next[d]] = d
      BY DEF R!Chained
    <2>1. CASE d \notin R!Members(r) /\ d # new
      BY <1>1, <1>2, <1>3, <2>1 DEF R!Members, R!Chained
    <2>2. CASE d = new
      <3>1. r2.next[new] = n /\ r2.last[new] = c /\ r2.next[c] = new /\ r2.last[n] = new
        BY <1>1, <1>2, <1>3
      <3> QED
        BY <1>1, <1>2, <2>2, <3>1, NullIsNone
    <2>3. CASE d \in R!Members(r) /\ d # new
      <3>1. /\ r.next[d] \in R!Members(r) /\ r.last[d] \in R!Members(r)
            /\ r.next[r.last[d]] = d /\ r.last[r.next[d]] = d /\ r.next[d] # NULL
            /\ r.last[d] # NULL /\ r.next[d] \in Ctx /\ r.last[d] \in Ctx
            /\ r.next[d] # new /\ r.last[d] # new
        BY <1>1, <2>3, PointersAre, NullIsNone DEF R!Members
      <3>2. d # c => r.next[d] # n
        BY <1>2, <3>1
      <3>3. d # n => r.last[d] # c
        BY <3>1 DEF n
      <3> QED
        BY <1>1, <1>2, <1>3, <2>3, <3>1, <3>2, <3>3
    <2> QED
      BY <2>1, <2>2, <2>3
  <1>7. ASSUME NEW S \in SUBSET R!Members(r2), c \in S, \A d \in S : r2.next[d] \in S
        PROVE  S = R!Members(r2)
    <2>1. new \in S /\ n \in S
      BY <1>1, <1>2, <1>3, <1>7
    <2>2. S \ {new} \in SUBSET R!Members(r) /\ c \in S \ {new}
      BY <1>2, <1>5, <1>7
    <2>3. \A d \in S \ {new} : r.next[d] \in S \ {new}
      <3> SUFFICES ASSUME NEW d \in S \ {new} PROVE r.next[d] \in S \ {new}
        OBVIOUS
      <3>1. d \in R!Members(r) /\ d \in Ctx /\ r.next[d] \in R!Members(r)
        BY <1>1, <2>2, PointersAre
      <3>2. r.next[d] # new
        BY <3>1
      <3>3. CASE d = c
        BY <1>2, <2>1, <3>3 DEF n
      <3>4. CASE d # c
        BY <1>3, <1>7, <3>1, <3>2, <3>4
      <3> QED
        BY <3>3, <3>4
    <2>4. S \ {new} = R!Members(r)
      BY <2>2, <2>3 DEF Loop
    <2> QED
      BY <1>5, <2>1, <2>4
  <1>8. c \in R!Members(r2)
    BY <1>1, <1>5
  <1>9. Loop(r2, c)
    BY <1>3, <1>6, <1>7, <1>8 DEF Loop
  <1> QED
    BY <1>5, <1>9 DEF r2

\* A thread that leaves hands the turn to its successor.
LEMMA RingShrinks ==
    ASSUME NEW r, NEW c, Loop(r, c), NEW other \in R!Members(r) \ {c}
    PROVE  /\ Loop(R!Remove(r, c), r.next[c])
           /\ R!Members(R!Remove(r, c)) = R!Members(r) \ {c}
           /\ r.next[c] \in R!Members(r) \ {c} /\ r.next[c] \in Ctx
  <1> DEFINE r2 == R!Remove(r, c)
             n == r.next[c]
             l == r.last[c]
  <1>1. r \in R!Rings /\ R!Chained(r) /\ c \in R!Members(r) /\ c \in Ctx
    BY DEF Loop, R!Members
  <1>2. /\ n \in R!Members(r) /\ r.last[n] = c /\ n \in Ctx /\ n # NULL
        /\ l \in R!Members(r) /\ r.next[l] = c /\ l \in Ctx /\ l # NULL
    BY <1>1, PointersAre, NullIsNone DEF R!Members
  <1>3. n # c
    <2> SUFFICES ASSUME n = c PROVE FALSE
      OBVIOUS
    <2>1. {c} = R!Members(r)
      BY <1>1 DEF Loop
    <2> QED
      BY <2>1
  <1>4. l # c
    BY <1>1, <1>2, <1>3, PointersAre
  <1>5. /\ r2 \in R!Rings
        /\ \A d \in Ctx : r2.next[d] = IF d = c THEN NULL ELSE IF d = l THEN n ELSE r.next[d]
        /\ \A d \in Ctx : r2.last[d] = IF d = c THEN NULL ELSE IF d = n THEN l ELSE r.last[d]
    BY <1>1, <1>2, <1>3, <1>4 DEF R!Remove, R!Rings
  <1> HIDE DEF r2, n, l
  <1>6. R!Members(r2) = R!Members(r) \ {c}
    BY <1>1, <1>2, <1>5 DEF R!Members
  <1>7. R!Chained(r2)
    <2> SUFFICES ASSUME NEW d \in Ctx
                 PROVE  /\ r2.next[d] = NULL <=> r2.last[d] = NULL
                        /\ r2.next[d] # NULL => /\ r2.next[r2.last[d]] = d
                                                /\ r2.last[r2.next[d]] = d
      BY DEF R!Chained
    <2>1. CASE d \notin R!Members(r) \/ d = c
      BY <1>1, <1>2, <1>5, <2>1 DEF R!Members, R!Chained
    <2>2. CASE d \in R!Members(r) /\ d # c
      <3>1. /\ r.next[d] \in R!Members(r) /\ r.last[d] \in R!Members(r)
            /\ r.next[r.last[d]] = d /\ r.last[r.next[d]] = d /\ r.next[d] # NULL
            /\ r.last[d] # NULL /\ r.next[d] \in Ctx /\ r.last[d] \in Ctx
        BY <1>1, <2>2, PointersAre, NullIsNone DEF R!Members
      <3>2. (d # l => r.next[d] # c) /\ (d # n => r.last[d] # c)
        BY <3>1 DEF n, l
      <3>3. (d # l => r.next[d] # n) /\ (d # n => r.last[d] # l)
        BY <1>2, <2>2, <3>1
      <3>4. r2.next[d] = IF d = l THEN n ELSE r.next[d]
        BY <1>5, <2>2
      <3>5. r2.last[d] = IF d = n THEN l ELSE r.last[d]
        BY <1>5, <2>2
      <3>6. r2.last[r2.next[d]] = d
        BY <1>2, <1>3, <1>5, <3>1, <3>2, <3>3, <3>4
      <3>7. r2.next[r2.last[d]] = d
        BY <1>2, <1>4, <1>5, <3>1, <3>2, <3>3, <3>5
      <3> QED
        BY <1>2, <3>1, <3>4, <3>5, <3>6, <3>7
    <2> QED
      BY <2>1, <2>2
  <1>8. ASSUME NEW S \in SUBSET R!Members(r2), n \in S, \A d \in S : r2.next[d] \in S
        PROVE  S = R!Members(r2)
    <2>1. S \cup {c} \in SUBSET R!Members(r) /\ c \in S \cup {c} /\ c \notin S
      BY <1>1, <1>6, <1>8
    <2>2. \A d \in S \cup {c} : r.next[d] \in S \cup {c}
      <3> SUFFICES ASSUME NEW d \in S \cup {c} PROVE r.next[d] \in S \cup {c}
        OBVIOUS
      <3>1. CASE d = c
        BY <1>8, <3>1 DEF n
      <3>2. CASE d = l
        BY <1>2, <3>2
      <3>3. CASE d # c /\ d # l
        <4>1. d \in S /\ d \in Ctx
          BY <1>6, <3>3 DEF R!Members
        <4>2. r2.next[d] = r.next[d]
          BY <1>5, <3>3, <4>1
        <4> QED
          BY <1>8, <4>1, <4>2
      <3> QED
        BY <3>1, <3>2, <3>3
    <2>3. S \cup {c} = R!Members(r)
      BY <2>1, <2>2 DEF Loop
    <2> QED
      BY <1>6, <2>1, <2>3
  <1>9. n \in R!Members(r2)
    BY <1>2, <1>3, <1>6
  <1>10. Loop(r2, n)
    BY <1>5, <1>7, <1>8, <1>9 DEF Loop
  <1> QED
    BY <1>2, <1>3, <1>6, <1>10 DEF r2, n

(***************************************************************************)
(* Between a wake-up and the next call that repairs it, the back link of   *)
(* the successor of c is wrong: nothing but that call reads it.            *)
(***************************************************************************)
Ring1(r, c) == r \in R!Rings /\ c \in Ctx /\ Loop(R!Repaired(r, c), c)

LEMMA RepairedIs ==
    ASSUME NEW r, NEW c, Ring1(r, c)
    PROVE  /\ R!Repaired(r, c) \in R!Rings /\ R!Repaired(r, c).next = r.next
           /\ R!Repaired(r, c).last = [r.last EXCEPT ![r.next[c]] = c]
           /\ R!Members(R!Repaired(r, c)) = R!Members(r)
           /\ c \in R!Members(r) /\ c \in Ctx /\ r.next[c] \in R!Members(r) /\ r.next[c] \in Ctx
  <1> DEFINE s == R!Repaired(r, c)
  <1>1. s.next = r.next /\ s.last = [r.last EXCEPT ![r.next[c]] = c]
    BY DEF R!Repaired, R!Rings, Ring1
  <1>2. R!Members(s) = R!Members(r)
    BY <1>1 DEF R!Members
  <1>3. s \in R!Rings /\ R!Chained(s) /\ c \in R!Members(s)
    BY DEF Ring1, Loop
  <1>4. s.next[c] \in R!Members(s) /\ c \in Ctx
    BY <1>3, PointersAre
  <1>5. s.next[c] \in Ctx
    BY <1>4 DEF R!Members
  <1> QED
    BY <1>1, <1>2, <1>3, <1>4, <1>5

LEMMA LoopIsRepaired ==
    ASSUME NEW r, NEW c, Loop(r, c)
    PROVE  Ring1(r, c) /\ R!Repaired(r, c) = r
  <1>1. r \in R!Rings /\ c \in Ctx /\ r.next[c] \in Ctx /\ r.last[r.next[c]] = c
    BY PointersAre DEF Loop, R!Members
  <1>2. r.last = [r.last EXCEPT ![r.next[c]] = c]
    BY <1>1 DEF R!Rings
  <1>3. R!Repaired(r, c) = r
    BY <1>1, <1>2 DEF R!Repaired, R!Rings
  <1> QED
    BY <1>1, <1>3 DEF Ring1

\* Chained again, the ring is what it was said to be.
LEMMA ChainedIsLoop ==
    ASSUME NEW r, NEW c, Ring1(r, c), R!Chained(r)
    PROVE  Loop(r, c)
  <1>1. r \in R!Rings /\ c \in R!Members(r) /\ c \in Ctx /\ r.next[c] \in Ctx
    BY RepairedIs DEF Ring1
  <1>2. r.last[r.next[c]] = c
    BY <1>1, PointersAre
  <1>3. r.last = [r.last EXCEPT ![r.next[c]] = c]
    BY <1>1, <1>2 DEF R!Rings
  <1>4. R!Repaired(r, c) = r
    BY <1>1, <1>3 DEF R!Repaired, R!Rings
  <1> QED
    BY <1>4 DEF Ring1

LEMMA WokenIsChained ==
    ASSUME NEW r, NEW c, Ring1(r, c), NEW new \in Ctx \ R!Members(r)
    PROVE  /\ Ring1(R!WakeAfter(r, c, new), c)
           /\ R!Members(R!WakeAfter(r, c, new)) = R!Members(r) \cup {new}
  <1> DEFINE s == R!Repaired(r, c)
             w == R!WakeAfter(r, c, new)
  <1>1. /\ s \in R!Rings /\ s.next = r.next /\ s.last = [r.last EXCEPT ![r.next[c]] = c]
        /\ R!Members(s) = R!Members(r) /\ c \in Ctx /\ r.next[c] \in Ctx /\ c \in R!Members(r)
        /\ r.next[c] \in R!Members(r) /\ r \in R!Rings
    BY RepairedIs DEF Ring1
  <1>2. Loop(s, c)
    BY DEF Ring1
  <1>3. /\ Loop(R!InsertAfter(s, c, new), c)
        /\ R!Members(R!InsertAfter(s, c, new)) = R!Members(s) \cup {new}
    BY <1>1, <1>2, RingGrows
  <1>4. /\ w.next = [r.next EXCEPT ![new] = r.next[c], ![c] = new] /\ w.next[c] = new
        /\ w.last = [r.last EXCEPT ![new] = r.last[c], ![r.next[c]] = new]
        /\ w \in R!Rings
    BY <1>1 DEF R!WakeAfter, R!Rings
  <1>5. /\ R!Repaired(w, c).next = w.next
        /\ R!Repaired(w, c).last = [w.last EXCEPT ![new] = c]
    BY <1>4 DEF R!Repaired, R!Rings
  <1>6. new # c /\ new # r.next[c]
    BY <1>1
  <1>7. [w.last EXCEPT ![new] = c] = [s.last EXCEPT ![s.next[c]] = new, ![new] = c]
    <2>1. /\ [w.last EXCEPT ![new] = c] = [d \in Ctx |-> IF d = new THEN c
                                              ELSE IF d = r.next[c] THEN new ELSE r.last[d]]
      BY <1>1, <1>4, <1>6 DEF R!Rings
    <2>2. [s.last EXCEPT ![s.next[c]] = new, ![new] = c] =
             [d \in Ctx |-> IF d = new THEN c ELSE IF d = r.next[c] THEN new ELSE r.last[d]]
      BY <1>1, <1>6 DEF R!Rings
    <2> QED
      BY <2>1, <2>2
  <1> HIDE DEF s, w
  <1>8. R!Repaired(w, c) = R!InsertAfter(s, c, new)
    <2>1. R!InsertAfter(s, c, new) = [next |-> w.next, last |-> [w.last EXCEPT ![new] = c]]
      BY <1>1, <1>4, <1>7 DEF R!InsertAfter
    <2>2. R!Repaired(w, c) = [next |-> w.next, last |-> [w.last EXCEPT ![new] = c]]
      BY <1>4, <1>5 DEF R!Repaired, R!Rings
    <2> QED
      BY <2>1, <2>2
  <1>9. Ring1(w, c)
    BY <1>1, <1>3, <1>4, <1>8 DEF Ring1
  <1>10. R!Members(w) = R!Members(r) \cup {new}
    BY <1>1, <1>3, <1>8, <1>9, RepairedIs
  <1> QED
    BY <1>9, <1>10 DEF w

LEMMA InsertedIsChained ==
    ASSUME NEW r, NEW c, Ring1(r, c), NEW new \in Ctx \ R!Members(r)
    PROVE  /\ Loop(R!InsertAfter(r, c, new), c)
           /\ R!Members(R!InsertAfter(r, c, new)) = R!Members(r) \cup {new}
  <1> DEFINE s == R!Repaired(r, c)
  <1>1. /\ s \in R!Rings /\ s.next = r.next /\ s.last = [r.last EXCEPT ![r.next[c]] = c]
        /\ R!Members(s) = R!Members(r) /\ c \in Ctx /\ r.next[c] \in Ctx /\ r \in R!Rings
    BY RepairedIs DEF Ring1
  <1>2. /\ Loop(R!InsertAfter(s, c, new), c)
        /\ R!Members(R!InsertAfter(s, c, new)) = R!Members(s) \cup {new}
    BY <1>1, RingGrows DEF Ring1
  <1>3. [s.last EXCEPT ![r.next[c]] = new, ![new] = c]
           = [r.last EXCEPT ![r.next[c]] = new, ![new] = c]
    BY <1>1 DEF R!Rings
  <1> HIDE DEF s
  <1>4. R!InsertAfter(s, c, new) = R!InsertAfter(r, c, new)
    BY <1>1, <1>3 DEF R!InsertAfter
  <1> QED
    BY <1>1, <1>2, <1>4

LEMMA LeaverIsUnchained ==
    ASSUME NEW r, NEW c, Ring1(r, c), NEW other \in R!Members(r) \ {c}
    PROVE  /\ Loop(R!Remove(r, c), r.next[c])
           /\ R!Members(R!Remove(r, c)) = R!Members(r) \ {c}
           /\ r.next[c] \in R!Members(r) \ {c} /\ r.next[c] \in Ctx
  <1> DEFINE s == R!Repaired(r, c)
  <1>1. /\ s \in R!Rings /\ s.next = r.next /\ s.last = [r.last EXCEPT ![r.next[c]] = c]
        /\ R!Members(s) = R!Members(r) /\ c \in Ctx /\ r.next[c] \in Ctx /\ r \in R!Rings
    BY RepairedIs DEF Ring1
  <1>2. /\ Loop(R!Remove(s, c), s.next[c])
        /\ R!Members(R!Remove(s, c)) = R!Members(s) \ {c}
        /\ s.next[c] \in R!Members(s) \ {c} /\ s.next[c] \in Ctx
    BY <1>1, RingShrinks DEF Ring1
  <1>3. s.last[c] = r.last[c] /\ r.next[c] # c
    BY <1>1, <1>2 DEF R!Rings
  <1>4. [s.last EXCEPT ![r.next[c]] = r.last[c], ![c] = NULL]
           = [r.last EXCEPT ![r.next[c]] = r.last[c], ![c] = NULL]
    BY <1>1, <1>3 DEF R!Rings
  <1> HIDE DEF s
  <1>5. R!Remove(s, c) = R!Remove(r, c)
    BY <1>1, <1>3, <1>4 DEF R!Remove
  <1> QED
    BY <1>1, <1>2, <1>5

-----------------------------------------------------------------------------
(* Stores.                                                                  *)

LEMMA QueuesAre == WaitMq \in AllQueues /\ AllQueues \subseteq AllSems /\ Sems \subseteq AllSems
                   /\ Sems \cap AllQueues = {} /\ AllSems = Sems \cup AllQueues
  BY Ordo3Assumption DEF AllQueues, AllSems

\* sem_give changes the semaphore only.
LEMMA GivenIs ==
    ASSUME NEW st \in Stores, NEW s \in AllSems
    PROVE  /\ Give(st, s) \in Stores
           /\ \A t \in AllSems : t # s => Give(st, s)[t] = st[t]
           /\ Give(st, s)[s].alive = st[s].alive /\ Give(st, s)[s].messages = st[s].messages
           /\ st[s].waiting = <<>> => /\ Give(st, s)[s].counter = st[s].counter + 1
                                      /\ Give(st, s)[s].waiting = <<>>
           /\ st[s].waiting # <<>> => /\ Give(st, s)[s].counter = st[s].counter
                                      /\ Give(st, s)[s].waiting = Tail(st[s].waiting)
  <1>0. st[s] \in Cells
    BY DEF Stores
  <1>1. st[s].waiting \in Seq(Ctx) /\ st[s].counter \in Nat
    BY <1>0 DEF Cells
  <1>2. CASE st[s].waiting = <<>>
    <2>1. Give(st, s) = [st EXCEPT ![s] = [st[s] EXCEPT !.counter = st[s].counter + 1]]
      BY <1>2 DEF Give, Stores
    <2>2. [st[s] EXCEPT !.counter = st[s].counter + 1] \in Cells
      BY <1>0, <1>1 DEF Cells
    <2> QED
      BY <1>0, <1>1, <1>2, <2>1, <2>2 DEF Stores, Cells
  <1>3. CASE st[s].waiting # <<>>
    <2>1. Give(st, s) = [st EXCEPT ![s] = [st[s] EXCEPT !.waiting = Tail(st[s].waiting)]]
      BY <1>3 DEF Give, Stores
    <2>2. Tail(st[s].waiting) \in Seq(Ctx)
      BY <1>1, <1>3
    <2>3. [st[s] EXCEPT !.waiting = Tail(st[s].waiting)] \in Cells
      BY <1>0, <2>2 DEF Cells
    <2> QED
      BY <1>0, <1>1, <1>3, <2>1, <2>3 DEF Stores, Cells
  <1> QED
    BY <1>2, <1>3

\* send_message changes the queue only.
LEMMA SentIs ==
    ASSUME NEW st \in Stores, NEW q \in AllQueues, NEW d \in Data \cup Ctx
    PROVE  /\ Send(st, q, d) \in Stores
           /\ \A t \in AllSems : t # q => Send(st, q, d)[t] = st[t]
           /\ Send(st, q, d)[q].alive = st[q].alive
           /\ Send(st, q, d)[q].messages = Append(st[q].messages, d)
           /\ st[q].waiting = <<>> => /\ Send(st, q, d)[q].counter = st[q].counter + 1
                                      /\ Send(st, q, d)[q].waiting = <<>>
           /\ st[q].waiting # <<>> => /\ Send(st, q, d)[q].counter = st[q].counter
                                      /\ Send(st, q, d)[q].waiting = Tail(st[q].waiting)
  <1>1. PICK u \in Stores : u = Give(st, q)
    BY GivenIs, QueuesAre
  <1>2. q \in AllSems /\ Append(u[q].messages, d) \in Seq(Data \cup Ctx)
    BY <1>1, QueuesAre DEF Stores, Cells
  <1>3. Send(st, q, d) = [u EXCEPT ![q] = [u[q] EXCEPT !.messages = Append(u[q].messages, d)]]
    BY <1>1, <1>2 DEF Send, Stores
  <1>4. [u[q] EXCEPT !.messages = Append(u[q].messages, d)] \in Cells
    BY <1>2 DEF Stores, Cells
  <1>5. /\ Send(st, q, d) \in Stores
        /\ \A t \in AllSems : t # q => Send(st, q, d)[t] = u[t]
        /\ Send(st, q, d)[q] = [u[q] EXCEPT !.messages = Append(u[q].messages, d)]
    BY <1>2, <1>3, <1>4 DEF Stores
  <1>6. u[q] \in Cells
    BY <1>2 DEF Stores
  <1>7. /\ Send(st, q, d)[q].alive = u[q].alive /\ Send(st, q, d)[q].counter = u[q].counter
        /\ Send(st, q, d)[q].waiting = u[q].waiting
        /\ Send(st, q, d)[q].messages = Append(u[q].messages, d)
    BY <1>5, <1>6 DEF Cells
  <1>8. \A t \in AllSems : t # q => u[t] = st[t]
    BY <1>1, <1>2, GivenIs
  <1>9. /\ u[q].alive = st[q].alive /\ u[q].messages = st[q].messages
        /\ st[q].waiting = <<>> => u[q].counter = st[q].counter + 1 /\ u[q].waiting = <<>>
        /\ st[q].waiting # <<>> => /\ u[q].counter = st[q].counter
                                  /\ u[q].waiting = Tail(st[q].waiting)
    BY <1>1, <1>2, GivenIs
  <1> QED
    BY <1>5, <1>7, <1>8, <1>9

-----------------------------------------------------------------------------
(* Places.                                                                  *)

LEMMA InLines == ASSUME NEW st, NEW c
                 PROVE  c \in Lines(st) <=> \E s \in AllSems : c \in Line(st, s)
  BY DEF Lines

\* Whom a sem_give wakes.
Woken(st, s) == IF st[s].waiting = <<>> THEN {} ELSE {Head(st[s].waiting)}

\* From st to u the woken thread is unlinked, and nobody else.
WokenUnlinked(u, st, s) ==
    /\ \A t \in AllSems : t # s => u[t].waiting = st[t].waiting
    /\ u[s].waiting = IF st[s].waiting = <<>> THEN <<>> ELSE Tail(st[s].waiting)

LEMMA WokenLeavesLine ==
    ASSUME NEW M, NEW sl, NEW st \in Stores, NEW p, NEW m, NEW s \in AllSems,
           NEW u \in Stores, PlacesGood(M, sl, st, p, m), WokenUnlinked(u, st, s)
    PROVE  /\ PlacesGood(M \cup Woken(st, s), sl, u, p, m)
           /\ \A t \in AllSems : t # s => Line(u, t) = Line(st, t)
           /\ Line(st, s) = Line(u, s) \cup Woken(st, s) /\ Line(u, s) \cap Woken(st, s) = {}
           /\ Woken(st, s) \subseteq Ctx /\ Woken(st, s) \cap M = {}
  <1> DEFINE W == Woken(st, s)
  <1>1. /\ \A t \in AllSems : t # s => Line(u, t) = Line(st, t)
        /\ \A t \in AllSems : t # s => Once(u[t].waiting)
    BY DEF Line, PlacesGood, WokenUnlinked
  <1>2. Line(st, s) = Line(u, s) \cup W /\ Line(u, s) \cap W = {} /\ Once(u[s].waiting) /\ W \subseteq Ctx
    <2>1. st[s].waiting \in Seq(Ctx) /\ Once(st[s].waiting)
      BY DEF Stores, Cells, PlacesGood
    <2>2. CASE st[s].waiting = <<>>
      BY <2>1, <2>2 DEF Woken, Line, WokenUnlinked
    <2>3. CASE st[s].waiting # <<>>
      <3>1. u[s].waiting = Tail(st[s].waiting) /\ W = {Head(st[s].waiting)}
        BY <2>3 DEF Woken, WokenUnlinked
      <3>2. Head(st[s].waiting) \in Ctx
        BY <2>1, <2>3
      <3> QED
        BY <2>1, <2>3, <3>1, <3>2, FirstIsTaken DEF Line
    <2> QED
      BY <2>2, <2>3
  <1> HIDE DEF W
  <1>3. \A t \in AllSems : Line(u, t) \subseteq Line(st, t)
    BY <1>1, <1>2
  <1>4. Lines(st) = Lines(u) \cup W /\ Lines(u) \cap W = {}
    <2>1. \A c : c \in Lines(st) <=> c \in Lines(u) \/ c \in W
      BY <1>1, <1>2, <1>3, InLines
    <2>2. \A c \in W : \A t \in AllSems : c \notin Line(u, t)
      BY <1>1, <1>2 DEF PlacesGood
    <2> QED
      BY <2>1, <2>2, InLines
  <1>5. PlacesGood(M \cup W, sl, u, p, m)
    <2>1. Once(sl) /\ \A t \in AllSems : Once(u[t].waiting)
      BY <1>1, <1>2 DEF PlacesGood
    <2>2. \A t, v \in AllSems : t # v => Line(u, t) \cap Line(u, v) = {}
      BY <1>3 DEF PlacesGood
    <2>3. (M \cup W) \cap ToSet(sl) = {} /\ (M \cup W) \cap Lines(u) = {} /\ ToSet(sl) \cap Lines(u) = {}
      BY <1>4 DEF PlacesGood
    <2>4. \A c \in Ctx : p[c] \in Lives <=> c \in (M \cup W) \cup ToSet(sl) \cup Lines(u)
      BY <1>4 DEF PlacesGood
    <2>5. /\ \A c \in ToSet(sl) : p[c] = "user"
          /\ \A t \in Sems : \A c \in Line(u, t) : p[c] = "user"
          /\ \A q \in AllQueues : \A c \in Line(u, q) : p[c] = "woken" /\ m[c] = q
      BY <1>3, QueuesAre DEF PlacesGood
    <2> QED
      BY <2>1, <2>2, <2>3, <2>4, <2>5 DEF PlacesGood
  <1>6. M \cap W = {}
    BY <1>4 DEF PlacesGood
  <1> QED
    BY <1>1, <1>2, <1>5, <1>6 DEF W

\* The lists stay as they are.
LEMMA ListsStay ==
    ASSUME NEW M, NEW sl, NEW st, NEW p, NEW m, NEW u, PlacesGood(M, sl, st, p, m),
           \A t \in AllSems : u[t].waiting = st[t].waiting
    PROVE  PlacesGood(M, sl, u, p, m) /\ \A t \in AllSems : Line(u, t) = Line(st, t)
  <1>1. \A t \in AllSems : Line(u, t) = Line(st, t)
    BY DEF Line
  <1>2. Lines(u) = Lines(st)
    BY <1>1 DEF Lines
  <1>3. \A t \in AllSems : Once(u[t].waiting)
    BY DEF PlacesGood
  <1> QED
    BY <1>1, <1>2, <1>3, QueuesAre DEF PlacesGood

\* The ready threads go on, and a thread that does not live stays so.
LEMMA ReadyGoOn ==
    ASSUME NEW M, NEW sl, NEW st, NEW p, NEW m, NEW p2, NEW m2, PlacesGood(M, sl, st, p, m),
           \A t \in M \cap Ctx : p2[t] \in Lives,
           \A t \in Ctx \ M : p2[t] \in Lives <=> p[t] \in Lives,
           \A t \in ToSet(sl) \cup Lines(st) : p2[t] = p[t] /\ m2[t] = m[t]
    PROVE  PlacesGood(M, sl, st, p2, m2)
  <1>1. \A c \in Ctx : p2[c] \in Lives <=> c \in M \cup ToSet(sl) \cup Lines(st)
    BY DEF PlacesGood
  <1>2. \A s \in AllSems : Line(st, s) \subseteq Lines(st)
    BY InLines
  <1>3. /\ \A c \in ToSet(sl) : p2[c] = "user"
        /\ \A t \in Sems : \A c \in Line(st, t) : p2[c] = "user"
        /\ \A q \in AllQueues : \A c \in Line(st, q) : p2[c] = "woken" /\ m2[c] = q
    BY <1>2, QueuesAre DEF PlacesGood
  <1> QED
    BY <1>1, <1>3 DEF PlacesGood

LEMMA LinesAreThreads == ASSUME NEW st \in Stores, NEW s \in AllSems PROVE Line(st, s) \subseteq Ctx
  <1>1. st[s].waiting \in Seq(Ctx)
    BY DEF Stores, Cells
  <1> QED
    BY <1>1, ElementsAre DEF Line

\* From st to u, c is put in front of the line of s; it goes to the place p2 in
\* which those that wait for s are.
Joined(u, st, s, c) ==
    /\ \A t \in AllSems : t # s => u[t] = st[t]
    /\ u[s].waiting = <<c>> \o st[s].waiting
LineGrows(u, st, s, c) ==
    /\ \A t \in AllSems : t # s => Line(u, t) = Line(st, t)
    /\ Line(u, s) = Line(st, s) \cup {c} /\ c \notin Line(st, s)
Waits(p2, m2, p, m, c, s) ==
    /\ \A t \in Ctx \ {c} : p2[t] = p[t] /\ m2[t] = m[t]
    /\ s \in Sems => p2[c] = "user"
    /\ s \in AllQueues => p2[c] = "woken" /\ m2[c] = s

\* A ready thread c joins the line of s.
LEMMA JoinsLine ==
    ASSUME NEW M, NEW sl \in Seq(Ctx), NEW st \in Stores, NEW p, NEW m, NEW u, NEW p2, NEW m2,
           PlacesGood(M, sl, st, p, m), NEW s \in AllSems, NEW c \in M \cap Ctx,
           Joined(u, st, s, c), Waits(p2, m2, p, m, c, s)
    PROVE  PlacesGood(M \ {c}, sl, u, p2, m2) /\ LineGrows(u, st, s, c)
  <1> USE DEF Joined, Waits
  <1>1. st[s].waiting \in Seq(Ctx) /\ Once(st[s].waiting) /\ c \notin Lines(st) /\ c \notin ToSet(sl)
    BY DEF Stores, Cells, PlacesGood
  <1>2. c \notin Line(st, s)
    BY <1>1, InLines
  <1>3. Line(u, s) = Line(st, s) \cup {c} /\ Once(u[s].waiting)
    BY <1>1, <1>2, PutInFront DEF Line
  <1>4. \A t \in AllSems : t # s => Line(u, t) = Line(st, t) /\ Once(u[t].waiting)
    BY DEF Line, PlacesGood
  <1>5. Lines(u) = Lines(st) \cup {c}
    <2>1. \A d : d \in Lines(u) <=> d \in Lines(st) \/ d = c
      BY <1>3, <1>4, InLines
    <2> QED
      BY <2>1
  <1>6. p2[c] \in Lives
    BY QueuesAre DEF Lives
  <1>7. \A t, v \in AllSems : t # v => Line(u, t) \cap Line(u, v) = {}
    <2>1. \A t \in AllSems : c \notin Line(st, t)
      BY <1>1, InLines
    <2>2. \A t, v \in AllSems : t # v => Line(st, t) \cap Line(st, v) = {}
      BY DEF PlacesGood
    <2> QED
      BY <1>3, <1>4, <2>1, <2>2
  <1>8. /\ (M \ {c}) \cap ToSet(sl) = {} /\ (M \ {c}) \cap Lines(u) = {}
        /\ ToSet(sl) \cap Lines(u) = {}
    BY <1>1, <1>5 DEF PlacesGood
  <1>9. \A t \in Ctx : p2[t] \in Lives <=> t \in (M \ {c}) \cup ToSet(sl) \cup Lines(u)
    BY <1>5, <1>6 DEF PlacesGood
  <1>10. \A t \in AllSems : \A d \in Line(st, t) : d \in Ctx \ {c}
    BY <1>1, InLines, LinesAreThreads
  <1>11. \A t \in ToSet(sl) : p2[t] = "user"
    BY <1>1, ElementsAre DEF PlacesGood
  <1>12. \A t \in Sems : \A d \in Line(u, t) : p2[d] = "user"
    <2> SUFFICES ASSUME NEW t \in Sems, NEW d \in Line(u, t) PROVE p2[d] = "user"
      OBVIOUS
    <2>1. CASE d = c
      BY <1>1, <1>4, <2>1, QueuesAre, InLines
    <2>2. CASE d # c
      BY <1>3, <1>4, <1>10, <2>2, QueuesAre DEF PlacesGood
    <2> QED
      BY <2>1, <2>2
  <1>13. \A q \in AllQueues : \A d \in Line(u, q) : p2[d] = "woken" /\ m2[d] = q
    <2> SUFFICES ASSUME NEW t \in AllQueues, NEW d \in Line(u, t)
                 PROVE  p2[d] = "woken" /\ m2[d] = t
      OBVIOUS
    <2>1. CASE d = c
      BY <1>1, <1>4, <2>1, QueuesAre, InLines
    <2>2. CASE d # c
      BY <1>3, <1>4, <1>10, <2>2, QueuesAre DEF PlacesGood
    <2> QED
      BY <2>1, <2>2
  <1>14. Once(sl) /\ \A t \in AllSems : Once(u[t].waiting)
    BY <1>3, <1>4 DEF PlacesGood
  <1> QED
    BY <1>2, <1>3, <1>4, <1>7, <1>8, <1>9, <1>11, <1>12, <1>13, <1>14 DEF PlacesGood, LineGrows

\* A ready thread c goes to sleep.
LEMMA JoinsSleepers ==
    ASSUME NEW M, NEW sl \in Seq(Ctx), NEW st \in Stores, NEW p, NEW m, NEW sl2,
           PlacesGood(M, sl, st, p, m), NEW c \in M \cap Ctx, p[c] = "user",
           Once(sl2), ToSet(sl2) = ToSet(sl) \cup {c}
    PROVE  PlacesGood(M \ {c}, sl2, st, p, m)
  BY DEF PlacesGood

\* The first of the sleepers is ready again.
LEMMA SleeperLeaves ==
    ASSUME NEW M, NEW sl \in Seq(Ctx), NEW st \in Stores, NEW p, NEW m,
           PlacesGood(M, sl, st, p, m), sl # <<>>
    PROVE  /\ PlacesGood(M \cup {Head(sl)}, Tail(sl), st, p, m)
           /\ Head(sl) \in Ctx \ M /\ Tail(sl) \in Seq(Ctx)
  <1>1. /\ Head(sl) \in ToSet(sl) /\ Tail(sl) \in Seq(Ctx) /\ Head(sl) \in Ctx
        /\ ToSet(sl) = ToSet(Tail(sl)) \cup {Head(sl)}
        /\ Once(Tail(sl)) /\ Head(sl) \notin ToSet(Tail(sl))
    BY FirstIsTaken, ElementsAre DEF PlacesGood
  <1> QED
    BY <1>1 DEF PlacesGood

\* A ready thread dies.
LEMMA ThreadDies ==
    ASSUME NEW M, NEW sl \in Seq(Ctx), NEW st \in Stores, NEW p \in [Ctx -> Steps], NEW m,
           PlacesGood(M, sl, st, p, m), NEW c \in M \cap Ctx
    PROVE  PlacesGood(M \ {c}, sl, st, [p EXCEPT ![c] = "dead"], m)
  <1> DEFINE p2 == [p EXCEPT ![c] = "dead"]
  <1>1. c \notin ToSet(sl) /\ c \notin Lines(st)
    BY DEF PlacesGood
  <1>2. p2[c] = "dead" /\ \A t \in Ctx \ {c} : p2[t] = p[t]
    OBVIOUS
  <1> HIDE DEF p2
  <1>3. \A t \in AllSems : \A d \in Line(st, t) : d \in Ctx \ {c}
    BY <1>1, InLines, LinesAreThreads
  <1>4. \A t \in ToSet(sl) : t \in Ctx \ {c}
    BY <1>1, ElementsAre
  <1>5. \A t \in Ctx : p2[t] \in Lives <=> t \in (M \ {c}) \cup ToSet(sl) \cup Lines(st)
    <2>1. "dead" \notin Lives
      BY DEF Lives
    <2> QED
      BY <1>1, <1>2, <2>1 DEF PlacesGood
  <1>6. /\ \A t \in ToSet(sl) : p2[t] = "user"
        /\ \A t \in Sems : \A d \in Line(st, t) : p2[d] = "user"
        /\ \A q \in AllQueues : \A d \in Line(st, q) : p2[d] = "woken" /\ m[d] = q
    BY <1>2, <1>3, <1>4, QueuesAre DEF PlacesGood
  <1>7. PlacesGood(M \ {c}, sl, st, p2, m)
    BY <1>5, <1>6 DEF PlacesGood
  <1> QED
    BY <1>7 DEF p2

\* A thread is made.
LEMMA ThreadIsMade ==
    ASSUME NEW M, NEW sl \in Seq(Ctx), NEW st \in Stores, NEW p \in [Ctx -> Steps], NEW m,
           PlacesGood(M, sl, st, p, m), NEW c \in Ctx, p[c] = "none"
    PROVE  PlacesGood(M \cup {c}, sl, st, [p EXCEPT ![c] = "start"], m) /\ c \notin M
  <1> DEFINE p2 == [p EXCEPT ![c] = "start"]
  <1>1. c \notin ToSet(sl) /\ c \notin Lines(st) /\ c \notin M
    BY DEF PlacesGood, Lives
  <1>2. p2[c] = "start" /\ \A t \in Ctx \ {c} : p2[t] = p[t]
    OBVIOUS
  <1> HIDE DEF p2
  <1>3. \A t \in AllSems : \A d \in Line(st, t) : d \in Ctx \ {c}
    BY <1>1, InLines, LinesAreThreads
  <1>4. \A t \in ToSet(sl) : t \in Ctx \ {c}
    BY <1>1, ElementsAre
  <1>5. \A t \in Ctx : p2[t] \in Lives <=> t \in (M \cup {c}) \cup ToSet(sl) \cup Lines(st)
    <2>1. "start" \in Lives
      BY DEF Lives
    <2> QED
      BY <1>1, <1>2, <2>1 DEF PlacesGood
  <1>6. /\ \A t \in ToSet(sl) : p2[t] = "user"
        /\ \A t \in Sems : \A d \in Line(st, t) : p2[d] = "user"
        /\ \A q \in AllQueues : \A d \in Line(st, q) : p2[d] = "woken" /\ m[d] = q
    BY <1>2, <1>3, <1>4, QueuesAre DEF PlacesGood
  <1>7. PlacesGood(M \cup {c}, sl, st, p2, m)
    BY <1>1, <1>5, <1>6 DEF PlacesGood
  <1> QED
    BY <1>1, <1>7 DEF p2

-----------------------------------------------------------------------------
(* Coins.                                                                   *)

LEMMA CellsAre ==
    ASSUME NEW st \in Stores, NEW s \in AllSems
    PROVE  /\ st[s] \in Cells /\ st[s].alive \in BOOLEAN /\ st[s].counter \in Nat
           /\ st[s].waiting \in Seq(Ctx) /\ st[s].messages \in Seq(Data \cup Ctx)
  <1>1. st[s] \in Cells
    BY DEF Stores
  <1> QED
    BY <1>1 DEF Cells

\* What is said of the semaphore s, of all others, and of the receivers.
CellGood(u, p, m, s) ==
    /\ u[s].alive = TRUE \/ (u[s] = Deleted /\ s # WaitMq)
    /\ u[s].counter > 0 => u[s].waiting = <<>>
    /\ s \in AllQueues => Len(u[s].messages) = u[s].counter + Cardinality(Rec(u, p, m, s))
OthersStay(u, p2, m2, st, p, m, s) ==
    /\ \A t \in AllSems : t # s => u[t] = st[t]
    /\ \A q \in AllQueues : q # s => Rec(u, p2, m2, q) = Rec(st, p, m, q)
ReceiveFromQueues(p, m) == \A t \in Ctx : p[t] \in {"woken", "unlink"} => m[t] \in AllQueues

\* Only the semaphore s and its receivers change.
LEMMA OnlyOneChanges ==
    ASSUME NEW st, NEW p, NEW m, NEW u, NEW p2, NEW m2, NEW s \in AllSems, CoinsGood(st, p, m),
           OthersStay(u, p2, m2, st, p, m, s), CellGood(u, p2, m2, s), ReceiveFromQueues(p2, m2)
    PROVE  CoinsGood(u, p2, m2)
  <1>1. u[WaitMq].alive
    BY QueuesAre DEF CoinsGood, CellGood, OthersStay
  <1>2. \A t \in AllSems : ~u[t].alive => u[t] = Deleted
    BY DEF CoinsGood, CellGood, OthersStay
  <1>3. \A t \in AllSems : u[t].counter > 0 => u[t].waiting = <<>>
    BY DEF CoinsGood, CellGood, OthersStay
  <1>4. \A q \in AllQueues : Len(u[q].messages) = u[q].counter + Cardinality(Rec(u, p2, m2, q))
    <2> SUFFICES ASSUME NEW q \in AllQueues
                 PROVE  Len(u[q].messages) = u[q].counter + Cardinality(Rec(u, p2, m2, q))
      OBVIOUS
    <2>1. CASE q = s
      BY <2>1 DEF CellGood
    <2>2. CASE q # s
      <3>1. u[q] = st[q] /\ Rec(u, p2, m2, q) = Rec(st, p, m, q)
        BY <2>2, QueuesAre DEF OthersStay
      <3>2. Len(st[q].messages) = st[q].counter + Cardinality(Rec(st, p, m, q))
        BY DEF CoinsGood
      <3> QED
        BY <3>1, <3>2
    <2> QED
      BY <2>1, <2>2
  <1> QED
    BY <1>1, <1>2, <1>3, <1>4 DEF CoinsGood, ReceiveFromQueues

\* The receivers stay what they are.
LEMMA ReceiversStay ==
    ASSUME NEW st, NEW p, NEW m, NEW u, NEW p2, NEW m2, CoinsGood(st, p, m),
           \A q \in AllQueues : Line(u, q) = Line(st, q),
           \A t \in Ctx : p2[t] \in {"woken", "unlink"} <=> p[t] \in {"woken", "unlink"},
           \A t \in Ctx : p[t] \in {"woken", "unlink"} => m2[t] = m[t]
    PROVE  /\ \A q \in AllQueues : Rec(u, p2, m2, q) = Rec(st, p, m, q)
           /\ \A t \in Ctx : p2[t] \in {"woken", "unlink"} => m2[t] \in AllQueues
  <1>1. \A q \in AllQueues : Rec(u, p2, m2, q) = Rec(st, p, m, q)
    <2> SUFFICES ASSUME NEW q \in AllQueues, NEW t \in Ctx
                 PROVE  (p2[t] \in {"woken", "unlink"} /\ m2[t] = q /\ t \notin Line(u, q))
                           <=> (p[t] \in {"woken", "unlink"} /\ m[t] = q /\ t \notin Line(st, q))
      BY DEF Rec
    <2> QED
      OBVIOUS
  <1>2. \A t \in Ctx : p2[t] \in {"woken", "unlink"} => m2[t] \in AllQueues
    BY DEF CoinsGood
  <1> QED
    BY <1>1, <1>2

LEMMA CoinsStay ==
    ASSUME NEW st, NEW p, NEW m, NEW p2, NEW m2, CoinsGood(st, p, m),
           \A t \in Ctx : p2[t] \in {"woken", "unlink"} <=> p[t] \in {"woken", "unlink"},
           \A t \in Ctx : p[t] \in {"woken", "unlink"} => m2[t] = m[t]
    PROVE  CoinsGood(st, p2, m2)
  <1>1. /\ \A q \in AllQueues : Rec(st, p2, m2, q) = Rec(st, p, m, q)
        /\ \A t \in Ctx : p2[t] \in {"woken", "unlink"} => m2[t] \in AllQueues
    BY ReceiversStay
  <1> QED
    BY <1>1 DEF CoinsGood

LEMMA ReceiversCounted ==
    ASSUME NEW st, NEW p, NEW m, NEW q
    PROVE  /\ IsFiniteSet(Rec(st, p, m, q)) /\ Cardinality(Rec(st, p, m, q)) \in Nat
           /\ Cardinality(Rec(st, p, m, q)) = 0 <=> Rec(st, p, m, q) = {}
  <1>1. Rec(st, p, m, q) \subseteq Ctx /\ IsFiniteSet(Ctx)
    BY Ordo3Assumption DEF Rec
  <1>2. IsFiniteSet(Rec(st, p, m, q))
    BY <1>1, FS_Subset
  <1> QED
    BY <1>2, FS_CardinalityType, FS_EmptySet

\* sem_give to a semaphore that user code takes.
LEMMA CoinGiven ==
    ASSUME NEW M, NEW sl, NEW st \in Stores, NEW p, NEW m, NEW s \in Sems,
           PlacesGood(M, sl, st, p, m), CoinsGood(st, p, m), st[s].alive = TRUE
    PROVE  CoinsGood(Give(st, s), p, m)
  <1> DEFINE u == Give(st, s)
  <1>0. s \in AllSems
    BY QueuesAre
  <1>2. /\ s \in AllSems /\ \A t \in AllSems : t # s => u[t] = st[t]
        /\ u[s].alive = st[s].alive /\ st[s].counter \in Nat
        /\ st[s].waiting = <<>> => u[s].waiting = <<>>
        /\ st[s].waiting # <<>> => u[s].counter = st[s].counter
    BY <1>0, GivenIs, CellsAre
  <1> HIDE DEF u
  <1>3. u[s].counter > 0 => u[s].waiting = <<>>
    BY <1>2 DEF CoinsGood
  <1>4. \A q \in AllQueues : Line(u, q) = Line(st, q)
    BY <1>2, QueuesAre DEF Line
  <1>5. /\ \A q \in AllQueues : Rec(u, p, m, q) = Rec(st, p, m, q)
        /\ \A t \in Ctx : p[t] \in {"woken", "unlink"} => m[t] \in AllQueues
    BY <1>4, ReceiversStay
  <1>6. CoinsGood(u, p, m)
    <2>1. u[s].alive = TRUE
      BY <1>2
    <2>2. /\ \A q \in AllQueues : q # s => Rec(u, p, m, q) = Rec(st, p, m, q)
          /\ s \notin AllQueues /\ \A t \in AllSems : t # s => u[t] = st[t]
      BY <1>2, <1>5, QueuesAre
    <2> QED
      <3>1. CellGood(u, p, m, s)
        BY <1>3, <2>1, <2>2 DEF CellGood
      <3>2. OthersStay(u, p, m, st, p, m, s)
        BY <2>2 DEF OthersStay
      <3>3. ReceiveFromQueues(p, m)
        BY <1>5 DEF ReceiveFromQueues
      <3> QED
        BY <1>0, <3>1, <3>2, <3>3, OnlyOneChanges
  <1> QED
    BY <1>6 DEF u

\* send_message: the message is for its coin, or for the receiver that wakes up.
LEMMA CoinSent ==
    ASSUME NEW M, NEW sl, NEW st \in Stores, NEW p, NEW m, NEW q \in AllQueues,
           NEW d \in Data \cup Ctx,
           PlacesGood(M, sl, st, p, m), CoinsGood(st, p, m), st[q].alive = TRUE
    PROVE  /\ CoinsGood(Send(st, q, d), p, m)
           /\ PlacesGood(M \cup Woken(st, q), sl, Send(st, q, d), p, m)
           /\ Woken(st, q) \subseteq Ctx \ M
  <1> DEFINE u == Send(st, q, d)
  <1>0. q \in AllSems
    BY QueuesAre
  <1>1. u \in Stores /\ u[q].alive = st[q].alive /\ \A t \in AllSems : t # q => u[t] = st[t]
    BY SentIs
  <1>2. /\ st[q].counter \in Nat /\ st[q].messages \in Seq(Data \cup Ctx)
        /\ u[q].messages = Append(st[q].messages, d)
        /\ st[q].waiting = <<>> => u[q].waiting = <<>> /\ u[q].counter = st[q].counter + 1
        /\ st[q].waiting # <<>> => /\ u[q].counter = st[q].counter
                                   /\ u[q].waiting = Tail(st[q].waiting)
    BY <1>0, SentIs, CellsAre
  <1> HIDE DEF u
  <1>3. /\ PlacesGood(M \cup Woken(st, q), sl, u, p, m)
        /\ \A t \in AllSems : t # q => Line(u, t) = Line(st, t)
        /\ Line(st, q) = Line(u, q) \cup Woken(st, q) /\ Line(u, q) \cap Woken(st, q) = {}
        /\ Woken(st, q) \subseteq Ctx /\ Woken(st, q) \cap M = {}
    <2>1. u[q].waiting = IF st[q].waiting = <<>> THEN <<>> ELSE Tail(st[q].waiting)
      BY <1>2
    <2>2. \A t \in AllSems : t # q => u[t].waiting = st[t].waiting
      BY <1>1
    <2>3. u \in Stores
      BY <1>1
    <2>4. /\ PlacesGood(M \cup Woken(st, q), sl, u, p, m)
          /\ Line(st, q) = Line(u, q) \cup Woken(st, q) /\ Line(u, q) \cap Woken(st, q) = {}
          /\ Woken(st, q) \subseteq Ctx /\ Woken(st, q) \cap M = {}
      <3>1. WokenUnlinked(u, st, q)
        BY <2>1, <2>2 DEF WokenUnlinked
      <3> QED
        BY <1>0, <2>3, <3>1, WokenLeavesLine
    <2>5. \A t \in AllSems : t # q => Line(u, t) = Line(st, t)
      BY <2>2 DEF Line
    <2> QED
      BY <2>4, <2>5
  <1>4. u[q].counter > 0 => u[q].waiting = <<>>
    BY <1>0, <1>2 DEF CoinsGood
  <1>5. \A t \in Ctx : p[t] \in {"woken", "unlink"} => m[t] \in AllQueues
    BY DEF CoinsGood
  <1>6. \A v \in AllQueues : v # q => Rec(u, p, m, v) = Rec(st, p, m, v)
    BY <1>3, QueuesAre DEF Rec
  <1>7. Rec(u, p, m, q) = Rec(st, p, m, q) \cup Woken(st, q) /\ Rec(st, p, m, q) \cap Woken(st, q) = {}
    <2>1. \A t \in Woken(st, q) : p[t] = "woken" /\ m[t] = q /\ t \in Ctx
      BY <1>3 DEF PlacesGood
    <2> QED
      BY <1>3, <2>1 DEF Rec
  <1>8. Len(u[q].messages) = u[q].counter + Cardinality(Rec(u, p, m, q))
    <2>0. st[q].counter \in Nat
      BY <1>2
    <2>1. Len(u[q].messages) = Len(st[q].messages) + 1
      BY <1>2
    <2>2. Len(st[q].messages) = st[q].counter + Cardinality(Rec(st, p, m, q))
      BY DEF CoinsGood
    <2>3. Cardinality(Rec(st, p, m, q)) \in Nat /\ IsFiniteSet(Rec(st, p, m, q))
      BY ReceiversCounted
    <2>4. CASE st[q].waiting = <<>>
      <3>1. Rec(u, p, m, q) = Rec(st, p, m, q)
        BY <1>7, <2>4 DEF Woken
      <3>2. u[q].counter = st[q].counter + 1
        BY <1>2, <2>4
      <3> QED
        BY <2>0, <2>1, <2>2, <2>3, <3>1, <3>2
    <2>5. CASE st[q].waiting # <<>>
      <3> DEFINE h == Head(st[q].waiting)
                 A == Rec(st, p, m, q)
      <3>1. Rec(u, p, m, q) = A \cup {h} /\ h \notin A
        BY <1>7, <2>5 DEF Woken
      <3> HIDE DEF h, A
      <3>2. Cardinality(A \cup {h}) = Cardinality(A) + 1
        BY <2>3, <3>1, FS_AddElement DEF A
      <3>3. u[q].counter = st[q].counter
        BY <1>2, <2>5
      <3>4. Cardinality(Rec(u, p, m, q)) = Cardinality(Rec(st, p, m, q)) + 1
        BY <3>1, <3>2 DEF A
      <3> QED
        BY <2>0, <2>1, <2>2, <2>3, <3>3, <3>4
    <2> QED
      BY <2>4, <2>5
  <1>9. CoinsGood(u, p, m)
    <2>1. u[q].alive = TRUE /\ \A t \in AllSems : t # q => u[t] = st[t]
      BY <1>1
    <2> QED
      <3>1. CellGood(u, p, m, q)
        BY <1>4, <1>8, <2>1 DEF CellGood
      <3>2. OthersStay(u, p, m, st, p, m, q)
        BY <1>6, <2>1 DEF OthersStay
      <3>3. ReceiveFromQueues(p, m)
        BY <1>5 DEF ReceiveFromQueues
      <3> QED
        BY <1>0, <3>1, <3>2, <3>3, OnlyOneChanges
  <1> QED
    BY <1>3, <1>9 DEF u

\* c is put in front of the line of s (Block).
InLine(st, s, c) == [st EXCEPT ![s].waiting = <<c>> \o @]

LEMMA JoinedIs ==
    ASSUME NEW st \in Stores, NEW s \in AllSems, NEW c \in Ctx
    PROVE  /\ InLine(st, s, c) \in Stores /\ Joined(InLine(st, s, c), st, s, c)
           /\ InLine(st, s, c)[s].alive = st[s].alive /\ InLine(st, s, c)[s].counter = st[s].counter
           /\ InLine(st, s, c)[s].messages = st[s].messages
  <1> DEFINE u == InLine(st, s, c)
  <1>1. st[s] \in Cells
    BY DEF Stores
  <1>2. u = [st EXCEPT ![s] = [st[s] EXCEPT !.waiting = <<c>> \o st[s].waiting]]
    BY DEF Stores, InLine
  <1> HIDE DEF u
  <1>3. <<c>> \o st[s].waiting \in Seq(Ctx)
    BY <1>1, PutInFront DEF Cells
  <1>4. [st[s] EXCEPT !.waiting = <<c>> \o st[s].waiting] \in Cells
    BY <1>1, <1>3 DEF Cells
  <1>5. u \in Stores /\ \A t \in AllSems : t # s => u[t] = st[t]
    BY <1>2, <1>4 DEF Stores
  <1>6. u[s] = [st[s] EXCEPT !.waiting = <<c>> \o st[s].waiting]
    BY <1>2, <1>4 DEF Stores
  <1> QED
    BY <1>1, <1>5, <1>6 DEF Cells, Joined, u

\* A thread that finds no coin waits for one.
LEMMA CoinAwaited ==
    ASSUME NEW st \in Stores, NEW p, NEW m, NEW u, NEW p2, NEW m2, NEW s \in AllSems, NEW c \in Ctx,
           CoinsGood(st, p, m), p[c] = "user",
           Joined(u, st, s, c), Waits(p2, m2, p, m, c, s),
           u[s].alive = TRUE, st[s].counter = 0, u[s].counter = 0, u[s].messages = st[s].messages,
           LineGrows(u, st, s, c)
    PROVE  CoinsGood(u, p2, m2)
  <1> USE DEF Joined, Waits, LineGrows
  <1>1. \A q \in AllQueues : Rec(u, p2, m2, q) = Rec(st, p, m, q)
    <2> SUFFICES ASSUME NEW q \in AllQueues, NEW t \in Ctx
                 PROVE  (p2[t] \in {"woken", "unlink"} /\ m2[t] = q /\ t \notin Line(u, q))
                           <=> (p[t] \in {"woken", "unlink"} /\ m[t] = q /\ t \notin Line(st, q))
      BY DEF Rec
    <2>1. CASE t # c
      <3>1. p2[t] = p[t] /\ m2[t] = m[t]
        BY <2>1
      <3>2. t \in Line(u, q) <=> t \in Line(st, q)
        BY <2>1, QueuesAre
      <3> QED
        BY <3>1, <3>2
    <2>2. CASE t = c /\ s \in Sems
      BY <2>2
    <2>3. CASE t = c /\ s \in AllQueues
      BY <2>3
    <2> QED
      BY <2>1, <2>2, <2>3, QueuesAre
  <1>2. \A t \in Ctx : p2[t] \in {"woken", "unlink"} => m2[t] \in AllQueues
    <2> SUFFICES ASSUME NEW t \in Ctx, p2[t] \in {"woken", "unlink"} PROVE m2[t] \in AllQueues
      OBVIOUS
    <2>1. CASE t # c
      BY <2>1 DEF CoinsGood
    <2>2. CASE t = c
      BY <2>2, QueuesAre
    <2> QED
      BY <2>1, <2>2
  <1>3. s \in AllQueues => Len(u[s].messages) = u[s].counter + Cardinality(Rec(u, p2, m2, s))
    <2> SUFFICES ASSUME s \in AllQueues
                 PROVE  Len(u[s].messages) = u[s].counter + Cardinality(Rec(u, p2, m2, s))
      OBVIOUS
    <2>1. Len(st[s].messages) = st[s].counter + Cardinality(Rec(st, p, m, s))
      BY DEF CoinsGood
    <2> QED
      BY <1>1, <2>1
  <1>4. u[s].counter > 0 => u[s].waiting = <<>>
    OBVIOUS
  <1>5. \A q \in AllQueues : q # s => Rec(u, p2, m2, q) = Rec(st, p, m, q)
    BY <1>1
  <1> QED
    <2>1. CellGood(u, p2, m2, s)
      BY <1>3, <1>4 DEF CellGood
    <2>2. OthersStay(u, p2, m2, st, p, m, s)
      BY <1>5 DEF OthersStay
    <2>3. ReceiveFromQueues(p2, m2)
      BY <1>2 DEF ReceiveFromQueues
    <2> QED
      BY <2>1, <2>2, <2>3, OnlyOneChanges

-----------------------------------------------------------------------------
(* The dead.                                                                *)

LEMMA PutAtEnd ==
    ASSUME NEW T, NEW s \in Seq(T), NEW t \in T
    PROVE  /\ Append(s, t) \in Seq(T) /\ ToSet(Append(s, t)) = ToSet(s) \cup {t}
           /\ Once(s) /\ t \notin ToSet(s) => Once(Append(s, t))
  <1> DEFINE v == <<t>>
  <1>1. Append(s, t) = s \o v /\ v \in Seq(T) /\ DOMAIN v = {1} /\ v[1] = t
    OBVIOUS
  <1> HIDE DEF v
  <1>2. ToSet(v) = {t} /\ Once(v)
    BY <1>1 DEF ToSet, Once
  <1>3. /\ s \o v \in Seq(T) /\ ToSet(s \o v) = ToSet(s) \cup ToSet(v)
        /\ Once(s) /\ ToSet(s) \cap ToSet(v) = {} => Once(s \o v)
    BY <1>1, <1>2, ListsJoined
  <1> QED
    BY <1>1, <1>2, <1>3

\* Nobody is told of a death, and nobody who knows of one goes on.
LEMMA DeadStay ==
    ASSUME NEW id, NEW p, NEW g, NEW p2, NEW g2, DeadGood(id, p, g),
           \A l \in {"reap", "clear", "dead", "freed"} : \A t \in Ctx : p2[t] = l <=> p[t] = l,
           \A t \in Ctx : p[t] \in {"reap", "clear"} => g2[t] = g[t]
    PROVE  DeadGood(id, p2, g2)
  <1>1. \A t \in Ctx : /\ p2[t] = "reap" <=> p[t] = "reap"
                       /\ p2[t] = "clear" <=> p[t] = "clear"
                       /\ p2[t] = "dead" <=> p[t] = "dead"
                       /\ p2[t] = "freed" <=> p[t] = "freed"
    OBVIOUS
  <1>2. id \in Seq(Ctx) /\ Once(id) /\ \A c \in ToSet(id) : c \in Ctx /\ p2[c] = "dead"
    <2>1. id \in Seq(Ctx) /\ Once(id) /\ \A c \in ToSet(id) : p[c] = "dead"
      BY DEF DeadGood
    <2> QED
      BY <1>1, <2>1, ElementsAre
  <1>3. \A t \in Ctx : p2[t] = "reap" => g2[t] \in Ctx /\ g2[t] \notin ToSet(id) /\ p2[g2[t]] = "dead"
    BY <1>1 DEF DeadGood
  <1>4. \A t, u \in Ctx : p2[t] = "reap" /\ p2[u] = "reap" /\ g2[t] = g2[u] => t = u
    BY <1>1 DEF DeadGood
  <1>5. \A c \in Ctx : p2[c] = "dead" => c \in ToSet(id) \/ \E t \in Ctx : p2[t] = "reap" /\ g2[t] = c
    BY <1>1 DEF DeadGood
  <1>6. \A t \in Ctx : p2[t] = "clear" => g2[t] \in Ctx /\ p2[g2[t]] = "freed"
    BY <1>1 DEF DeadGood
  <1>7. \A c \in Ctx : p2[c] = "freed" => \E t \in Ctx : p2[t] = "clear" /\ g2[t] = c
    BY <1>1 DEF DeadGood
  <1> QED
    BY <1>2, <1>3, <1>4, <1>5, <1>6, <1>7 DEF DeadGood

\* A thread dies and its death is announced.
LEMMA DeathAnnounced ==
    ASSUME NEW id, NEW p \in [Ctx -> Steps], NEW g, DeadGood(id, p, g),
           NEW c \in Ctx, p[c] \in {"user", "start"}
    PROVE  DeadGood(Append(id, c), [p EXCEPT ![c] = "dead"], g)
  <1> DEFINE p2 == [p EXCEPT ![c] = "dead"]
             id2 == Append(id, c)
  <1>1. p2[c] = "dead" /\ \A t \in Ctx : t # c => p2[t] = p[t]
    OBVIOUS
  <1>2. id \in Seq(Ctx) /\ Once(id) /\ \A t \in ToSet(id) : t \in Ctx /\ p[t] = "dead"
    <2>1. id \in Seq(Ctx) /\ Once(id) /\ \A t \in ToSet(id) : p[t] = "dead"
      BY DEF DeadGood
    <2> QED
      BY <2>1, ElementsAre
  <1>3. id2 \in Seq(Ctx) /\ Once(id2) /\ ToSet(id2) = ToSet(id) \cup {c}
    BY <1>2, PutAtEnd
  <1> HIDE DEF p2, id2
  <1>4. \A t \in ToSet(id2) : p2[t] = "dead"
    BY <1>1, <1>2, <1>3
  <1>5. \A t \in Ctx : p2[t] = "reap" => g[t] \in Ctx /\ g[t] \notin ToSet(id2) /\ p2[g[t]] = "dead"
    <2> SUFFICES ASSUME NEW t \in Ctx, p2[t] = "reap"
                 PROVE  g[t] \in Ctx /\ g[t] \notin ToSet(id2) /\ p2[g[t]] = "dead"
      OBVIOUS
    <2>1. p[t] = "reap"
      BY <1>1
    <2>2. g[t] \in Ctx /\ g[t] \notin ToSet(id) /\ p[g[t]] = "dead"
      BY <2>1 DEF DeadGood
    <2>3. g[t] # c
      BY <2>2
    <2> QED
      BY <1>1, <1>3, <2>2, <2>3
  <1>6. \A t, u \in Ctx : p2[t] = "reap" /\ p2[u] = "reap" /\ g[t] = g[u] => t = u
    BY <1>1 DEF DeadGood
  <1>7. \A d \in Ctx : p2[d] = "dead" => d \in ToSet(id2) \/ \E t \in Ctx : p2[t] = "reap" /\ g[t] = d
    <2> SUFFICES ASSUME NEW d \in Ctx, p2[d] = "dead", d \notin ToSet(id2)
                 PROVE  \E t \in Ctx : p2[t] = "reap" /\ g[t] = d
      OBVIOUS
    <2>1. d # c /\ p[d] = "dead" /\ d \notin ToSet(id)
      BY <1>1, <1>3
    <2>2. PICK t \in Ctx : p[t] = "reap" /\ g[t] = d
      BY <2>1 DEF DeadGood
    <2> QED
      BY <1>1, <2>2
  <1>8. \A t \in Ctx : p2[t] = "clear" => g[t] \in Ctx /\ p2[g[t]] = "freed"
    <2> SUFFICES ASSUME NEW t \in Ctx, p2[t] = "clear" PROVE g[t] \in Ctx /\ p2[g[t]] = "freed"
      OBVIOUS
    <2>1. g[t] \in Ctx /\ p[g[t]] = "freed"
      BY <1>1 DEF DeadGood
    <2> QED
      BY <1>1, <2>1
  <1>9. \A d \in Ctx : p2[d] = "freed" => \E t \in Ctx : p2[t] = "clear" /\ g[t] = d
    <2> SUFFICES ASSUME NEW d \in Ctx, p2[d] = "freed" PROVE \E t \in Ctx : p2[t] = "clear" /\ g[t] = d
      OBVIOUS
    <2>1. PICK t \in Ctx : p[t] = "clear" /\ g[t] = d
      BY <1>1 DEF DeadGood
    <2> QED
      BY <1>1, <2>1
  <1>10. DeadGood(id2, p2, g)
    BY <1>3, <1>4, <1>5, <1>6, <1>7, <1>8, <1>9 DEF DeadGood
  <1> QED
    BY <1>10 DEF p2, id2

\* wait() takes the first announcement out of the queue.
LEMMA DeathTold ==
    ASSUME NEW id, NEW p, NEW g, NEW p2, NEW g2, DeadGood(id, p, g), id # <<>>,
           NEW r \in Ctx, p[r] \in {"user", "unlink"}, p2[r] = "reap", g2[r] = Head(id),
           \A t \in Ctx : t # r => p2[t] = p[t] /\ g2[t] = g[t]
    PROVE  DeadGood(Tail(id), p2, g2)
  <1> DEFINE d == Head(id)
             id2 == Tail(id)
  <1>1. id \in Seq(Ctx) /\ Once(id) /\ \A c \in ToSet(id) : p[c] = "dead"
    BY DEF DeadGood
  <1>2. /\ id2 \in Seq(Ctx) /\ Once(id2) /\ ToSet(id) = ToSet(id2) \cup {d} /\ d \notin ToSet(id2)
        /\ d \in ToSet(id)
    BY <1>1, FirstIsTaken
  <1>3. d \in Ctx /\ p[d] = "dead" /\ d # r /\ \A c \in ToSet(id2) : c \in Ctx /\ c # r /\ p[c] = "dead"
    BY <1>1, <1>2, ElementsAre
  <1>4. g2[r] = d
    OBVIOUS
  <1> HIDE DEF d, id2
  <1>5. \A c \in ToSet(id2) : p2[c] = "dead"
    BY <1>3
  <1>6. \A t \in Ctx : p2[t] = "reap" => g2[t] \in Ctx /\ g2[t] \notin ToSet(id2) /\ p2[g2[t]] = "dead"
    <2> SUFFICES ASSUME NEW t \in Ctx, p2[t] = "reap"
                 PROVE  g2[t] \in Ctx /\ g2[t] \notin ToSet(id2) /\ p2[g2[t]] = "dead"
      OBVIOUS
    <2>1. CASE t = r
      BY <1>2, <1>3, <1>4, <2>1
    <2>2. CASE t # r
      <3>1. g[t] \in Ctx /\ g[t] \notin ToSet(id) /\ p[g[t]] = "dead" /\ g2[t] = g[t]
        BY <2>2 DEF DeadGood
      <3>2. g[t] # r
        BY <3>1
      <3> QED
        BY <1>2, <3>1, <3>2
    <2> QED
      BY <2>1, <2>2
  <1>7. \A t, u \in Ctx : p2[t] = "reap" /\ p2[u] = "reap" /\ g2[t] = g2[u] => t = u
    <2>1. \A t \in Ctx : t # r /\ p2[t] = "reap" => g2[t] # d
      BY <1>2 DEF DeadGood
    <2>2. \A t, u \in Ctx : t # r /\ u # r /\ p2[t] = "reap" /\ p2[u] = "reap" /\ g2[t] = g2[u] => t = u
      BY DEF DeadGood
    <2> QED
      BY <1>4, <2>1, <2>2
  <1>8. \A c \in Ctx : p2[c] = "dead" => c \in ToSet(id2) \/ \E t \in Ctx : p2[t] = "reap" /\ g2[t] = c
    <2> SUFFICES ASSUME NEW c \in Ctx, p2[c] = "dead", c \notin ToSet(id2)
                 PROVE  \E t \in Ctx : p2[t] = "reap" /\ g2[t] = c
      OBVIOUS
    <2>1. c # r /\ p[c] = "dead"
      OBVIOUS
    <2>2. CASE c = d
      BY <1>4, <2>2
    <2>3. CASE c # d
      <3>1. PICK t \in Ctx : p[t] = "reap" /\ g[t] = c
        BY <1>2, <2>1, <2>3 DEF DeadGood
      <3>2. t # r
        BY <3>1
      <3> QED
        BY <3>1, <3>2
    <2> QED
      BY <2>2, <2>3
  <1>9. \A t \in Ctx : p2[t] = "clear" => g2[t] \in Ctx /\ p2[g2[t]] = "freed"
    <2> SUFFICES ASSUME NEW t \in Ctx, p2[t] = "clear" PROVE g2[t] \in Ctx /\ p2[g2[t]] = "freed"
      OBVIOUS
    <2>1. t # r
      OBVIOUS
    <2>2. g[t] \in Ctx /\ p[g[t]] = "freed" /\ g2[t] = g[t]
      BY <2>1 DEF DeadGood
    <2>3. g[t] # r
      BY <2>2
    <2> QED
      BY <2>2, <2>3
  <1>10. \A c \in Ctx : p2[c] = "freed" => \E t \in Ctx : p2[t] = "clear" /\ g2[t] = c
    <2> SUFFICES ASSUME NEW c \in Ctx, p2[c] = "freed" PROVE \E t \in Ctx : p2[t] = "clear" /\ g2[t] = c
      OBVIOUS
    <2>1. c # r
      OBVIOUS
    <2>2. PICK t \in Ctx : p[t] = "clear" /\ g[t] = c
      BY <2>1 DEF DeadGood
    <2>3. t # r
      BY <2>2
    <2> QED
      BY <2>2, <2>3
  <1>11. DeadGood(id2, p2, g2)
    BY <1>2, <1>5, <1>6, <1>7, <1>8, <1>9, <1>10 DEF DeadGood
  <1> QED
    BY <1>11 DEF id2

\* wait() moves its own thread r to the place a and the dead one d to b.
Moved(p2, p, r, a, d, b) ==
    p2[r] = a /\ p2[d] = b /\ \A t \in Ctx : t # r /\ t # d => p2[t] = p[t]

\* wait() frees the thread it was told of.
LEMMA DeadFreed ==
    ASSUME NEW id, NEW p \in [Ctx -> Steps], NEW g, DeadGood(id, p, g), NEW r \in Ctx, p[r] = "reap",
           NEW p2, NEW d, d = g[r], Moved(p2, p, r, "clear", d, "freed")
    PROVE  DeadGood(id, p2, g)
  <1>1. d \in Ctx /\ d \notin ToSet(id) /\ p[d] = "dead" /\ d # r
    BY DEF DeadGood
  <1>2. p2[r] = "clear" /\ p2[d] = "freed" /\ \A t \in Ctx : t # r /\ t # d => p2[t] = p[t]
    BY DEF Moved
  <1>3. g[r] = d
    OBVIOUS
  <1>4. id \in Seq(Ctx) /\ Once(id) /\ \A t \in ToSet(id) : t \in Ctx /\ p[t] = "dead"
    <2>1. id \in Seq(Ctx) /\ Once(id) /\ \A t \in ToSet(id) : p[t] = "dead"
      BY DEF DeadGood
    <2> QED
      BY <2>1, ElementsAre
  <1>5. \A t \in ToSet(id) : p2[t] = "dead"
    BY <1>1, <1>2, <1>4
  <1>6. \A t \in Ctx : p2[t] = "reap" => g[t] \in Ctx /\ g[t] \notin ToSet(id) /\ p2[g[t]] = "dead"
    <2> SUFFICES ASSUME NEW t \in Ctx, p2[t] = "reap"
                 PROVE  g[t] \in Ctx /\ g[t] \notin ToSet(id) /\ p2[g[t]] = "dead"
      OBVIOUS
    <2>1. t # r /\ p[t] = "reap"
      BY <1>1, <1>2
    <2>2. g[t] \in Ctx /\ g[t] \notin ToSet(id) /\ p[g[t]] = "dead" /\ g[t] # d
      BY <1>3, <2>1 DEF DeadGood
    <2>3. g[t] # r
      BY <2>2
    <2> QED
      BY <1>2, <2>2, <2>3
  <1>7. \A t, u \in Ctx : p2[t] = "reap" /\ p2[u] = "reap" /\ g[t] = g[u] => t = u
    <2>1. \A t \in Ctx : p2[t] = "reap" => p[t] = "reap"
      BY <1>1, <1>2
    <2> QED
      BY <2>1 DEF DeadGood
  <1>8. \A c \in Ctx : p2[c] = "dead" => c \in ToSet(id) \/ \E t \in Ctx : p2[t] = "reap" /\ g[t] = c
    <2> SUFFICES ASSUME NEW c \in Ctx, p2[c] = "dead", c \notin ToSet(id)
                 PROVE  \E t \in Ctx : p2[t] = "reap" /\ g[t] = c
      OBVIOUS
    <2>1. c # r /\ c # d /\ p[c] = "dead"
      BY <1>1, <1>2
    <2>2. PICK t \in Ctx : p[t] = "reap" /\ g[t] = c
      BY <2>1 DEF DeadGood
    <2>3. t # r /\ t # d
      BY <1>1, <1>3, <2>1, <2>2
    <2> QED
      BY <1>2, <2>2, <2>3
  <1>9. \A t \in Ctx : p2[t] = "clear" => g[t] \in Ctx /\ p2[g[t]] = "freed"
    <2> SUFFICES ASSUME NEW t \in Ctx, p2[t] = "clear" PROVE g[t] \in Ctx /\ p2[g[t]] = "freed"
      OBVIOUS
    <2>1. CASE t = r
      BY <1>1, <1>2, <1>3, <2>1
    <2>2. CASE t # r
      <3>1. p[t] = "clear"
        BY <1>2, <2>2
      <3>2. g[t] \in Ctx /\ p[g[t]] = "freed"
        BY <3>1 DEF DeadGood
      <3> QED
        BY <1>1, <1>2, <3>2
    <2> QED
      BY <2>1, <2>2
  <1>10. \A c \in Ctx : p2[c] = "freed" => \E t \in Ctx : p2[t] = "clear" /\ g[t] = c
    <2> SUFFICES ASSUME NEW c \in Ctx, p2[c] = "freed" PROVE \E t \in Ctx : p2[t] = "clear" /\ g[t] = c
      OBVIOUS
    <2>1. CASE c = d
      BY <1>2, <1>3, <2>1
    <2>2. CASE c # d
      <3>1. p[c] = "freed"
        BY <1>2, <2>2
      <3>2. PICK t \in Ctx : p[t] = "clear" /\ g[t] = c
        BY <3>1 DEF DeadGood
      <3>3. t # r /\ t # d
        BY <1>1, <3>2
      <3> QED
        BY <1>2, <3>2, <3>3
    <2> QED
      BY <2>1, <2>2
  <1>11. DeadGood(id, p2, g)
    BY <1>4, <1>5, <1>6, <1>7, <1>8, <1>9, <1>10 DEF DeadGood
  <1> QED
    BY <1>1, <1>11

\* wait() clears the entry: the id is free again.  It is the only one at that.
LEMMA DeadCleared ==
    ASSUME NEW id, NEW p \in [Ctx -> Steps], NEW g, DeadGood(id, p, g), NEW r \in Ctx, p[r] = "clear",
           \A t \in Ctx : p[t] = "clear" => t = r,
           NEW g2, \A t \in Ctx : t # r => g2[t] = g[t],
           NEW p2, NEW d, d = g[r], Moved(p2, p, r, "user", d, "none")
    PROVE  DeadGood(id, p2, g2)
  <1>1. d \in Ctx /\ p[d] = "freed" /\ d # r
    BY DEF DeadGood
  <1>2. p2[r] = "user" /\ p2[d] = "none" /\ \A t \in Ctx : t # r /\ t # d => p2[t] = p[t]
    BY DEF Moved
  <1>3. g[r] = d
    OBVIOUS
  <1>4. id \in Seq(Ctx) /\ Once(id) /\ \A t \in ToSet(id) : t \in Ctx /\ p[t] = "dead"
    <2>1. id \in Seq(Ctx) /\ Once(id) /\ \A t \in ToSet(id) : p[t] = "dead"
      BY DEF DeadGood
    <2> QED
      BY <2>1, ElementsAre
  <1>5. \A t \in ToSet(id) : p2[t] = "dead"
    BY <1>1, <1>2, <1>4
  <1>6. \A t \in Ctx : p2[t] = "reap" => g2[t] \in Ctx /\ g2[t] \notin ToSet(id) /\ p2[g2[t]] = "dead"
    <2> SUFFICES ASSUME NEW t \in Ctx, p2[t] = "reap"
                 PROVE  g2[t] \in Ctx /\ g2[t] \notin ToSet(id) /\ p2[g2[t]] = "dead"
      OBVIOUS
    <2>1. t # r /\ t # d /\ p[t] = "reap"
      BY <1>2
    <2>2. g[t] \in Ctx /\ g[t] \notin ToSet(id) /\ p[g[t]] = "dead" /\ g2[t] = g[t]
      BY <2>1 DEF DeadGood
    <2>3. g[t] # r /\ g[t] # d
      BY <1>1, <2>2
    <2> QED
      BY <1>2, <2>2, <2>3
  <1>7. \A t, u \in Ctx : p2[t] = "reap" /\ p2[u] = "reap" /\ g2[t] = g2[u] => t = u
    <2>1. \A t \in Ctx : p2[t] = "reap" => p[t] = "reap" /\ g2[t] = g[t]
      BY <1>2
    <2> QED
      BY <2>1 DEF DeadGood
  <1>8. \A c \in Ctx : p2[c] = "dead" => c \in ToSet(id) \/ \E t \in Ctx : p2[t] = "reap" /\ g2[t] = c
    <2> SUFFICES ASSUME NEW c \in Ctx, p2[c] = "dead", c \notin ToSet(id)
                 PROVE  \E t \in Ctx : p2[t] = "reap" /\ g2[t] = c
      OBVIOUS
    <2>1. p[c] = "dead"
      BY <1>2
    <2>2. PICK t \in Ctx : p[t] = "reap" /\ g[t] = c
      BY <2>1 DEF DeadGood
    <2>3. t # r /\ t # d
      BY <1>1, <2>2
    <2> QED
      BY <1>2, <2>2, <2>3
  <1>9. \A t \in Ctx : p2[t] # "clear"
    BY <1>1, <1>2
  <1>10. \A c \in Ctx : p2[c] # "freed"
    <2> SUFFICES ASSUME NEW c \in Ctx, p2[c] = "freed" PROVE FALSE
      OBVIOUS
    <2>1. p[c] = "freed" /\ c # d
      BY <1>2
    <2>2. PICK t \in Ctx : p[t] = "clear" /\ g[t] = c
      BY <2>1 DEF DeadGood
    <2> QED
      BY <1>3, <2>1, <2>2
  <1>11. DeadGood(id, p2, g2)
    BY <1>4, <1>5, <1>6, <1>7, <1>8, <1>9, <1>10 DEF DeadGood
  <1> QED
    BY <1>1, <1>11

-----------------------------------------------------------------------------
(* scheduler().                                                             *)

\* A thread dies: its id is sent, which may wake a wait(), and it is nowhere.
LEMMA GoodDies ==
    ASSUME NEW M, NEW sl, NEW st, NEW p, NEW m, NEW g, NEW z, NEW c \in M,
           Good(M, sl, st, p, m, g), IdleGood(M, p, z), c # Idle, p[c] \in {"user", "start"}
    PROVE  /\ Good((M \cup Woken(st, WaitMq)) \ {c}, sl, Send(st, WaitMq, c),
                   [p EXCEPT ![c] = "dead"], m, g)
           /\ IdleGood((M \cup Woken(st, WaitMq)) \ {c}, [p EXCEPT ![c] = "dead"], z)
           /\ Woken(st, WaitMq) \subseteq Ctx \ M
  <1> DEFINE u == Send(st, WaitMq, c)
             W == Woken(st, WaitMq)
             p2 == [p EXCEPT ![c] = "dead"]
  <1>1. /\ M \subseteq Ctx /\ sl \in Seq(Ctx) /\ st \in Stores /\ p \in [Ctx -> Steps]
        /\ m \in [Ctx -> AllQueues \cup {NULL}] /\ g \in [Ctx -> Data \cup Ctx \cup {NULL}]
    BY DEF Good, Typed
  <1>2. PlacesGood(M, sl, st, p, m) /\ CoinsGood(st, p, m) /\ DeadGood(st[WaitMq].messages, p, g)
    BY DEF Good
  <1>3. c \in Ctx /\ c \in Data \cup Ctx /\ WaitMq \in AllQueues
    BY <1>1, QueuesAre
  <1>4. st[WaitMq].alive = TRUE
    BY <1>1, <1>2, <1>3, QueuesAre, CellsAre DEF CoinsGood
  <1>5. CoinsGood(u, p, m) /\ PlacesGood(M \cup W, sl, u, p, m) /\ W \subseteq Ctx \ M
    BY <1>1, <1>2, <1>3, <1>4, CoinSent
  <1>6. u \in Stores /\ u[WaitMq].messages = Append(st[WaitMq].messages, c)
    BY <1>1, <1>3, SentIs
  <1>7. p2 \in [Ctx -> Steps] /\ p2[c] = "dead" /\ \A t \in Ctx : t # c => p2[t] = p[t]
    BY <1>1, <1>3 DEF Steps
  <1>8. DeadGood(u[WaitMq].messages, p2, g)
    BY <1>1, <1>2, <1>3, <1>6, DeathAnnounced
  <1>9. PlacesGood((M \cup W) \ {c}, sl, u, p2, m)
    <2>1. c \in (M \cup W) \cap Ctx
      BY <1>3
    <2> QED
      BY <1>1, <1>5, <1>6, <2>1, ThreadDies
  <1>10. CoinsGood(u, p2, m)
    <2> HIDE DEF u, p2
    <2>1. \A t \in Ctx : p2[t] \in {"woken", "unlink"} <=> p[t] \in {"woken", "unlink"}
      BY <1>7
    <2> QED
      BY <1>5, <2>1, CoinsStay
  <1>11. IdleGood((M \cup W) \ {c}, p2, z)
    <2> HIDE DEF p2, W
    <2>1. Idle \in Ctx
      BY Ordo3Assumption
    <2> QED
      BY <1>7, <2>1 DEF IdleGood
  <1>12. Typed((M \cup W) \ {c}, sl, u, p2, m, g)
    BY <1>1, <1>5, <1>6, <1>7 DEF Typed
  <1> QED
    BY <1>5, <1>8, <1>9, <1>10, <1>11, <1>12 DEF Good

\* What sem_give does to the ring.
LEMMA RingGiven ==
    ASSUME NEW r, NEW c, NEW st, NEW s, Ring1(r, c), Woken(st, s) \subseteq Ctx \ R!Members(r)
    PROVE  /\ Ring1(GiveRing(r, c, st, s), c)
           /\ R!Members(GiveRing(r, c, st, s)) = R!Members(r) \cup Woken(st, s)
  <1>1. CASE st[s].waiting = <<>>
    BY <1>1 DEF GiveRing, Woken
  <1>2. CASE st[s].waiting # <<>>
    <2>1. Head(st[s].waiting) \in Ctx \ R!Members(r)
      BY <1>2 DEF Woken
    <2> QED
      BY <1>2, <2>1, WokenIsChained DEF GiveRing, Woken
  <1> QED
    BY <1>1, <1>2

\* A new thread starts in its function.
LEMMA GoodStarts ==
    ASSUME NEW M, NEW sl, NEW st, NEW p, NEW m, NEW g, NEW z, NEW c \in M,
           Good(M, sl, st, p, m, g), IdleGood(M, p, z), p[c] = "start"
    PROVE  /\ Good(M, sl, st, [p EXCEPT ![c] = "user"], m, g)
           /\ IdleGood(M, [p EXCEPT ![c] = "user"], z)
  <1> DEFINE p2 == [p EXCEPT ![c] = "user"]
  <1>1. Typed(M, sl, st, p, m, g) /\ M \subseteq Ctx /\ c \in Ctx /\ p \in [Ctx -> Steps]
    BY DEF Good, Typed
  <1>2. p2 \in [Ctx -> Steps] /\ p2[c] = "user" /\ \A t \in Ctx : t # c => p2[t] = p[t]
    BY <1>1 DEF Steps
  <1> HIDE DEF p2
  <1>3. Typed(M, sl, st, p2, m, g)
    BY <1>1, <1>2 DEF Typed
  <1>4. PlacesGood(M, sl, st, p2, m)
    <2>1. PlacesGood(M, sl, st, p, m)
      BY DEF Good
    <2>2. \A t \in Ctx : p2[t] \in Lives <=> p[t] \in Lives
      BY <1>2 DEF Lives
    <2>3. \A t \in M \cap Ctx : p2[t] \in Lives
      BY <2>1, <2>2 DEF PlacesGood
    <2>4. c \notin ToSet(sl) \cup Lines(st)
      BY <2>1 DEF PlacesGood
    <2>5. ToSet(sl) \cup Lines(st) \subseteq Ctx
      <3>1. sl \in Seq(Ctx) /\ st \in Stores
        BY <1>1 DEF Typed
      <3> QED
        BY <3>1, ElementsAre, InLines, LinesAreThreads
    <2>6. \A t \in ToSet(sl) \cup Lines(st) : p2[t] = p[t] /\ m[t] = m[t]
      BY <1>2, <2>4, <2>5
    <2> QED
      BY <2>1, <2>2, <2>3, <2>6, ReadyGoOn
  <1>5. CoinsGood(st, p2, m)
    <2>1. \A t \in Ctx : p2[t] \in {"woken", "unlink"} <=> p[t] \in {"woken", "unlink"}
      BY <1>2
    <2> QED
      BY <2>1, CoinsStay DEF Good
  <1>6. DeadGood(st[WaitMq].messages, p2, g)
    <2>1. \A l \in {"reap", "clear", "dead", "freed"} : \A t \in Ctx : p2[t] = l <=> p[t] = l
      BY <1>2
    <2> QED
      BY <2>1, DeadStay DEF Good
  <1>7. IdleGood(M, p2, z)
    <2>1. Idle \in Ctx
      BY Ordo3Assumption
    <2> QED
      BY <1>2, <2>1 DEF IdleGood
  <1> QED
    BY <1>3, <1>4, <1>5, <1>6, <1>7 DEF Good, p2

\* Nobody is where the timer may not interrupt.
Free(p) == \A t \in Ctx : p[t] \notin {"unlink", "clear"}

\* What a call of scheduler() leaves when it returns to the stack that is loaded.
LEMMA Scheduled ==
    ASSUME NEW toSave, NEW c, NEW r, NEW st, NEW p, NEW n \in Nat, NEW sl, NEW m, NEW g,
           scheduler(toSave, c, r, st, p, n), it \in Nat,
           Good(R!Members(r), sl, st, p, m, g), IdleGood(R!Members(r), p, zombi),
           Loop(r, c), Free(p), Save(toSave) \in [Ctx -> Ctx \cup {NULL}],
           \A t \in Ctx : p[t] \in Lives => Save(toSave)[t] = t
    PROVE  /\ Good(Mem', sl, store', pc', m, g) /\ IdleGood(Mem', pc', zombi)
           /\ Loop(ring', current') /\ run' = current' /\ current' \in Ctx
           /\ saved' \in [Ctx -> Ctx \cup {NULL}] /\ StacksGood(saved', pc', current')
           /\ pc'[current'] # "start" /\ Free(pc') /\ it' \in Nat /\ irq' \in BOOLEAN
  <1> DEFINE r2 == GiveRing(r, c, st, WaitMq)
             c2 == IF Dies(c) THEN r2.next[c] ELSE c
             p2 == IF Dies(c) THEN [p EXCEPT ![c] = "dead"] ELSE p
             sv == Save(toSave)
  <1>1. /\ current' = c2
        /\ ring' = IF Dies(c) THEN R!Remove(r2, c) ELSE r
        /\ store' = IF Dies(c) THEN Send(st, WaitMq, c) ELSE st
        /\ run' = sv[c2]
        /\ saved' = [sv EXCEPT ![c2] = NULL]
    BY DEF scheduler
  <1>2. \/ /\ p2[run'] = "start" /\ it' = it + n + 1 /\ irq' = FALSE
           /\ pc' = [p2 EXCEPT ![run'] = "user"]
        \/ /\ p2[run'] # "start" /\ reset_it /\ pc' = p2
    BY DEF scheduler
  <1>3. /\ Good(Mem', sl, store', p2, m, g) /\ IdleGood(Mem', p2, zombi)
        /\ Loop(ring', c2) /\ \A t \in Ctx : p2[t] = p[t] \/ p2[t] = "dead"
    <2>1. CASE ~Dies(c)
      <3>1. ring' = r /\ store' = st /\ p2 = p /\ c2 = c
        BY <1>1, <2>1
      <3> QED
        BY <3>1 DEF Mem
    <2>2. CASE Dies(c)
      <3>1. /\ ring' = R!Remove(r2, c) /\ store' = Send(st, WaitMq, c)
            /\ p2 = [p EXCEPT ![c] = "dead"] /\ c2 = r2.next[c]
        BY <1>1, <2>2
      <3>2. c \in R!Members(r) /\ c \in Ctx /\ p \in [Ctx -> Steps] /\ zombi[c]
        BY <2>2 DEF Loop, R!Members, Good, Typed, Dies
      <3>3. c # Idle /\ p[c] \in {"user", "start"}
        <4>1. p[c] \in Lives
          BY <3>2 DEF Good, PlacesGood
        <4> QED
          BY <3>2, <4>1 DEF IdleGood, Free, Lives
      <3> DEFINE M2 == (R!Members(r) \cup Woken(st, WaitMq)) \ {c}
      <3>4. /\ Good(M2, sl, store', p2, m, g) /\ IdleGood(M2, p2, zombi)
            /\ Woken(st, WaitMq) \subseteq Ctx \ R!Members(r)
        BY <3>1, <3>2, <3>3, GoodDies
      <3>5. Ring1(r2, c) /\ R!Members(r2) = R!Members(r) \cup Woken(st, WaitMq)
        BY <3>4, RingGiven, LoopIsRepaired
      <3>6. Idle \in R!Members(r2) \ {c}
        BY <3>3, <3>5 DEF IdleGood
      <3>7. Loop(ring', c2) /\ R!Members(ring') = R!Members(r2) \ {c}
        BY <3>1, <3>5, <3>6, LeaverIsUnchained
      <3>8. Mem' = M2
        BY <3>5, <3>7 DEF Mem
      <3>9. \A t \in Ctx : p2[t] = p[t] \/ p2[t] = "dead"
        BY <3>1, <3>2
      <3> QED
        BY <3>4, <3>7, <3>8, <3>9
    <2> QED
      BY <2>1, <2>2
  <1> HIDE DEF r2, c2, p2, sv
  <1>4. c2 \in Mem' /\ c2 \in Ctx /\ p2 \in [Ctx -> Steps] /\ p2[c2] \in Lives
    <2>1. c2 \in Mem' /\ c2 \in Ctx
      BY <1>3 DEF Loop, R!Members, Mem
    <2> QED
      BY <1>3, <2>1 DEF Good, Typed, PlacesGood
  <1>5. \A t \in Ctx : p2[t] \in Lives => sv[t] = t
    <2>1. "dead" \notin Lives
      BY DEF Lives
    <2> QED
      BY <1>3, <2>1 DEF sv
  <1>6. run' = c2
    BY <1>1, <1>4, <1>5
  <1>7. Free(p2)
    BY <1>3 DEF Free
  <1>8. /\ saved' \in [Ctx -> Ctx \cup {NULL}]
        /\ \A t \in Ctx \ {c2} : p2[t] \in Lives => saved'[t] = t
    BY <1>1, <1>4, <1>5 DEF sv
  <1>9. CASE p2[run'] = "start"
    <2>1. it' = it + n + 1 /\ irq' = FALSE /\ pc' = [p2 EXCEPT ![c2] = "user"]
      BY <1>2, <1>6, <1>9
    <2>2. Good(Mem', sl, store', pc', m, g) /\ IdleGood(Mem', pc', zombi)
      <3>1. c2 \in Mem' /\ p2[c2] = "start"
        BY <1>4, <1>6, <1>9
      <3> QED
        BY <1>3, <2>1, <3>1, GoodStarts
    <2>3. pc'[c2] = "user" /\ \A t \in Ctx \ {c2} : pc'[t] = p2[t]
      BY <1>4, <2>1
    <2>4. StacksGood(saved', pc', c2)
      BY <1>8, <2>3 DEF StacksGood
    <2>5. Free(pc')
      BY <1>7, <2>3 DEF Free
    <2>6. it' \in Nat
      BY <2>1
    <2>7. irq' \in BOOLEAN
      BY <2>1
    <2> QED
      BY <1>1, <1>3, <1>4, <1>6, <1>8, <2>2, <2>3, <2>4, <2>5, <2>6, <2>7
  <1>10. CASE p2[run'] # "start"
    <2>1. it' = 0 /\ irq' = TRUE /\ pc' = p2
      BY <1>2, <1>10 DEF reset_it
    <2>2. StacksGood(saved', pc', c2)
      BY <1>8, <2>1 DEF StacksGood
    <2> QED
      BY <1>1, <1>3, <1>4, <1>6, <1>7, <1>8, <1>10, <2>1, <2>2
  <1> QED
    BY <1>9, <1>10

\* What is left to say of a call that ends in scheduler().
Others ==
    /\ ~yielding' /\ yielding' \in BOOLEAN /\ threads' \subseteq Ctx /\ zombi' = zombi
    /\ time' \in [Ctx -> Nat] /\ now' \in Nat /\ SleepersSorted'

LEMMA SwitchKeeps ==
    ASSUME NEW toSave, NEW c, NEW r, NEW st, NEW p, NEW n \in Nat,
           scheduler(toSave, c, r, st, p, n), TypeOK, Others,
           Good(R!Members(r), sleeping', st, p, mq', got'), IdleGood(R!Members(r), p, zombi),
           Loop(r, c), Free(p), Save(toSave) \in [Ctx -> Ctx \cup {NULL}],
           \A t \in Ctx : p[t] \in Lives => Save(toSave)[t] = t
    PROVE  IInv'
  <1>1. it \in Nat
    BY DEF TypeOK
  <1>2. /\ Good(Mem', sleeping', store', pc', mq', got') /\ IdleGood(Mem', pc', zombi)
        /\ Loop(ring', current') /\ run' = current' /\ current' \in Ctx
        /\ saved' \in [Ctx -> Ctx \cup {NULL}] /\ StacksGood(saved', pc', current')
        /\ pc'[current'] # "start" /\ Free(pc') /\ it' \in Nat /\ irq' \in BOOLEAN
    BY <1>1, Scheduled
  <1>3. TypeOK'
    <2>1. /\ sleeping' \in Seq(Ctx) /\ store' \in Stores /\ pc' \in [Ctx -> Steps]
          /\ mq' \in [Ctx -> AllQueues \cup {NULL}] /\ got' \in [Ctx -> Data \cup Ctx \cup {NULL}]
      BY <1>2 DEF Good, Typed
    <2>2. /\ threads' \subseteq Ctx /\ zombi' \in [Ctx -> BOOLEAN] /\ time' \in [Ctx -> Nat]
          /\ now' \in Nat /\ yielding' \in BOOLEAN
      BY DEF Others, TypeOK
    <2>3. ring' \in R!Rings
      BY <1>2 DEF Loop
    <2>4. run' \in Ctx
      BY <1>2
    <2> QED
      BY <1>2, <2>1, <2>2, <2>3, <2>4 DEF TypeOK, Stores, Cells, Steps
  <1>4. RingInv'
    <2>1. R!Repaired(ring', current') = ring'
      BY <1>2, LoopIsRepaired
    <2>2. R!Chained(ring')
      BY <1>2 DEF Loop
    <2> QED
      BY <1>2, <2>1, <2>2 DEF RingInv
  <1>5. BusyInv'
    <2>1. pc'[current'] # "unlink" /\ \A t \in Ctx : pc'[t] \notin {"unlink", "clear"}
      BY <1>2 DEF Free
    <2> QED
      BY <1>2, <2>1 DEF BusyInv
  <1>6. IdleGood(Mem', pc', zombi') /\ SleepersSorted'
    BY <1>2 DEF Others
  <1> QED
    BY <1>2, <1>3, <1>4, <1>5, <1>6 DEF IInv

-----------------------------------------------------------------------------
(* The steps.                                                               *)

LEMMA Running ==
    ASSUME IInv
    PROVE  /\ run = current /\ current \in Ctx /\ current \in Mem /\ Ring1(ring, current)
           /\ Idle \in Mem /\ Idle \in Ctx /\ pc[current] \in Lives \ {"start"}
           /\ Typed(Mem, sleeping, store, pc, mq, got) /\ pc \in [Ctx -> Steps]
  <1>1. current \in Ctx /\ ring \in R!Rings /\ run = current
    BY DEF IInv, TypeOK, BusyInv
  <1>2. Ring1(ring, current)
    BY <1>1 DEF Ring1, IInv, RingInv
  <1>3. current \in Mem
    BY <1>2, RepairedIs DEF Mem
  <1>4. Idle \in Mem /\ Idle \in Ctx
    BY Ordo3Assumption DEF IInv, IdleGood
  <1>5. Typed(Mem, sleeping, store, pc, mq, got) /\ pc \in [Ctx -> Steps]
    BY DEF IInv, Good, Typed
  <1>6. pc[current] \in Lives
    BY <1>1, <1>3 DEF IInv, Good, PlacesGood
  <1>7. pc[current] # "start"
    BY DEF IInv, BusyInv
  <1> QED
    BY <1>1, <1>2, <1>3, <1>4, <1>5, <1>6, <1>7

\* Once the running stack is saved, every thread has its own.
LEMMA SavedIsRight ==
    ASSUME IInv
    PROVE  /\ Save(current) \in [Ctx -> Ctx \cup {NULL}]
           /\ \A t \in Ctx : t = current \/ pc[t] \in Lives => Save(current)[t] = t
  <1>1. current \in Ctx /\ run = current /\ current # NULL
    BY Running, NullIsNone
  <1>2. Save(current) = [saved EXCEPT ![current] = current]
    BY <1>1 DEF Save
  <1>3. saved \in [Ctx -> Ctx \cup {NULL}] /\ \A t \in Ctx \ {current} : pc[t] \in Lives => saved[t] = t
    BY DEF IInv, TypeOK, StacksGood
  <1> QED
    BY <1>1, <1>2, <1>3

LEMMA NobodyBusy ==
    ASSUME IInv, yielding \/ pc[current] \notin {"unlink", "clear"}
    PROVE  Free(pc)
  BY DEF IInv, BusyInv, Free

\* yield() begins: at a moment at which the timer may strike, or in idle().
LEMMA YieldKeeps ==
    ASSUME IInv, Yield, R!Chained(ring), pc[run] \notin {"unlink", "clear"}
    PROVE  IInv'
  <1>1. UNCHANGED <<ring, current, run, saved, threads, zombi, sleeping, time, now, store, pc, mq, got>>
    BY DEF Yield
  <1>2. it \in Nat /\ it' = it + 1
    BY DEF Yield, IInv, TypeOK
  <1>3. it' \in Nat
    BY <1>2
  <1>4. irq' \in BOOLEAN /\ yielding' \in BOOLEAN
    BY DEF Yield
  <1>5. TypeOK'
    BY <1>1, <1>3, <1>4 DEF IInv, TypeOK
  <1>6. RingInv'
    BY <1>1 DEF IInv, RingInv
  <1>7. BusyInv'
    BY <1>1 DEF IInv, BusyInv
  <1>8. SleepersSorted'
    BY <1>1 DEF IInv, SleepersSorted
  <1>9. Mem' = Mem
    BY <1>1 DEF Mem
  <1>10. /\ Good(Mem', sleeping', store', pc', mq', got') /\ StacksGood(saved', pc', current')
         /\ IdleGood(Mem', pc', zombi')
    BY <1>1, <1>9 DEF IInv
  <1> QED
    BY <1>5, <1>6, <1>7, <1>8, <1>10 DEF IInv

\* The timer strikes only when the current thread's back link is repaired.
LEMMA IdleKeeps == ASSUME IInv, IdleYields PROVE IInv'
  <1>1. run = Idle /\ Yield /\ current = Idle
    BY Running DEF IdleYields
  <1>2. R!Chained(ring) /\ pc[run] \notin {"unlink", "clear"}
    BY <1>1 DEF IInv, RingInv, IdleGood
  <1> QED
    BY <1>1, <1>2, YieldKeeps

LEMMA TimerKeeps == ASSUME IInv, OrderedTimer PROVE IInv'
  BY YieldKeeps DEF OrderedTimer, TimerIsSafe, Timer

LEMMA WakeSleeperKeeps == ASSUME IInv, WakeSleeper PROVE IInv'
  <1> DEFINE h == Head(sleeping)
  <1>1. /\ UNCHANGED <<it, irq, current, run, saved, threads, zombi, time, now, store, pc, mq, got, yielding>>
        /\ ring' = R!InsertAfter(ring, current, h) /\ sleeping' = Tail(sleeping)
        /\ yielding /\ sleeping # <<>>
    BY DEF WakeSleeper, Due
  <1>2. /\ sleeping \in Seq(Ctx) /\ store \in Stores /\ PlacesGood(Mem, sleeping, store, pc, mq)
    BY DEF IInv, Good, Typed
  <1>3. /\ PlacesGood(Mem \cup {h}, sleeping', store, pc, mq) /\ h \in Ctx \ Mem
        /\ sleeping' \in Seq(Ctx)
    BY <1>1, <1>2, SleeperLeaves
  <1>4. Loop(ring', current) /\ Mem' = Mem \cup {h}
    BY <1>1, <1>3, Running, InsertedIsChained DEF Mem
  <1>5. R!Repaired(ring', current) = ring' /\ ring' \in R!Rings /\ R!Chained(ring')
    BY <1>4, LoopIsRepaired DEF Loop
  <1>6. TypeOK'
    BY <1>1, <1>3, <1>5 DEF IInv, TypeOK
  <1>7. RingInv'
    BY <1>1, <1>4, <1>5 DEF RingInv
  <1>8. BusyInv'
    BY <1>1 DEF IInv, BusyInv
  <1>9. SleepersSorted'
    <2>1. Len(sleeping') = Len(sleeping) - 1 /\ Len(sleeping) \in Nat
          /\ \A i \in 1..Len(sleeping') : sleeping'[i] = sleeping[i + 1]
      BY <1>1, <1>2
    <2>2. DOMAIN sleeping = 1..Len(sleeping) /\ DOMAIN sleeping' = 1..Len(sleeping')
      BY <1>2, <1>3
    <2> SUFFICES ASSUME NEW i \in 1..Len(sleeping'), NEW j \in 1..Len(sleeping'), i < j
                 PROVE  time[sleeping'[i]] <= time[sleeping'[j]]
      BY <1>1, <2>2 DEF SleepersSorted
    <2>3. i + 1 \in DOMAIN sleeping /\ j + 1 \in DOMAIN sleeping /\ i + 1 < j + 1
      BY <2>1, <2>2
    <2> QED
      BY <2>1, <2>3 DEF IInv, SleepersSorted
  <1>10. Good(Mem', sleeping', store', pc', mq', got')
    <2>1. Mem' \subseteq Ctx
      BY DEF Mem, R!Members
    <2>2. Typed(Mem', sleeping', store, pc, mq, got)
      BY <1>3, <2>1, Running DEF Typed
    <2> QED
      BY <1>1, <1>3, <1>4, <2>2 DEF IInv, Good
  <1>11. StacksGood(saved', pc', current') /\ IdleGood(Mem', pc', zombi')
    BY <1>1, <1>4 DEF IInv, IdleGood
  <1> QED
    BY <1>6, <1>7, <1>8, <1>9, <1>10, <1>11 DEF IInv

LEMMA SwitchToNextKeeps == ASSUME IInv, SwitchToNext PROVE IInv'
  <1> DEFINE c == ring.next[current]
  <1>1. /\ UNCHANGED <<threads, zombi, sleeping, time, now, mq, got>> /\ yielding /\ ~yielding'
        /\ scheduler(ring.last[c], c, ring, store, pc, 0)
    BY DEF SwitchToNext
  <1>2. yielding' \in BOOLEAN
    BY DEF SwitchToNext
  <1>3. Loop(ring, current)
    BY <1>1, Running, ChainedIsLoop DEF IInv, RingInv
  <1>4. ring.last[c] = current /\ Loop(ring, c)
    BY <1>3, PointersAre, NextGoesRound DEF Loop
  <1>5. Others
    <2>1. SleepersSorted'
      BY <1>1 DEF IInv, SleepersSorted
    <2> QED
      BY <1>1, <1>2, <2>1 DEF IInv, TypeOK, Others
  <1>6. /\ Good(R!Members(ring), sleeping', store, pc, mq', got') /\ IdleGood(R!Members(ring), pc, zombi)
        /\ TypeOK
    BY <1>1 DEF IInv, Mem
  <1>7. Free(pc)
    BY <1>1, NobodyBusy
  <1> HIDE DEF c
  <1>8. scheduler(current, c, ring, store, pc, 0)
    BY <1>1, <1>4
  <1> QED
    BY <1>4, <1>5, <1>6, <1>7, <1>8, SavedIsRight, SwitchKeeps

LEMMA TickKeeps == ASSUME IInv, Tick PROVE IInv'
  <1>1. UNCHANGED <<it, irq, ring, current, run, saved, threads, zombi, sleeping, time, store, pc, mq, got, yielding>>
    BY DEF Tick
  <1>2. now \in Nat /\ now' = now + 1
    BY DEF Tick, IInv, TypeOK
  <1>3. now' \in Nat
    BY <1>2
  <1>4. TypeOK'
    BY <1>1, <1>3 DEF IInv, TypeOK
  <1>5. RingInv' /\ BusyInv' /\ SleepersSorted' /\ Mem' = Mem
    BY <1>1 DEF IInv, RingInv, BusyInv, SleepersSorted, Mem
  <1> QED
    BY <1>1, <1>4, <1>5 DEF IInv

\* Where a new sleeper is put: behind those that wake up before it.
LEMMA SleepsBeforeIs ==
    ASSUME TypeOK, NEW t \in Nat
    PROVE  /\ SleepsBefore(t) \in 0..Len(sleeping)
           /\ \A i \in 1..SleepsBefore(t) : time[sleeping[i]] < t
           /\ SleepsBefore(t) < Len(sleeping) => time[sleeping[SleepsBefore(t) + 1]] >= t
  <1> DEFINE n == Len(sleeping)
             B == {i \in 1..n : time[sleeping[i]] >= t}
  <1>1. n \in Nat /\ \A i \in 1..n : time[sleeping[i]] \in Nat
    BY DEF TypeOK
  <1>2. PICK k \in 0..n : (\A i \in 1..k : i \notin B) /\ (k < n => k + 1 \in B)
    <2> HIDE DEF n, B
    <2> QED
      BY <1>1, FirstPlace
  <1>3. \A i \in 1..k : time[sleeping[i]] < t
    <2> SUFFICES ASSUME NEW i \in 1..k PROVE time[sleeping[i]] < t
      OBVIOUS
    <2>1. i \in 1..n /\ i \notin B
      BY <1>1, <1>2
    <2>2. ~(time[sleeping[i]] >= t) /\ time[sleeping[i]] \in Nat
      BY <1>1, <2>1
    <2> HIDE DEF n, B
    <2> QED
      BY <2>2
  <1>4. k < Len(sleeping) => time[sleeping[k + 1]] >= t
    BY <1>2
  <1> QED
    BY <1>2, <1>3, <1>4 DEF SleepsBefore

LEMMA SleepKeeps == ASSUME IInv, NEW seconds \in Nat, Sleep(seconds) PROVE IInv'
  <1> DEFINE t == now + seconds
             k == SleepsBefore(t)
             n == Len(sleeping)
             u == SubSeq(sleeping, 1, k)
             v == SubSeq(sleeping, k + 1, n)
  <1>1. /\ ~yielding /\ pc[run] = "user" /\ run # Idle
        /\ time' = [time EXCEPT ![current] = t]
        /\ sleeping' = u \o <<current>> \o v
        /\ scheduler(current, ring.next[current], R!Remove(ring, current), store, pc, 1)
        /\ UNCHANGED <<threads, zombi, now, mq, got, yielding>>
    BY DEF Sleep, InUser, At
  <1>2. /\ run = current /\ current \in Ctx /\ current \in Mem /\ Ring1(ring, current)
        /\ Idle \in Mem /\ Idle # current /\ pc[current] = "user"
    BY <1>1, Running
  <1>3. now \in Nat /\ t \in Nat
    BY DEF IInv, TypeOK
  <1>4. /\ k \in 0..n /\ \A i \in 1..k : time[sleeping[i]] < t
        /\ k < n => time[sleeping[k + 1]] >= t
    BY <1>3, SleepsBeforeIs DEF IInv
  <1>5. /\ sleeping \in Seq(Ctx) /\ store \in Stores /\ PlacesGood(Mem, sleeping, store, pc, mq)
        /\ Once(sleeping) /\ current \notin ToSet(sleeping)
    BY <1>2 DEF IInv, Good, Typed, PlacesGood
  <1> HIDE DEF t, k, n, u, v
  <1>6. sleeping' = InsertAt(sleeping, k + 1, current)
    <2>1. k + 1 - 1 = k
      BY <1>4
    <2>2. InsertAt(sleeping, k + 1, current) = SubSeq(sleeping, 1, k) \o <<current>> \o SubSeq(sleeping, k + 1, n)
      <3>1. PICK j : j = k + 1
        OBVIOUS
      <3>2. InsertAt(sleeping, j, current) = SubSeq(sleeping, 1, j - 1) \o <<current>> \o SubSeq(sleeping, j, Len(sleeping))
        BY DEF InsertAt
      <3>3. j - 1 = k
        BY <1>4, <3>1
      <3> QED
        BY <3>1, <3>2, <3>3, Zenon DEF n
    <2> QED
      BY <1>1, <2>2 DEF u, v
  <1>7. /\ sleeping' \in Seq(Ctx) /\ ToSet(sleeping') = ToSet(sleeping) \cup {current}
        /\ Once(sleeping')
    BY <1>2, <1>4, <1>5, <1>6, PutBehind DEF n
  <1>8. PlacesGood(Mem \ {current}, sleeping', store, pc, mq)
    BY <1>2, <1>5, <1>7, JoinsSleepers
  <1>9. /\ Loop(R!Remove(ring, current), ring.next[current])
        /\ R!Members(R!Remove(ring, current)) = Mem \ {current}
    BY <1>2, LeaverIsUnchained DEF Mem
  <1>10. Good(R!Members(R!Remove(ring, current)), sleeping', store, pc, mq', got')
    <2>1. Typed(Mem \ {current}, sleeping', store, pc, mq, got)
      BY <1>7, Running DEF Typed
    <2> QED
      BY <1>1, <1>8, <1>9, <2>1 DEF IInv, Good
  <1>11. IdleGood(R!Members(R!Remove(ring, current)), pc, zombi) /\ Free(pc)
    BY <1>1, <1>2, <1>9, NobodyBusy DEF IInv, IdleGood
  <1>12. SleepersSorted'
    <2>0. /\ u \in Seq(Ctx) /\ Len(u) = k /\ \A i \in 1..k : u[i] = sleeping[i]
          /\ v \in Seq(Ctx) /\ Len(v) = n - k /\ \A i \in 1..n - k : v[i] = sleeping[i + k]
      <3>1. n \in Nat /\ k \in 0..n
        BY <1>4, <1>5 DEF n
      <3>2. /\ u \in Seq(Ctx) /\ Len(u) = k /\ \A i \in 1..k : u[i] = sleeping[i]
        BY <1>5, <3>1 DEF u, n
      <3>3. v \in Seq(Ctx) /\ Len(v) = n - k
        BY <1>5, <3>1 DEF v, n
      <3>4. \A i \in 1..n - k : v[i] = sleeping[i + k]
        BY <1>5, <3>1 DEF v, n
      <3> QED
        BY <3>2, <3>3, <3>4
    <2>1. n \in Nat /\ Len(sleeping') = n + 1 /\ DOMAIN sleeping' = 1..n + 1 /\ DOMAIN sleeping = 1..n
      <3>1. n \in Nat /\ DOMAIN sleeping = 1..n /\ k \in Nat
        BY <1>4, <1>5 DEF n
      <3>2. sleeping' = u \o <<current>> \o v /\ sleeping' \in Seq(Ctx)
        BY <1>1, <1>7
      <3>3. Len(sleeping') = n + 1
        <4>1. u \o <<current>> \in Seq(Ctx) /\ Len(u \o <<current>>) = k + 1
          BY <1>2, <2>0, <3>1
        <4>2. Len((u \o <<current>>) \o v) = k + 1 + (n - k)
          BY <2>0, <4>1
        <4>3. Len(sleeping') = k + 1 + (n - k)
          BY <3>2, <4>2, Zenon
        <4> QED
          BY <3>1, <4>3
      <3> QED
        BY <3>1, <3>2, <3>3
    <2>2. \A i \in 1..n + 1 : sleeping'[i] = IF i <= k THEN sleeping[i]
                                            ELSE IF i = k + 1 THEN current ELSE sleeping[i - 1]
      <3> SUFFICES ASSUME NEW i \in 1..n + 1
                   PROVE  sleeping'[i] = IF i <= k THEN sleeping[i]
                                         ELSE IF i = k + 1 THEN current ELSE sleeping[i - 1]
        OBVIOUS
      <3>1. sleeping' = u \o <<current>> \o v /\ n \in Nat /\ k \in 0..n
        BY <1>1, <1>4, <2>1
      <3>2. CASE i <= k
        <4>1. sleeping'[i] = u[i]
          BY <1>2, <2>0, <3>1, <3>2
        <4> QED
          BY <2>0, <3>1, <3>2, <4>1
      <3>3. CASE i = k + 1
        BY <1>2, <2>0, <3>1, <3>3
      <3>4. CASE i > k + 1
        <4>1. sleeping'[i] = v[i - (k + 1)] /\ i - (k + 1) \in 1..n - k
          BY <1>2, <2>0, <3>1, <3>4
        <4>2. v[i - (k + 1)] = sleeping[i - (k + 1) + k]
          BY <2>0, <4>1
        <4>3. i - (k + 1) + k = i - 1
          BY <3>1
        <4>4. sleeping'[i] = sleeping[i - 1]
          BY <4>1, <4>2, <4>3, Zenon
        <4>5. ~(i <= k) /\ i # k + 1
          BY <3>1, <3>4
        <4> QED
          BY <4>4, <4>5
      <3>5. i <= k \/ i = k + 1 \/ i > k + 1
        BY <3>1
      <3> QED
        BY <3>2, <3>3, <3>4, <3>5
    <2>3. \A i \in 1..n : sleeping[i] \in Ctx \ {current} /\ time[sleeping[i]] \in Nat
      BY <1>5, ElementsAre DEF n, IInv, TypeOK
    <2>4. time'[current] = t /\ \A c \in Ctx \ {current} : time'[c] = time[c]
      BY <1>1, <1>2 DEF IInv, TypeOK
    <2>5. \A i, j \in 1..n : i < j => time[sleeping[i]] <= time[sleeping[j]]
      BY <2>1 DEF IInv, SleepersSorted
    <2>6. \A i \in 1..n : (i <= k => time[sleeping[i]] <= t) /\ (i > k => t <= time[sleeping[i]])
      <3> SUFFICES ASSUME NEW i \in 1..n
                   PROVE  (i <= k => time[sleeping[i]] <= t) /\ (i > k => t <= time[sleeping[i]])
        OBVIOUS
      <3>1. i <= k => time[sleeping[i]] <= t
        BY <1>3, <1>4, <2>3
      <3>2. ASSUME i > k PROVE t <= time[sleeping[i]]
        <4>1. k + 1 \in 1..n /\ k < n /\ k + 1 <= i
          BY <1>4, <2>1, <3>2
        <4>2. t <= time[sleeping[k + 1]] /\ time[sleeping[k + 1]] \in Nat /\ time[sleeping[i]] \in Nat
          BY <1>3, <1>4, <2>3, <4>1
        <4>3. time[sleeping[k + 1]] <= time[sleeping[i]]
          <5>1. CASE k + 1 = i
            BY <4>2, <5>1
          <5>2. CASE k + 1 < i
            BY <2>5, <4>1, <5>2
          <5> QED
            BY <1>4, <4>1, <5>1, <5>2
        <4> QED
          BY <1>3, <4>2, <4>3
      <3> QED
        BY <3>1, <3>2
    <2> DEFINE T(i) == time'[sleeping'[i]]
    <2>7. \A i \in 1..n + 1 : /\ i <= k => i \in 1..n /\ T(i) = time[sleeping[i]]
                              /\ i = k + 1 => T(i) = t
                              /\ i > k + 1 => i - 1 \in 1..n /\ T(i) = time[sleeping[i - 1]]
      <3> SUFFICES ASSUME NEW i \in 1..n + 1
                   PROVE  /\ i <= k => i \in 1..n /\ T(i) = time[sleeping[i]]
                          /\ i = k + 1 => T(i) = t
                          /\ i > k + 1 => i - 1 \in 1..n /\ T(i) = time[sleeping[i - 1]]
        OBVIOUS
      <3>1. CASE i <= k
        BY <1>4, <2>1, <2>2, <2>3, <2>4, <3>1
      <3>2. CASE i = k + 1
        BY <1>4, <2>1, <2>2, <2>4, <3>2
      <3>3. CASE i > k + 1
        <4>1. i - 1 \in 1..n /\ sleeping'[i] = sleeping[i - 1]
          BY <1>4, <2>1, <2>2, <3>3
        <4> QED
          BY <2>3, <2>4, <3>3, <4>1, <1>4
      <3> QED
        BY <1>4, <3>1, <3>2, <3>3
    <2> HIDE DEF T
    <2> SUFFICES ASSUME NEW i \in 1..n + 1, NEW j \in 1..n + 1, i < j PROVE T(i) <= T(j)
      BY <2>1 DEF SleepersSorted, T
    <2>8. k \in Nat /\ n \in Nat /\ i \in Nat /\ j \in Nat /\ i < j
      BY <1>4, <2>1
    <2>9. CASE j <= k
      <3>1. i <= k /\ i \in 1..n /\ j \in 1..n
        BY <2>7, <2>8, <2>9
      <3> QED
        BY <2>5, <2>7, <2>9, <3>1
    <2>10. CASE j = k + 1
      <3>1. i <= k /\ i \in 1..n
        BY <2>7, <2>8, <2>10
      <3> QED
        BY <2>6, <2>7, <2>10, <3>1
    <2>11. CASE j > k + 1 /\ i <= k
      <3>1. i \in 1..n /\ j - 1 \in 1..n /\ i < j - 1
        BY <2>7, <2>8, <2>11
      <3> QED
        BY <2>5, <2>7, <2>11, <3>1
    <2>12. CASE j > k + 1 /\ i = k + 1
      <3>1. j - 1 \in 1..n /\ j - 1 > k
        BY <2>7, <2>8, <2>12
      <3> QED
        BY <2>6, <2>7, <2>12, <3>1
    <2>13. CASE j > k + 1 /\ i > k + 1
      <3>1. i - 1 \in 1..n /\ j - 1 \in 1..n /\ i - 1 < j - 1
        BY <2>7, <2>8, <2>13
      <3> QED
        BY <2>5, <2>7, <2>13, <3>1
    <2> QED
      BY <2>8, <2>9, <2>10, <2>11, <2>12, <2>13
  <1>13. Others
    BY <1>1, <1>2, <1>3, <1>12 DEF IInv, TypeOK, Others
  <1>14. TypeOK /\ 1 \in Nat
    BY DEF IInv
  <1> QED
    BY <1>1, <1>9, <1>10, <1>11, <1>13, <1>14, SavedIsRight, SwitchKeeps

\* The thread on the processor waits for s, at p once it does.
LEMMA BlockKeeps ==
    ASSUME IInv, NEW s \in AllSems, NEW p \in [Ctx -> Steps], NEW n \in Nat,
           InUser, Block(s, p, n), store[s].alive = TRUE, store[s].counter = 0,
           UNCHANGED <<threads, zombi, sleeping, time, now, got, yielding>>,
           Waits(p, mq', pc, mq, current, s), mq' \in [Ctx -> AllQueues \cup {NULL}],
           zombi[current] => p[current] = "user"
    PROVE  IInv'
  <1> DEFINE r == R!Remove(ring, current)
             u == InLine(store, s, current)
  <1>1. ~yielding /\ pc[run] = "user" /\ run # Idle /\ ~yielding'
    BY DEF InUser, At
  <1>2. /\ run = current /\ current \in Ctx /\ current \in Mem /\ Ring1(ring, current)
        /\ Idle \in Mem /\ Idle \in Ctx /\ Idle # current /\ pc[current] = "user"
    BY <1>1, Running
  <1>3. /\ sleeping \in Seq(Ctx) /\ store \in Stores /\ PlacesGood(Mem, sleeping, store, pc, mq)
        /\ CoinsGood(store, pc, mq) /\ DeadGood(store[WaitMq].messages, pc, got)
    BY DEF IInv, Good, Typed
  <1>4. /\ u \in Stores /\ Joined(u, store, s, current)
        /\ u[s].alive = store[s].alive /\ u[s].counter = store[s].counter
        /\ u[s].messages = store[s].messages
    BY <1>2, <1>3, JoinedIs
  <1>5. store[s].counter = 0 /\ u[s].counter = 0
    BY <1>4
  <1>6. u[s].alive = TRUE
    BY <1>4
  <1>7. scheduler(current, ring.next[current], r, u, p, n)
    BY DEF Block, InLine
  <1>8. /\ Loop(r, ring.next[current]) /\ R!Members(r) = Mem \ {current}
    BY <1>2, LeaverIsUnchained DEF Mem
  <1> HIDE DEF r, u
  <1>9. PlacesGood(Mem \ {current}, sleeping, u, p, mq') /\ LineGrows(u, store, s, current)
    <2>1. current \in Mem \cap Ctx
      BY <1>2
    <2> QED
      BY <1>3, <1>4, <2>1, JoinsLine
  <1>10. CoinsGood(u, p, mq')
    BY <1>2, <1>3, <1>4, <1>5, <1>6, <1>9, CoinAwaited
  <1>11. p[current] \in {"user", "woken"} /\ \A t \in Ctx : t # current => p[t] = pc[t]
    BY QueuesAre DEF Waits
  <1>12. DeadGood(u[WaitMq].messages, p, got)
    <2>1. u[WaitMq].messages = store[WaitMq].messages
      BY <1>4, QueuesAre DEF Joined
    <2>2. \A l \in {"reap", "clear", "dead", "freed"} : \A t \in Ctx : p[t] = l <=> pc[t] = l
      <3> SUFFICES ASSUME NEW l \in {"reap", "clear", "dead", "freed"}, NEW t \in Ctx
                   PROVE  p[t] = l <=> pc[t] = l
        OBVIOUS
      <3>1. CASE t = current
        BY <1>2, <1>11, <3>1
      <3>2. CASE t # current
        BY <1>11, <3>2
      <3> QED
        BY <3>1, <3>2
    <2> QED
      BY <1>3, <2>1, <2>2, DeadStay
  <1>13. Good(R!Members(r), sleeping', u, p, mq', got')
    <2>1. /\ got \in [Ctx -> Data \cup Ctx \cup {NULL}] /\ Mem \ {current} \subseteq Ctx
      BY Running DEF Typed
    <2>2. Typed(Mem \ {current}, sleeping, u, p, mq', got)
      BY <1>3, <1>4, <2>1 DEF Typed
    <2>3. sleeping' = sleeping /\ got' = got
      OBVIOUS
    <2> QED
      BY <1>8, <1>9, <1>10, <1>12, <2>2, <2>3 DEF Good
  <1>14. IdleGood(R!Members(r), p, zombi) /\ Free(p)
    <2>1. Free(pc)
      BY <1>2, NobodyBusy
    <2>2. Free(p)
      <3> SUFFICES ASSUME NEW t \in Ctx PROVE p[t] \notin {"unlink", "clear"}
        BY DEF Free
      <3> QED
        BY <1>11, <2>1 DEF Free
    <2>3. IdleGood(Mem, pc, zombi)
      BY DEF IInv
    <2>4. Idle \in Mem \ {current} /\ p[Idle] \in {"start", "user"} /\ ~zombi[Idle]
      BY <1>2, <1>11, <2>3 DEF IdleGood
    <2>5. \A t \in Ctx : zombi[t] => p[t] \notin {"woken", "unlink", "reap", "clear"}
      <3> SUFFICES ASSUME NEW t \in Ctx, zombi[t]
                   PROVE  p[t] \notin {"woken", "unlink", "reap", "clear"}
        OBVIOUS
      <3>1. CASE t = current
        BY <3>1
      <3>2. CASE t # current
        BY <1>11, <2>3, <3>2 DEF IdleGood
      <3> QED
        BY <3>1, <3>2
    <2> QED
      BY <1>8, <2>2, <2>4, <2>5 DEF IdleGood
  <1>15. Others
    <2>1. SleepersSorted'
      BY DEF IInv, SleepersSorted
    <2>2. yielding' \in BOOLEAN /\ threads' \subseteq Ctx /\ time' \in [Ctx -> Nat] /\ now' \in Nat
      BY DEF IInv, TypeOK
    <2> QED
      BY <1>1, <2>1, <2>2 DEF Others
  <1>16. \A t \in Ctx : p[t] \in Lives => Save(current)[t] = t
    <2> SUFFICES ASSUME NEW t \in Ctx, p[t] \in Lives PROVE Save(current)[t] = t
      OBVIOUS
    <2>1. t = current \/ pc[t] \in Lives
      BY <1>11
    <2> QED
      BY <2>1, SavedIsRight
  <1>17. TypeOK
    BY DEF IInv
  <1> QED
    BY <1>7, <1>8, <1>13, <1>14, <1>15, <1>16, <1>17, SavedIsRight, SwitchKeeps

\* The function of a thread returns: it dies, and the next thread runs.
LEMMA ExitKeeps == ASSUME IInv, Exit PROVE IInv'
  <1> DEFINE r2 == GiveRing(ring, current, store, WaitMq)
             r == R!Remove(r2, current)
             u == Send(store, WaitMq, current)
             p == [pc EXCEPT ![current] = "dead"]
             M == (Mem \cup Woken(store, WaitMq)) \ {current}
  <1>1. ~yielding /\ pc[run] = "user" /\ run # Idle
    BY DEF Exit, InUser, At
  <1>2. /\ run = current /\ current \in Ctx /\ current \in Mem /\ Ring1(ring, current)
        /\ Idle \in Mem /\ Idle \in Ctx /\ Idle # current /\ pc[current] = "user"
        /\ pc \in [Ctx -> Steps]
    BY <1>1, Running
  <1>3. /\ scheduler(NULL, r2.next[current], r, u, p, 1)
        /\ UNCHANGED <<threads, zombi, sleeping, time, now, mq, got, yielding>>
    BY <1>2 DEF Exit
  <1>4. Good(Mem, sleeping, store, pc, mq, got) /\ IdleGood(Mem, pc, zombi)
    BY DEF IInv
  <1>5. /\ Good(M, sleeping, u, p, mq, got) /\ IdleGood(M, p, zombi)
        /\ Woken(store, WaitMq) \subseteq Ctx \ Mem
    BY <1>2, <1>4, GoodDies
  <1>6. Ring1(r2, current) /\ R!Members(r2) = Mem \cup Woken(store, WaitMq)
    BY <1>2, <1>5, RingGiven DEF Mem
  <1>7. Idle \in R!Members(r2) \ {current}
    BY <1>2, <1>6
  <1>8. Loop(r, r2.next[current]) /\ R!Members(r) = M
    BY <1>6, <1>7, LeaverIsUnchained
  <1>9. p[current] = "dead" /\ \A t \in Ctx \ {current} : p[t] = pc[t]
    BY <1>2
  <1> HIDE DEF r2, r, u, p, M
  <1>10. Free(p)
    <2>1. Free(pc)
      BY <1>2, NobodyBusy
    <2> QED
      BY <1>9, <2>1 DEF Free
  <1>11. Others
    <2>1. SleepersSorted'
      BY <1>3 DEF IInv, SleepersSorted
    <2>2. yielding' \in BOOLEAN /\ threads' \subseteq Ctx /\ time' \in [Ctx -> Nat] /\ now' \in Nat
      BY <1>3 DEF IInv, TypeOK
    <2> QED
      BY <1>1, <1>3, <2>1, <2>2 DEF Others
  <1>12. Save(NULL) = saved /\ saved \in [Ctx -> Ctx \cup {NULL}] /\ TypeOK
    BY DEF Save, IInv, TypeOK
  <1>13. \A t \in Ctx : p[t] \in Lives => Save(NULL)[t] = t
    <2>1. "dead" \notin Lives /\ StacksGood(saved, pc, current)
      BY DEF Lives, IInv
    <2> QED
      BY <1>9, <1>12, <2>1 DEF StacksGood
  <1>14. Good(R!Members(r), sleeping', u, p, mq', got') /\ IdleGood(R!Members(r), p, zombi)
    BY <1>3, <1>5, <1>8
  <1>15. 1 \in Nat
    OBVIOUS
  <1> QED
    BY <1>3, <1>8, <1>10, <1>11, <1>12, <1>13, <1>14, <1>15, SwitchKeeps

\* What a call that does not switch threads has to keep.
LEMMA QuietKeeps ==
    ASSUME IInv, UNCHANGED <<current, run, sleeping, time, now, yielding>>, ~yielding, current # Idle,
           it' \in Nat, irq' \in BOOLEAN, threads' \subseteq Ctx, zombi' \in [Ctx -> BOOLEAN],
           saved' \in [Ctx -> Ctx \cup {NULL}], Ring1(ring', current),
           Good(Mem', sleeping, store', pc', mq', got'), IdleGood(Mem', pc', zombi'),
           StacksGood(saved', pc', current), pc'[current] # "start",
           \A t \in Ctx : pc'[t] \in {"unlink", "clear"} => t = current,
           pc'[current] = "unlink" => /\ store'[mq'[current]].messages # <<>>
                                      /\ got'[current] = Head(store'[mq'[current]].messages)
    PROVE  IInv'
  <1>1. TypeOK'
    <2>1. /\ store' \in Stores /\ pc' \in [Ctx -> Steps]
          /\ mq' \in [Ctx -> AllQueues \cup {NULL}] /\ got' \in [Ctx -> Data \cup Ctx \cup {NULL}]
      BY DEF Good, Typed
    <2>2. /\ time' \in [Ctx -> Nat] /\ now' \in Nat /\ yielding' \in BOOLEAN /\ sleeping' \in Seq(Ctx)
          /\ current' \in Ctx /\ run' \in Ctx
      BY DEF IInv, TypeOK
    <2>3. ring' \in R!Rings
      BY DEF Ring1
    <2> QED
      BY <2>1, <2>2, <2>3 DEF TypeOK, Stores, Cells, Steps
  <1>2. RingInv'
    BY DEF RingInv, Ring1
  <1>3. BusyInv'
    BY Running DEF BusyInv
  <1>4. SleepersSorted'
    BY DEF IInv, SleepersSorted
  <1>5. Good(Mem', sleeping', store', pc', mq', got') /\ StacksGood(saved', pc', current')
    OBVIOUS
  <1> QED
    BY <1>1, <1>2, <1>3, <1>4, <1>5 DEF IInv

LEMMA Caller ==
    ASSUME IInv, InUser
    PROVE  /\ ~yielding /\ run = current /\ current # Idle /\ pc[current] = "user" /\ Free(pc)
           /\ current \in Ctx /\ current \in Mem /\ Ring1(ring, current)
           /\ sleeping \in Seq(Ctx) /\ store \in Stores /\ pc \in [Ctx -> Steps]
           /\ mq \in [Ctx -> AllQueues \cup {NULL}] /\ got \in [Ctx -> Data \cup Ctx \cup {NULL}]
           /\ Mem \subseteq Ctx /\ it \in Nat
           /\ Good(Mem, sleeping, store, pc, mq, got) /\ IdleGood(Mem, pc, zombi)
           /\ StacksGood(saved, pc, current) /\ saved \in [Ctx -> Ctx \cup {NULL}]
           /\ threads \subseteq Ctx /\ zombi \in [Ctx -> BOOLEAN]
  <1>1. ~yielding /\ pc[run] = "user" /\ run # Idle
    BY DEF InUser, At
  <1>2. /\ run = current /\ current \in Ctx /\ current \in Mem /\ Ring1(ring, current)
        /\ Typed(Mem, sleeping, store, pc, mq, got)
    BY Running
  <1>3. Free(pc)
    BY <1>1, <1>2, NobodyBusy
  <1>4. /\ Good(Mem, sleeping, store, pc, mq, got) /\ IdleGood(Mem, pc, zombi)
        /\ StacksGood(saved, pc, current)
    BY DEF IInv
  <1>5. /\ it \in Nat /\ saved \in [Ctx -> Ctx \cup {NULL}]
        /\ threads \subseteq Ctx /\ zombi \in [Ctx -> BOOLEAN]
    BY DEF IInv, TypeOK
  <1> QED
    BY <1>1, <1>2, <1>3, <1>4, <1>5 DEF Typed

\* A call of user code that touches one semaphore or the ring, and no place.
LEMMA CallKeeps ==
    ASSUME IInv, InUser, it' \in Nat, irq' \in BOOLEAN,
           UNCHANGED <<current, run, saved, threads, zombi, sleeping, time, now, yielding, pc, mq, got>>,
           Ring1(ring', current), Mem \subseteq Mem', Good(Mem', sleeping, store', pc, mq, got)
    PROVE  IInv'
  <1>1. /\ ~yielding /\ current # Idle /\ pc[current] = "user" /\ Free(pc) /\ IdleGood(Mem, pc, zombi)
        /\ StacksGood(saved, pc, current) /\ saved \in [Ctx -> Ctx \cup {NULL}]
        /\ threads \subseteq Ctx /\ zombi \in [Ctx -> BOOLEAN]
    BY Caller
  <1>2. IdleGood(Mem', pc, zombi)
    BY <1>1 DEF IdleGood
  <1>3. \A t \in Ctx : pc'[t] \in {"unlink", "clear"} => t = current
    BY <1>1 DEF Free
  <1>4. pc'[current] # "start" /\ pc'[current] # "unlink"
    BY <1>1
  <1>5. Good(Mem', sleeping, store', pc', mq', got') /\ IdleGood(Mem', pc', zombi')
    BY <1>2
  <1>6. /\ StacksGood(saved', pc', current) /\ saved' \in [Ctx -> Ctx \cup {NULL}]
        /\ threads' \subseteq Ctx /\ zombi' \in [Ctx -> BOOLEAN]
    BY <1>1
  <1>7. UNCHANGED <<current, run, sleeping, time, now, yielding>>
    OBVIOUS
  <1> QED
    BY <1>1, <1>3, <1>4, <1>5, <1>6, <1>7, QuietKeeps

\* disable_it ... enable_it.
LEMMA BalancedIs == ASSUME it \in Nat, Balanced PROVE it' \in Nat /\ irq' \in BOOLEAN
  BY DEF Balanced

\* The cell of s changes, and nobody's place.
LEMMA CellSet ==
    ASSUME NEW M, NEW sl, NEW st, NEW p, NEW m, NEW g, Good(M, sl, st, p, m, g),
           NEW s \in AllSems, s # WaitMq, NEW u \in Stores, \A t \in AllSems : t # s => u[t] = st[t],
           u[s].waiting = st[s].waiting, CellGood(u, p, m, s)
    PROVE  Good(M, sl, u, p, m, g)
  <1>1. /\ Typed(M, sl, st, p, m, g) /\ PlacesGood(M, sl, st, p, m)
        /\ CoinsGood(st, p, m) /\ DeadGood(st[WaitMq].messages, p, g)
    BY DEF Good
  <1>2. \A t \in AllSems : u[t].waiting = st[t].waiting
    OBVIOUS
  <1>3. PlacesGood(M, sl, u, p, m)
    BY <1>1, <1>2, ListsStay
  <1>4. \A t \in AllSems : Line(u, t) = Line(st, t)
    BY <1>2 DEF Line
  <1>5. CoinsGood(u, p, m)
    <2>1. \A q \in AllQueues : Rec(u, p, m, q) = Rec(st, p, m, q)
      BY <1>4, QueuesAre DEF Rec
    <2>2. OthersStay(u, p, m, st, p, m, s)
      BY <2>1 DEF OthersStay
    <2>3. ReceiveFromQueues(p, m)
      BY <1>1 DEF CoinsGood, ReceiveFromQueues
    <2> QED
      BY <1>1, <2>2, <2>3, OnlyOneChanges
  <1>6. DeadGood(u[WaitMq].messages, p, g)
    BY <1>1, QueuesAre
  <1>7. Typed(M, sl, u, p, m, g)
    BY <1>1 DEF Typed
  <1> QED
    BY <1>3, <1>5, <1>6, <1>7 DEF Good

-----------------------------------------------------------------------------
(* Semaphores and queues.                                                   *)

LEMMA SemTakeKeeps == ASSUME IInv, NEW s \in Sems, SemTake(s) PROVE IInv'
  <1>1. /\ InUser /\ store[s].alive /\ s \in AllSems /\ s \notin AllQueues /\ s # WaitMq
        /\ UNCHANGED <<threads, zombi, sleeping, time, now, mq, got, yielding>>
    BY QueuesAre DEF SemTake
  <1>2. /\ current \in Ctx /\ pc[current] = "user" /\ store \in Stores /\ pc \in [Ctx -> Steps]
        /\ mq \in [Ctx -> AllQueues \cup {NULL}] /\ it \in Nat
        /\ Ring1(ring, current) /\ Good(Mem, sleeping, store, pc, mq, got)
    BY <1>1, Caller
  <1>3. store[s] \in Cells /\ store[s].alive = TRUE /\ store[s].counter \in Nat
    BY <1>1, <1>2, CellsAre
  <1>4. CASE HasCoin(s) /\ store' = [store EXCEPT ![s].counter = @ - 1] /\ Balanced
             /\ UNCHANGED <<ring, current, run, saved, pc>>
    <2>1. store[s].counter > 0 /\ store[s].counter - 1 \in Nat
      BY <1>3, <1>4 DEF HasCoin
    <2>2. store' = [store EXCEPT ![s] = [store[s] EXCEPT !.counter = store[s].counter - 1]]
      BY <1>4
    <2>3. [store[s] EXCEPT !.counter = store[s].counter - 1] \in Cells
      BY <1>3, <2>1 DEF Cells
    <2>4. /\ store' \in Stores /\ \A t \in AllSems : t # s => store'[t] = store[t]
          /\ store'[s] = [store[s] EXCEPT !.counter = store[s].counter - 1]
      BY <1>1, <1>2, <2>2, <2>3 DEF Stores
    <2>5. /\ store'[s].alive = store[s].alive /\ store'[s].waiting = store[s].waiting
      BY <1>3, <2>4 DEF Cells
    <2>6. store[s].waiting = <<>>
      BY <1>1, <1>2, <2>1 DEF Good, CoinsGood
    <2>7. CellGood(store', pc, mq, s)
      BY <1>1, <1>3, <2>5, <2>6 DEF CellGood
    <2>8. Good(Mem, sleeping, store', pc, mq, got)
      BY <1>1, <1>2, <2>4, <2>5, <2>7, CellSet
    <2>9. it' \in Nat /\ irq' \in BOOLEAN
      BY <1>2, <1>4, BalancedIs
    <2>10. Mem' = Mem /\ Ring1(ring', current)
      BY <1>2, <1>4 DEF Mem
    <2>11. UNCHANGED <<current, run, saved, threads, zombi, sleeping, time, now, yielding, pc, mq, got>>
      BY <1>1, <1>4
    <2>12. Mem \subseteq Mem' /\ Good(Mem', sleeping, store', pc, mq, got)
      BY <2>8, <2>10
    <2> QED
      BY <1>1, <2>9, <2>10, <2>11, <2>12, CallKeeps
  <1>5. CASE ~HasCoin(s) /\ Block(s, pc, 1)
    <2>1. ~(store[s].counter > 0)
      BY <1>5 DEF HasCoin
    <2>2. store[s].counter = 0 /\ 1 \in Nat
      BY <1>3, <2>1
    <2>3. Waits(pc, mq', pc, mq, current, s)
      BY <1>1, <1>2 DEF Waits
    <2>4. /\ mq' \in [Ctx -> AllQueues \cup {NULL}] /\ pc[current] = "user"
          /\ UNCHANGED <<threads, zombi, sleeping, time, now, got, yielding>>
      BY <1>1, <1>2
    <2> QED
      BY <1>1, <1>2, <1>3, <1>5, <2>2, <2>3, <2>4, BlockKeeps
  <1> QED
    BY <1>4, <1>5 DEF SemTake

LEMMA SemGiveKeeps == ASSUME IInv, NEW s \in Sems, SemGive(s) PROVE IInv'
  <1> DEFINE W == Woken(store, s)
  <1>1. /\ InUser /\ store[s].alive /\ s \in AllSems /\ s \notin AllQueues /\ s # WaitMq
        /\ store' = Give(store, s) /\ ring' = GiveRing(ring, current, store, s) /\ Balanced
        /\ UNCHANGED <<current, run, saved, threads, zombi, sleeping, time, now, pc, mq, got, yielding>>
    BY QueuesAre DEF SemGive
  <1>2. /\ current \in Ctx /\ store \in Stores /\ it \in Nat
        /\ Ring1(ring, current) /\ Good(Mem, sleeping, store, pc, mq, got) /\ Mem \subseteq Ctx
    BY <1>1, Caller
  <1>3. store[s].alive = TRUE
    BY <1>1, <1>2, CellsAre
  <1>4. PlacesGood(Mem, sleeping, store, pc, mq) /\ CoinsGood(store, pc, mq)
    BY <1>2 DEF Good
  <1>5. /\ Give(store, s) \in Stores /\ \A t \in AllSems : t # s => Give(store, s)[t] = store[t]
        /\ WokenUnlinked(Give(store, s), store, s)
    BY <1>1, <1>2, GivenIs DEF WokenUnlinked
  <1>6. PlacesGood(Mem \cup W, sleeping, store', pc, mq) /\ W \subseteq Ctx /\ W \cap Mem = {}
    BY <1>1, <1>2, <1>4, <1>5, WokenLeavesLine
  <1>7. CoinsGood(store', pc, mq)
    BY <1>1, <1>2, <1>3, <1>4, CoinGiven
  <1>8. DeadGood(store'[WaitMq].messages, pc, got)
    BY <1>1, <1>2, <1>5, QueuesAre DEF Good
  <1>9. Ring1(ring', current) /\ R!Members(ring') = Mem \cup W
    <2>1. Woken(store, s) \subseteq Ctx \ R!Members(ring)
      BY <1>6 DEF Mem
    <2> QED
      BY <1>1, <1>2, <2>1, RingGiven DEF Mem
  <1>10. Good(Mem', sleeping, store', pc, mq, got) /\ Mem \subseteq Mem'
    <2>1. Mem' = Mem \cup W
      BY <1>9 DEF Mem
    <2>2. Typed(Mem \cup W, sleeping, store', pc, mq, got)
      BY <1>1, <1>2, <1>5, <1>6 DEF Good, Typed
    <2> QED
      BY <1>6, <1>7, <1>8, <2>1, <2>2 DEF Good
  <1>11. it' \in Nat /\ irq' \in BOOLEAN
    BY <1>1, <1>2, BalancedIs
  <1> QED
    BY <1>1, <1>9, <1>10, <1>11, CallKeeps

LEMMA SendKeeps == ASSUME IInv, NEW q \in Queues, NEW d \in Data, SendMessage(q, d) PROVE IInv'
  <1> DEFINE W == Woken(store, q)
  <1>1. /\ InUser /\ store[q].alive
        /\ store' = Send(store, q, d) /\ ring' = GiveRing(ring, current, store, q) /\ Balanced
        /\ UNCHANGED <<current, run, saved, threads, zombi, sleeping, time, now, pc, mq, got, yielding>>
    BY DEF SendMessage
  <1>2. /\ current \in Ctx /\ store \in Stores /\ it \in Nat
        /\ Ring1(ring, current) /\ Good(Mem, sleeping, store, pc, mq, got) /\ Mem \subseteq Ctx
    BY <1>1, Caller
  <1>3. q \in AllQueues /\ q \in AllSems /\ q # WaitMq /\ d \in Data \cup Ctx
    BY Ordo3Assumption, QueuesAre DEF AllQueues
  <1>4. PlacesGood(Mem, sleeping, store, pc, mq) /\ CoinsGood(store, pc, mq) /\ store[q].alive = TRUE
    BY <1>1, <1>2, <1>3, CellsAre DEF Good
  <1>5. /\ store' \in Stores /\ \A t \in AllSems : t # q => store'[t] = store[t]
    BY <1>1, <1>2, <1>3, SentIs
  <1>6. /\ CoinsGood(store', pc, mq) /\ PlacesGood(Mem \cup W, sleeping, store', pc, mq)
        /\ W \subseteq Ctx \ Mem
    BY <1>1, <1>2, <1>3, <1>4, CoinSent
  <1>7. DeadGood(store'[WaitMq].messages, pc, got)
    BY <1>2, <1>3, <1>5, QueuesAre DEF Good
  <1>8. Ring1(ring', current) /\ R!Members(ring') = Mem \cup W
    BY <1>1, <1>2, <1>6, RingGiven DEF Mem
  <1>9. Good(Mem', sleeping, store', pc, mq, got) /\ Mem \subseteq Mem'
    <2>1. Mem' = Mem \cup W
      BY <1>8 DEF Mem
    <2>2. Typed(Mem \cup W, sleeping, store', pc, mq, got)
      BY <1>1, <1>2, <1>5, <1>6 DEF Good, Typed
    <2> QED
      BY <1>6, <1>7, <2>1, <2>2 DEF Good
  <1>10. it' \in Nat /\ irq' \in BOOLEAN
    BY <1>1, <1>2, BalancedIs
  <1> QED
    BY <1>1, <1>8, <1>9, <1>10, CallKeeps

LEMMA NewIs ==
    ASSUME NEW i \in Nat
    PROVE  /\ New(i) \in Cells /\ New(i).alive = TRUE /\ New(i).counter = i
           /\ New(i).waiting = <<>> /\ New(i).messages = <<>>
           /\ Deleted \in Cells /\ Deleted.alive = FALSE /\ Deleted.counter = 0
           /\ Deleted.waiting = <<>> /\ Deleted.messages = <<>>
  <1>1. /\ New(i) \in Cells /\ New(i).alive = TRUE /\ New(i).counter = i
        /\ New(i).waiting = <<>> /\ New(i).messages = <<>>
    BY DEF New, Cells
  <1> DEFINE n == New(0)
  <1>2. n \in Cells /\ n.counter = 0 /\ n.waiting = <<>> /\ n.messages = <<>>
    BY DEF New, Cells
  <1>3. Deleted = [n EXCEPT !.alive = FALSE]
    BY DEF Deleted
  <1> HIDE DEF n
  <1>4. /\ Deleted \in Cells /\ Deleted.alive = FALSE /\ Deleted.counter = 0
        /\ Deleted.waiting = <<>> /\ Deleted.messages = <<>>
    BY <1>2, <1>3 DEF Cells
  <1> QED
    BY <1>1, <1>4

\* sem_init and message_queue_create.
LEMMA NewSemaphoreKeeps ==
    ASSUME IInv, NEW s \in Sems \cup Queues, NEW i \in Nat, s \in Queues => i = 0,
           NewSemaphore(s, i)
    PROVE  IInv'
  <1>1. /\ InUser /\ ~store[s].alive /\ store' = [store EXCEPT ![s] = New(i)] /\ Balanced
        /\ UNCHANGED <<ring, current, run, saved, sleeping, time, now, yielding>>
        /\ UNCHANGED <<threads, zombi, pc, mq, got>>
    BY DEF NewSemaphore, KeepsThreads
  <1>2. /\ store \in Stores /\ it \in Nat
        /\ Ring1(ring, current) /\ Good(Mem, sleeping, store, pc, mq, got)
    BY <1>1, Caller
  <1>3. s \in AllSems /\ s # WaitMq
    BY Ordo3Assumption DEF AllSems, AllQueues
  <1>4. store[s] = Deleted
    BY <1>1, <1>2, <1>3 DEF Good, CoinsGood
  <1>5. store' \in Stores /\ store'[s] = New(i) /\ \A t \in AllSems : t # s => store'[t] = store[t]
    BY <1>1, <1>2, <1>3, NewIs DEF Stores
  <1>6. /\ store'[s].waiting = store[s].waiting /\ store'[s].waiting = <<>>
        /\ store'[s].alive = TRUE /\ store'[s].counter = i /\ store'[s].messages = <<>>
    BY <1>4, <1>5, NewIs
  <1>7. CellGood(store', pc, mq, s)
    <2>1. ASSUME s \in AllQueues
          PROVE  Len(store'[s].messages) = store'[s].counter + Cardinality(Rec(store', pc, mq, s))
      <3>1. i = 0
        BY <1>3, <2>1, QueuesAre DEF AllQueues
      <3>2. Rec(store', pc, mq, s) = Rec(store, pc, mq, s)
        BY <1>6 DEF Rec, Line
      <3>3. Len(Deleted.messages) = Deleted.counter + Cardinality(Rec(store, pc, mq, s))
        BY <1>2, <1>4, <2>1 DEF Good, CoinsGood
      <3>4. Cardinality(Rec(store, pc, mq, s)) \in Nat
        BY ReceiversCounted
      <3>5. Deleted.counter = 0 /\ Deleted.messages = <<>>
        BY NewIs
      <3>6. Cardinality(Rec(store, pc, mq, s)) = 0
        BY <3>3, <3>4, <3>5
      <3>7. Len(store'[s].messages) = 0 /\ store'[s].counter = 0
        BY <1>6, <3>1
      <3> QED
        BY <3>2, <3>6, <3>7
    <2> QED
      BY <1>6, <2>1 DEF CellGood
  <1>8. Good(Mem, sleeping, store', pc, mq, got)
    BY <1>2, <1>3, <1>5, <1>6, <1>7, CellSet
  <1>9. it' \in Nat /\ irq' \in BOOLEAN
    BY <1>1, <1>2, BalancedIs
  <1>10. Ring1(ring', current) /\ Mem \subseteq Mem' /\ Good(Mem', sleeping, store', pc, mq, got)
    BY <1>1, <1>2, <1>8 DEF Mem
  <1> QED
    BY <1>1, <1>9, <1>10, CallKeeps

\* Receiving(q) is what the invariant counts.
LEMMA ReceivingIs ==
    ASSUME store \in Stores, NEW q \in AllSems
    PROVE  Receiving(q) = Rec(store, pc, mq, q)
  <1>1. store[q].waiting \in Seq(Ctx)
    BY CellsAre
  <1>2. \A t : t \in Line(store, q) <=> \E i \in DOMAIN store[q].waiting : store[q].waiting[i] = t
    BY <1>1, ElementsAre DEF Line
  <1> QED
    BY <1>2 DEF Receiving, Rec

LEMMA DeleteKeeps ==
    ASSUME IInv, NEW s \in Sems \cup Queues, Receiving(s) = {}, Delete(s)
    PROVE  IInv'
  <1>1. /\ InUser
        /\ UNCHANGED <<ring, current, run, saved, sleeping, time, now, yielding>>
        /\ UNCHANGED <<threads, zombi, pc, mq, got>>
    BY DEF Delete, KeepsThreads
  <1>2. /\ store \in Stores /\ it \in Nat
        /\ Ring1(ring, current) /\ Good(Mem, sleeping, store, pc, mq, got)
    BY <1>1, Caller
  <1>3. s \in AllSems /\ s # WaitMq
    BY Ordo3Assumption DEF AllSems, AllQueues
  <1>4. Good(Mem, sleeping, store', pc, mq, got) /\ it' \in Nat /\ irq' \in BOOLEAN
    <2>1. CASE it' = it + 1 /\ irq' = TRUE /\ store' = store
      <3>1. it' \in Nat
        BY <1>2, <2>1
      <3> QED
        BY <1>2, <2>1, <3>1
    <2>2. CASE ~Refused(s) /\ store' = [store EXCEPT ![s] = Deleted] /\ Balanced
      <3>1. store[s].waiting = <<>>
        BY <2>2 DEF Refused
      <3>2. Deleted \in Cells /\ Deleted.waiting = <<>> /\ Deleted.counter = 0 /\ Deleted.messages = <<>>
        BY NewIs
      <3>3. /\ store' \in Stores /\ store'[s] = Deleted
            /\ \A t \in AllSems : t # s => store'[t] = store[t]
        BY <1>2, <1>3, <2>2, <3>2 DEF Stores
      <3>4. store'[s].waiting = store[s].waiting
        BY <3>1, <3>2, <3>3
      <3>5. CellGood(store', pc, mq, s)
        <4>1. Rec(store', pc, mq, s) = {}
          BY <1>2, <1>3, <3>4, ReceivingIs DEF Rec, Line
        <4>2. Cardinality(Rec(store', pc, mq, s)) = 0
          BY <4>1, ReceiversCounted
        <4>3. store'[s].counter = 0 /\ Len(store'[s].messages) = 0 /\ ~(store'[s].counter > 0)
          BY <3>2, <3>3
        <4> QED
          BY <1>3, <3>3, <4>2, <4>3 DEF CellGood
      <3>6. Good(Mem, sleeping, store', pc, mq, got)
        BY <1>2, <1>3, <3>3, <3>4, <3>5, CellSet
      <3> QED
        BY <1>2, <2>2, <3>6, BalancedIs
    <2> QED
      BY <2>1, <2>2 DEF Delete
  <1>5. Ring1(ring', current) /\ Mem \subseteq Mem' /\ Good(Mem', sleeping, store', pc, mq, got)
    BY <1>1, <1>2, <1>4 DEF Mem
  <1> QED
    BY <1>1, <1>4, <1>5, CallKeeps

\* Nobody joins or leaves a list, and the places p2 differ from p for ready
\* threads and for threads that do not live.
LEMMA NobodyMoves ==
    ASSUME NEW M, NEW sl, NEW st, NEW p, NEW m, NEW g, NEW p2, NEW m2,
           Good(M, sl, st, p, m, g), NEW r \in M, p2[r] \in Lives,
           \A t \in Ctx \ {r} : m2[t] = m[t],
           \A t \in Ctx \ {r} : p2[t] = p[t] \/ (p[t] \notin Lives /\ p2[t] \notin Lives)
    PROVE  PlacesGood(M, sl, st, p2, m2)
  <1>1. /\ PlacesGood(M, sl, st, p, m) /\ M \subseteq Ctx /\ sl \in Seq(Ctx) /\ st \in Stores
    BY DEF Good, Typed
  <1>2. \A t \in Ctx : p[t] \in Lives <=> t \in M \cup ToSet(sl) \cup Lines(st)
    BY <1>1 DEF PlacesGood
  <1>3. \A t \in M \cap Ctx : p2[t] \in Lives
    BY <1>2
  <1>4. \A t \in Ctx \ M : p2[t] \in Lives <=> p[t] \in Lives
    OBVIOUS
  <1>5. r \notin ToSet(sl) \cup Lines(st)
    BY <1>1 DEF PlacesGood
  <1>6. ToSet(sl) \cup Lines(st) \subseteq Ctx
    BY <1>1, ElementsAre, InLines, LinesAreThreads
  <1>7. \A t \in ToSet(sl) \cup Lines(st) : p2[t] = p[t] /\ m2[t] = m[t]
    BY <1>2, <1>5, <1>6
  <1> QED
    BY <1>1, <1>3, <1>4, <1>7, ReadyGoOn

\* A receiver r takes the first message of q out of it, and goes on.
Takes(u, st, q) ==
    /\ u \in Stores /\ \A t \in AllSems : t # q => u[t] = st[t]
    /\ u[q].alive = st[q].alive /\ u[q].waiting = st[q].waiting
    /\ st[q].messages # <<>> /\ u[q].messages = Tail(st[q].messages)
GoesOn(p2, m2, g2, p, m, g, r, q, d) ==
    /\ p2[r] = After(q)
    /\ q = WaitMq => p2[r] = "reap" /\ g2[r] = d
    /\ q # WaitMq => p2[r] = "user"
    /\ \A t \in Ctx \ {r} : p2[t] = p[t] /\ m2[t] = m[t] /\ g2[t] = g[t]

LEMMA MessageTaken ==
    ASSUME NEW M, NEW sl, NEW st, NEW p, NEW m, NEW g, NEW u, NEW p2, NEW m2, NEW g2, NEW q \in AllQueues,
           Good(M, sl, st, p, m, g), NEW r \in M, p[r] \in {"user", "unlink"},
           Takes(u, st, q), GoesOn(p2, m2, g2, p, m, g, r, q, Head(st[q].messages)),
           p2 \in [Ctx -> Steps], m2 \in [Ctx -> AllQueues \cup {NULL}],
           g2 \in [Ctx -> Data \cup Ctx \cup {NULL}],
           CellGood(u, p2, m2, q), OthersStay(u, p2, m2, st, p, m, q)
    PROVE  Good(M, sl, u, p2, m2, g2)
  <1>1. /\ Typed(M, sl, st, p, m, g) /\ PlacesGood(M, sl, st, p, m)
        /\ CoinsGood(st, p, m) /\ DeadGood(st[WaitMq].messages, p, g) /\ r \in Ctx /\ q \in AllSems
    BY QueuesAre DEF Good, Typed
  <1>2. /\ p2[r] \in {"reap", "user"} /\ p2[r] \in Lives
        /\ \A t \in Ctx \ {r} : p2[t] = p[t] /\ m2[t] = m[t] /\ g2[t] = g[t]
    BY DEF GoesOn, Lives
  <1>3. PlacesGood(M, sl, u, p2, m2)
    <2>1. PlacesGood(M, sl, st, p2, m2)
      BY <1>2, NobodyMoves
    <2>2. \A t \in AllSems : u[t].waiting = st[t].waiting
      BY DEF Takes
    <2> QED
      BY <2>1, <2>2, ListsStay
  <1>4. CoinsGood(u, p2, m2)
    <2>3. ReceiveFromQueues(p2, m2)
      <3> SUFFICES ASSUME NEW t \in Ctx, p2[t] \in {"woken", "unlink"} PROVE m2[t] \in AllQueues
        BY DEF ReceiveFromQueues
      <3>1. t # r
        BY <1>2
      <3> QED
        BY <1>1, <1>2, <3>1 DEF CoinsGood
    <2> QED
      BY <1>1, <2>3, OnlyOneChanges
  <1>5. DeadGood(u[WaitMq].messages, p2, g2)
    <2>1. CASE q = WaitMq
      <3>1. /\ u[WaitMq].messages = Tail(st[WaitMq].messages) /\ st[WaitMq].messages # <<>>
            /\ p2[r] = "reap" /\ g2[r] = Head(st[WaitMq].messages)
        BY <2>1 DEF Takes, GoesOn
      <3>2. \A t \in Ctx : t # r => p2[t] = p[t] /\ g2[t] = g[t]
        BY <1>2
      <3>3. DeadGood(Tail(st[WaitMq].messages), p2, g2)
        BY <1>1, <3>1, <3>2, DeathTold
      <3> QED
        BY <3>1, <3>3
    <2>2. CASE q # WaitMq
      <3>1. u[WaitMq].messages = st[WaitMq].messages /\ p2[r] = "user"
        BY <2>2, QueuesAre DEF Takes, GoesOn
      <3>2. \A l \in {"reap", "clear", "dead", "freed"} : \A t \in Ctx : p2[t] = l <=> p[t] = l
        <4> SUFFICES ASSUME NEW l \in {"reap", "clear", "dead", "freed"}, NEW t \in Ctx
                     PROVE  p2[t] = l <=> p[t] = l
          OBVIOUS
        <4>1. CASE t = r
          BY <3>1, <4>1
        <4>2. CASE t # r
          BY <1>2, <4>2
        <4> QED
          BY <4>1, <4>2
      <3>3. \A t \in Ctx : p[t] \in {"reap", "clear"} => g2[t] = g[t]
        <4> SUFFICES ASSUME NEW t \in Ctx, p[t] \in {"reap", "clear"} PROVE g2[t] = g[t]
          OBVIOUS
        <4>1. t # r
          OBVIOUS
        <4> QED
          BY <1>2, <4>1
      <3>4. DeadGood(st[WaitMq].messages, p2, g2)
        BY <1>1, <3>2, <3>3, DeadStay
      <3> QED
        BY <3>1, <3>4
    <2> QED
      BY <2>1, <2>2
  <1>6. Typed(M, sl, u, p2, m2, g2)
    BY <1>1 DEF Typed, Takes
  <1> QED
    BY <1>3, <1>4, <1>5, <1>6 DEF Good

\* What messages a queue holds.
LEMMA MessagesAre ==
    ASSUME IInv, NEW q \in AllQueues
    PROVE  /\ store[q] \in Cells /\ store[q].counter \in Nat
           /\ store[q].messages \in Seq(Data \cup Ctx)
           /\ q = WaitMq => store[q].messages \in Seq(Ctx)
           /\ Len(store[q].messages) = store[q].counter + Cardinality(Rec(store, pc, mq, q))
           /\ Cardinality(Rec(store, pc, mq, q)) \in Nat
           /\ store[q].alive = TRUE \/ (store[q] = Deleted /\ q # WaitMq)
           /\ store[q].counter > 0 => store[q].waiting = <<>>
  <1>1. store \in Stores /\ CoinsGood(store, pc, mq) /\ DeadGood(store[WaitMq].messages, pc, got) /\ q \in AllSems
    BY QueuesAre DEF IInv, Good, Typed
  <1>2. /\ store[q] \in Cells /\ store[q].counter \in Nat /\ store[q].messages \in Seq(Data \cup Ctx)
        /\ store[q].alive \in BOOLEAN
    BY <1>1, CellsAre
  <1>3. q = WaitMq => store[q].messages \in Seq(Ctx)
    BY <1>1 DEF DeadGood
  <1>4. Len(store[q].messages) = store[q].counter + Cardinality(Rec(store, pc, mq, q))
    BY <1>1 DEF CoinsGood
  <1>5. store[q].counter > 0 => store[q].waiting = <<>>
    BY <1>1 DEF CoinsGood
  <1>6. store[q].alive = TRUE \/ (store[q] = Deleted /\ q # WaitMq)
    BY <1>1, <1>2 DEF CoinsGood
  <1> QED
    BY <1>2, <1>3, <1>4, <1>5, <1>6, ReceiversCounted

\* receive_message() that finds a coin, and the second half of one that waited.
LEMMA CoinAndMessageTaken ==
    ASSUME NEW st \in Stores, NEW q \in AllSems, st[q].counter > 0, st[q].messages # <<>>
    PROVE  LET u == [st EXCEPT ![q].counter = @ - 1, ![q].messages = Tail(@)] IN
           Takes(u, st, q) /\ u[q].counter = st[q].counter - 1
  <1> DEFINE u == [st EXCEPT ![q].counter = @ - 1, ![q].messages = Tail(@)]
             a == [st EXCEPT ![q].counter = @ - 1]
  <1>1. st[q] \in Cells /\ st[q].counter - 1 \in Nat /\ Tail(st[q].messages) \in Seq(Data \cup Ctx)
    <2>1. st[q] \in Cells /\ st[q].counter \in Nat /\ st[q].messages \in Seq(Data \cup Ctx)
      BY CellsAre
    <2> QED
      BY <2>1
  <1>2. /\ a \in Stores /\ \A t \in AllSems : t # q => a[t] = st[t]
        /\ a[q] = [st[q] EXCEPT !.counter = st[q].counter - 1]
    <2>1. a = [st EXCEPT ![q] = [st[q] EXCEPT !.counter = st[q].counter - 1]]
      OBVIOUS
    <2>2. [st[q] EXCEPT !.counter = st[q].counter - 1] \in Cells
      BY <1>1 DEF Cells
    <2> HIDE DEF a
    <2> QED
      BY <2>1, <2>2 DEF Stores
  <1>3. /\ a[q] \in Cells /\ a[q].alive = st[q].alive /\ a[q].waiting = st[q].waiting
        /\ a[q].messages = st[q].messages /\ a[q].counter = st[q].counter - 1
    <2> HIDE DEF a
    <2> QED
      BY <1>1, <1>2 DEF Cells
  <1>4. u = [a EXCEPT ![q].messages = Tail(@)]
    OBVIOUS
  <1> HIDE DEF a, u
  <1>5. u = [a EXCEPT ![q] = [a[q] EXCEPT !.messages = Tail(a[q].messages)]]
    BY <1>4
  <1>6. [a[q] EXCEPT !.messages = Tail(a[q].messages)] \in Cells
    BY <1>1, <1>3 DEF Cells
  <1>7. /\ u \in Stores /\ \A t \in AllSems : t # q => u[t] = a[t]
        /\ u[q] = [a[q] EXCEPT !.messages = Tail(a[q].messages)]
    BY <1>2, <1>5, <1>6 DEF Stores
  <1>8. /\ u[q].alive = a[q].alive /\ u[q].waiting = a[q].waiting
        /\ u[q].messages = Tail(a[q].messages) /\ u[q].counter = a[q].counter
    BY <1>3, <1>7 DEF Cells
  <1>9. Takes(u, st, q) /\ u[q].counter = st[q].counter - 1
    BY <1>2, <1>3, <1>7, <1>8 DEF Takes
  <1> QED
    BY <1>9 DEF u

LEMMA MessageUnlinked ==
    ASSUME NEW st \in Stores, NEW q \in AllSems, st[q].messages # <<>>
    PROVE  LET u == [st EXCEPT ![q].messages = Tail(@)] IN
           Takes(u, st, q) /\ u[q].counter = st[q].counter
  <1> DEFINE u == [st EXCEPT ![q].messages = Tail(@)]
  <1>1. st[q] \in Cells /\ Tail(st[q].messages) \in Seq(Data \cup Ctx)
    <2>1. st[q] \in Cells /\ st[q].messages \in Seq(Data \cup Ctx)
      BY CellsAre
    <2> QED
      BY <2>1
  <1>2. u = [st EXCEPT ![q] = [st[q] EXCEPT !.messages = Tail(st[q].messages)]]
    OBVIOUS
  <1> HIDE DEF u
  <1>3. [st[q] EXCEPT !.messages = Tail(st[q].messages)] \in Cells
    BY <1>1 DEF Cells
  <1>4. /\ u \in Stores /\ \A t \in AllSems : t # q => u[t] = st[t]
        /\ u[q] = [st[q] EXCEPT !.messages = Tail(st[q].messages)]
    BY <1>2, <1>3 DEF Stores
  <1>5. /\ u[q].alive = st[q].alive /\ u[q].waiting = st[q].waiting
        /\ u[q].messages = Tail(st[q].messages) /\ u[q].counter = st[q].counter
    BY <1>1, <1>4 DEF Cells
  <1>6. Takes(u, st, q) /\ u[q].counter = st[q].counter
    BY <1>4, <1>5 DEF Takes
  <1> QED
    BY <1>6 DEF u

LEMMA AfterIs ==
    ASSUME NEW q
    PROVE  /\ After(q) \in {"reap", "user"} /\ After(q) \in Steps
           /\ q = WaitMq => After(q) = "reap"
           /\ q # WaitMq => After(q) = "user"
  BY DEF After, Steps

LEMMA ReceiveKeeps ==
    ASSUME IInv, NEW q \in AllQueues, ~zombi[run], ReceiveMessage(q)
    PROVE  IInv'
  <1>1. /\ InUser /\ store[q].alive /\ q \in AllSems /\ q \notin Sems
        /\ UNCHANGED <<threads, zombi, sleeping, time, now, yielding>>
    BY QueuesAre DEF ReceiveMessage
  <1>2. /\ ~yielding /\ run = current /\ current # Idle /\ pc[current] = "user" /\ Free(pc)
        /\ current \in Ctx /\ current \in Mem /\ Ring1(ring, current)
        /\ store \in Stores /\ pc \in [Ctx -> Steps]
        /\ mq \in [Ctx -> AllQueues \cup {NULL}] /\ got \in [Ctx -> Data \cup Ctx \cup {NULL}]
        /\ it \in Nat
        /\ Good(Mem, sleeping, store, pc, mq, got) /\ IdleGood(Mem, pc, zombi)
        /\ StacksGood(saved, pc, current) /\ saved \in [Ctx -> Ctx \cup {NULL}]
        /\ threads \subseteq Ctx /\ zombi \in [Ctx -> BOOLEAN]
    BY <1>1, Caller
  <1>3. store[q].alive = TRUE /\ store[q].counter \in Nat /\ store[q].messages \in Seq(Data \cup Ctx)
    BY <1>1, <1>2, CellsAre
  <1>4. CASE /\ HasCoin(q)
             /\ got' = [got EXCEPT ![run] = IF q = WaitMq THEN Head(store[q].messages) ELSE NULL]
             /\ store' = [store EXCEPT ![q].counter = @ - 1, ![q].messages = Tail(@)]
             /\ pc' = [pc EXCEPT ![run] = After(q)]
             /\ Balanced
             /\ UNCHANGED <<ring, current, run, saved, mq>>
    <2>1. store[q].counter > 0 /\ store[q].messages # <<>> /\ Len(store[q].messages) \in Nat
      <3>1. Len(store[q].messages) = store[q].counter + Cardinality(Rec(store, pc, mq, q))
            /\ Cardinality(Rec(store, pc, mq, q)) \in Nat
        BY MessagesAre
      <3>2. store[q].counter > 0
        BY <1>4 DEF HasCoin
      <3>3. Len(store[q].messages) > 0
        BY <1>3, <3>1, <3>2
      <3> QED
        BY <1>3, <3>2, <3>3
    <2>2. Takes(store', store, q) /\ store'[q].counter = store[q].counter - 1
      BY <1>1, <1>2, <1>4, <2>1, CoinAndMessageTaken
    <2>3. Head(store[q].messages) \in Data \cup Ctx
      BY <1>3, <2>1
    <2>4. /\ got' \in [Ctx -> Data \cup Ctx \cup {NULL}]
          /\ q = WaitMq => got'[current] = Head(store[q].messages)
          /\ \A t \in Ctx \ {current} : got'[t] = got[t]
      BY <1>2, <1>4, <2>3
    <2>5. /\ pc' \in [Ctx -> Steps] /\ pc'[current] = After(q)
          /\ \A t \in Ctx \ {current} : pc'[t] = pc[t]
      <3>1. pc' = [pc EXCEPT ![current] = After(q)] /\ After(q) \in Steps
        BY <1>2, <1>4, AfterIs
      <3> QED
        BY <1>2, <3>1
    <2>6. mq' = mq /\ mq' \in [Ctx -> AllQueues \cup {NULL}]
      BY <1>2, <1>4
    <2>7. GoesOn(pc', mq', got', pc, mq, got, current, q, Head(store[q].messages))
      BY <2>4, <2>5, <2>6, AfterIs DEF GoesOn
    <2>8. \A v \in AllQueues : Rec(store', pc', mq', v) = Rec(store, pc, mq, v)
      <3>1. \A t \in AllSems : Line(store', t) = Line(store, t)
        BY <2>2 DEF Takes, Line
      <3>2. \A t \in Ctx : pc'[t] \in {"woken", "unlink"} <=> pc[t] \in {"woken", "unlink"}
        <4> SUFFICES ASSUME NEW t \in Ctx
                     PROVE  pc'[t] \in {"woken", "unlink"} <=> pc[t] \in {"woken", "unlink"}
          OBVIOUS
        <4>1. CASE t = current
          BY <1>2, <2>5, <4>1, AfterIs
        <4>2. CASE t # current
          BY <2>5, <4>2
        <4> QED
          BY <4>1, <4>2
      <3> QED
        BY <2>6, <3>1, <3>2, QueuesAre DEF Rec
    <2>9. /\ store'[q].counter > 0 => store'[q].waiting = <<>>
          /\ Len(store'[q].messages) = store'[q].counter + Cardinality(Rec(store', pc', mq', q))
      <3>1. /\ Len(store[q].messages) = store[q].counter + Cardinality(Rec(store, pc, mq, q))
            /\ Cardinality(Rec(store, pc, mq, q)) \in Nat /\ store[q].waiting = <<>>
        BY <2>1, MessagesAre
      <3>2. Len(store'[q].messages) = Len(store[q].messages) - 1
        BY <1>3, <2>1, <2>2 DEF Takes
      <3>3. Len(store'[q].messages) = store'[q].counter + Cardinality(Rec(store, pc, mq, q))
        BY <1>3, <2>1, <2>2, <3>1, <3>2
      <3> QED
        BY <2>2, <2>8, <3>1, <3>3 DEF Takes
    <2>10. store'[q].alive = TRUE
      BY <1>3, <2>2 DEF Takes
    <2>11. CellGood(store', pc', mq', q) /\ OthersStay(store', pc', mq', store, pc, mq, q)
      BY <2>2, <2>8, <2>9, <2>10 DEF CellGood, OthersStay, Takes
    <2>12. Good(Mem, sleeping, store', pc', mq', got')
      <3>1. pc[current] \in {"user", "unlink"}
        BY <1>2
      <3> QED
        BY <1>2, <2>2, <2>4, <2>5, <2>6, <2>7, <2>11, <3>1, MessageTaken
    <2>13. \A t \in Ctx : pc'[t] = pc[t] \/ (t = current /\ pc'[t] \in {"reap", "user"})
      BY <2>5, AfterIs
    <2>14. IdleGood(Mem, pc', zombi')
      <3>1. Idle \in Ctx /\ zombi' = zombi /\ ~zombi[current]
        BY <1>1, <1>2, Ordo3Assumption
      <3>2. pc'[Idle] = pc[Idle]
        BY <1>2, <2>5, <3>1
      <3>3. \A t \in Ctx : zombi[t] => pc'[t] \notin {"woken", "unlink", "reap", "clear"}
        BY <1>2, <2>5, <3>1 DEF IdleGood
      <3> QED
        BY <1>2, <3>1, <3>2, <3>3 DEF IdleGood
    <2>15. StacksGood(saved', pc', current) /\ saved' \in [Ctx -> Ctx \cup {NULL}]
      BY <1>2, <1>4, <2>5 DEF StacksGood
    <2>16. \A t \in Ctx : pc'[t] \in {"unlink", "clear"} => t = current
      BY <1>2, <2>5 DEF Free
    <2>17. pc'[current] # "start" /\ pc'[current] # "unlink"
      BY <2>5, AfterIs
    <2>18. it' \in Nat /\ irq' \in BOOLEAN
      BY <1>2, <1>4, BalancedIs
    <2>19. /\ UNCHANGED <<current, run, sleeping, time, now, yielding>> /\ threads' \subseteq Ctx
           /\ zombi' \in [Ctx -> BOOLEAN] /\ Mem' = Mem /\ Ring1(ring', current)
      BY <1>1, <1>2, <1>4 DEF Mem
    <2> QED
      BY <1>2, <2>12, <2>14, <2>15, <2>16, <2>17, <2>18, <2>19, QuietKeeps
  <1>5. CASE /\ ~HasCoin(q) /\ mq' = [mq EXCEPT ![run] = q]
             /\ Block(q, [pc EXCEPT ![run] = "woken"], 2) /\ UNCHANGED got
    <2> DEFINE p == [pc EXCEPT ![current] = "woken"]
    <2>1. Block(q, p, 2)
      BY <1>2, <1>5
    <2>2. /\ p \in [Ctx -> Steps] /\ p[current] = "woken"
          /\ \A t \in Ctx \ {current} : p[t] = pc[t]
      BY <1>2 DEF Steps
    <2>3. /\ mq' \in [Ctx -> AllQueues \cup {NULL}] /\ mq'[current] = q
          /\ \A t \in Ctx \ {current} : mq'[t] = mq[t]
      BY <1>2, <1>5
    <2> HIDE DEF p
    <2>4. Waits(p, mq', pc, mq, current, q)
      BY <1>1, <2>2, <2>3 DEF Waits
    <2>5. store[q].counter = 0 /\ 2 \in Nat
      <3>1. ~(store[q].counter > 0)
        BY <1>5 DEF HasCoin
      <3> QED
        BY <1>3, <3>1
    <2>6. zombi[current] => p[current] = "user"
      BY <1>2
    <2>7. UNCHANGED <<threads, zombi, sleeping, time, now, got, yielding>>
      BY <1>1, <1>5
    <2> QED
      BY <1>1, <1>3, <2>1, <2>2, <2>3, <2>4, <2>5, <2>6, <2>7, BlockKeeps
  <1> QED
    BY <1>4, <1>5 DEF ReceiveMessage

\* The current thread is in the middle of a call, which nobody interrupts.
LEMMA InCall ==
    ASSUME IInv, NEW l \in {"woken", "unlink", "reap", "clear"}, At(l)
    PROVE  /\ ~yielding /\ run = current /\ current # Idle /\ pc[current] = l
           /\ current \in Ctx /\ current \in Mem /\ Ring1(ring, current)
           /\ store \in Stores /\ pc \in [Ctx -> Steps] /\ sleeping \in Seq(Ctx)
           /\ mq \in [Ctx -> AllQueues \cup {NULL}] /\ got \in [Ctx -> Data \cup Ctx \cup {NULL}]
           /\ it \in Nat /\ irq \in BOOLEAN /\ ~zombi[current]
           /\ Good(Mem, sleeping, store, pc, mq, got) /\ IdleGood(Mem, pc, zombi)
           /\ StacksGood(saved, pc, current) /\ saved \in [Ctx -> Ctx \cup {NULL}]
           /\ threads \subseteq Ctx /\ zombi \in [Ctx -> BOOLEAN]
           /\ \A t \in Ctx : pc[t] \in {"unlink", "clear"} => t = current
  <1>1. /\ run = current /\ current \in Ctx /\ current \in Mem /\ Ring1(ring, current)
        /\ Typed(Mem, sleeping, store, pc, mq, got)
    BY Running
  <1>2. ~yielding /\ pc[current] = l
    BY <1>1 DEF At
  <1>3. /\ Good(Mem, sleeping, store, pc, mq, got) /\ IdleGood(Mem, pc, zombi)
        /\ StacksGood(saved, pc, current)
    BY DEF IInv
  <1>4. current # Idle /\ ~zombi[current]
    BY <1>1, <1>2, <1>3 DEF IdleGood
  <1>5. /\ it \in Nat /\ irq \in BOOLEAN /\ saved \in [Ctx -> Ctx \cup {NULL}]
        /\ threads \subseteq Ctx /\ zombi \in [Ctx -> BOOLEAN]
    BY DEF IInv, TypeOK
  <1>6. \A t \in Ctx : pc[t] \in {"unlink", "clear"} => t = current
    BY DEF IInv, BusyInv
  <1> QED
    BY <1>1, <1>2, <1>3, <1>4, <1>5, <1>6 DEF Typed

\* A woken receiver reads the first message.
LEMMA ReadFirstKeeps == ASSUME IInv, ReadFirst PROVE IInv'
  <1> DEFINE q == mq[current]
             d == Head(store[q].messages)
  <1>0. At("woken")
    BY DEF ReadFirst
  <1>1. /\ ~yielding /\ run = current /\ current # Idle /\ pc[current] = "woken"
        /\ current \in Ctx /\ current \in Mem /\ Ring1(ring, current)
        /\ store \in Stores /\ pc \in [Ctx -> Steps] /\ sleeping \in Seq(Ctx)
        /\ mq \in [Ctx -> AllQueues \cup {NULL}] /\ got \in [Ctx -> Data \cup Ctx \cup {NULL}]
        /\ it \in Nat /\ irq \in BOOLEAN /\ ~zombi[current]
        /\ Good(Mem, sleeping, store, pc, mq, got) /\ IdleGood(Mem, pc, zombi)
        /\ StacksGood(saved, pc, current) /\ saved \in [Ctx -> Ctx \cup {NULL}]
        /\ threads \subseteq Ctx /\ zombi \in [Ctx -> BOOLEAN]
        /\ \A t \in Ctx : pc[t] \in {"unlink", "clear"} => t = current
    BY <1>0, InCall
  <1>2. /\ store[q].messages # <<>> /\ got' = [got EXCEPT ![current] = d]
        /\ pc' = [pc EXCEPT ![current] = "unlink"]
    BY <1>1 DEF ReadFirst
  <1>3. /\ UNCHANGED <<ring, current, run, saved, sleeping, time, now, yielding>>
        /\ UNCHANGED <<it, irq, threads, zombi, store, mq>>
    BY DEF ReadFirst, KeepsThreads
  <1>4. /\ Typed(Mem, sleeping, store, pc, mq, got) /\ PlacesGood(Mem, sleeping, store, pc, mq)
        /\ CoinsGood(store, pc, mq) /\ DeadGood(store[WaitMq].messages, pc, got)
    BY <1>1 DEF Good
  <1>5. q \in AllQueues
    BY <1>1, <1>4 DEF CoinsGood
  <1>6. d \in Data \cup Ctx
    <2>1. store[q].messages \in Seq(Data \cup Ctx)
      BY <1>5, MessagesAre
    <2> QED
      BY <1>2, <2>1
  <1> HIDE DEF q, d
  <1>7. /\ pc' \in [Ctx -> Steps] /\ pc'[current] = "unlink" /\ got'[current] = d
        /\ got' \in [Ctx -> Data \cup Ctx \cup {NULL}]
        /\ \A t \in Ctx \ {current} : pc'[t] = pc[t] /\ got'[t] = got[t]
    BY <1>1, <1>2, <1>6 DEF Steps
  <1>8. PlacesGood(Mem, sleeping, store, pc', mq)
    <2>1. pc'[current] \in Lives /\ \A t \in Ctx \ {current} : mq[t] = mq[t]
      BY <1>7 DEF Lives
    <2> QED
      BY <1>1, <1>7, <2>1, NobodyMoves
  <1>9. CoinsGood(store, pc', mq)
    <2>1. \A t \in Ctx : pc'[t] \in {"woken", "unlink"} <=> pc[t] \in {"woken", "unlink"}
      BY <1>1, <1>7
    <2> QED
      BY <1>4, <2>1, CoinsStay
  <1>10. DeadGood(store[WaitMq].messages, pc', got')
    <2>1. \A l \in {"reap", "clear", "dead", "freed"} : \A t \in Ctx : pc'[t] = l <=> pc[t] = l
      BY <1>1, <1>7
    <2>2. \A t \in Ctx : pc[t] \in {"reap", "clear"} => got'[t] = got[t]
      BY <1>1, <1>7
    <2> QED
      BY <1>4, <2>1, <2>2, DeadStay
  <1>11. Mem' = Mem
    BY <1>3 DEF Mem
  <1>12. Good(Mem', sleeping', store', pc', mq', got')
    <2>1. Typed(Mem, sleeping, store, pc', mq, got')
      BY <1>4, <1>7 DEF Typed
    <2> QED
      BY <1>3, <1>8, <1>9, <1>10, <1>11, <2>1 DEF Good
  <1>13. IdleGood(Mem', pc', zombi')
    <2>1. Idle \in Ctx
      BY Ordo3Assumption
    <2> QED
      BY <1>1, <1>3, <1>7, <1>11, <2>1 DEF IdleGood
  <1>14. StacksGood(saved', pc', current)
    BY <1>1, <1>3, <1>7 DEF StacksGood
  <1>15. \A t \in Ctx : pc'[t] \in {"unlink", "clear"} => t = current
    BY <1>1, <1>7
  <1>16. store'[mq'[current]].messages # <<>> /\ got'[current] = Head(store'[mq'[current]].messages)
    BY <1>2, <1>3, <1>7 DEF q, d
  <1>17. pc'[current] # "start"
    BY <1>7
  <1>18. /\ UNCHANGED <<current, run, sleeping, time, now, yielding>> /\ it' \in Nat /\ irq' \in BOOLEAN
         /\ threads' \subseteq Ctx /\ zombi' \in [Ctx -> BOOLEAN] /\ saved' \in [Ctx -> Ctx \cup {NULL}]
         /\ Ring1(ring', current)
    BY <1>1, <1>3
  <1> QED
    BY <1>1, <1>12, <1>13, <1>14, <1>15, <1>16, <1>17, <1>18, QuietKeeps

\* It unlinks the message, which is still the first, and goes on.
LEMMA UnlinkFirstKeeps == ASSUME IInv, UnlinkFirst PROVE IInv'
  <1> DEFINE q == mq[current]
             d == Head(store[q].messages)
  <1>0. At("unlink")
    BY DEF UnlinkFirst
  <1>1. /\ ~yielding /\ run = current /\ current # Idle /\ pc[current] = "unlink"
        /\ current \in Ctx /\ current \in Mem /\ Ring1(ring, current)
        /\ store \in Stores /\ pc \in [Ctx -> Steps] /\ sleeping \in Seq(Ctx)
        /\ mq \in [Ctx -> AllQueues \cup {NULL}] /\ got \in [Ctx -> Data \cup Ctx \cup {NULL}]
        /\ it \in Nat /\ irq \in BOOLEAN /\ ~zombi[current]
        /\ Good(Mem, sleeping, store, pc, mq, got) /\ IdleGood(Mem, pc, zombi)
        /\ StacksGood(saved, pc, current) /\ saved \in [Ctx -> Ctx \cup {NULL}]
        /\ threads \subseteq Ctx /\ zombi \in [Ctx -> BOOLEAN]
        /\ \A t \in Ctx : pc[t] \in {"unlink", "clear"} => t = current
    BY <1>0, InCall
  <1>2. /\ store[q].messages # <<>> /\ store' = [store EXCEPT ![q].messages = Tail(@)]
        /\ pc' = [pc EXCEPT ![current] = After(q)] /\ mq' = [mq EXCEPT ![current] = NULL]
        /\ got' = [got EXCEPT ![current] = IF q = WaitMq THEN @ ELSE NULL] /\ enable_it
    BY <1>1 DEF UnlinkFirst
  <1>3. /\ UNCHANGED <<ring, current, run, saved, sleeping, time, now, yielding>>
        /\ UNCHANGED <<threads, zombi>>
    BY DEF UnlinkFirst, KeepsThreads
  <1>4. /\ Typed(Mem, sleeping, store, pc, mq, got) /\ PlacesGood(Mem, sleeping, store, pc, mq)
        /\ CoinsGood(store, pc, mq) /\ DeadGood(store[WaitMq].messages, pc, got)
    BY <1>1 DEF Good
  <1>5. q \in AllQueues /\ q \in AllSems /\ mq[current] = q
    BY <1>1, <1>4, QueuesAre DEF CoinsGood
  <1>6. got[current] = d
    BY <1>1 DEF IInv, BusyInv
  <1> HIDE DEF q, d
  <1>7. Takes(store', store, q) /\ store'[q].counter = store[q].counter
    <2>1. store \in Stores /\ q \in AllSems /\ store[q].messages # <<>>
      BY <1>1, <1>2, <1>5
    <2>2. store' = [store EXCEPT ![q].messages = Tail(@)]
      BY <1>2
    <2> QED
      BY <2>1, <2>2, MessageUnlinked, Zenon
  <1>8. /\ pc' \in [Ctx -> Steps] /\ pc'[current] = After(q)
        /\ \A t \in Ctx \ {current} : pc'[t] = pc[t]
    <2>1. After(q) \in Steps
      BY AfterIs
    <2> QED
      BY <1>1, <1>2, <2>1
  <1>9. /\ mq' \in [Ctx -> AllQueues \cup {NULL}] /\ \A t \in Ctx \ {current} : mq'[t] = mq[t]
    BY <1>1, <1>2
  <1>10. /\ got' \in [Ctx -> Data \cup Ctx \cup {NULL}] /\ \A t \in Ctx \ {current} : got'[t] = got[t]
         /\ q = WaitMq => got'[current] = d
    BY <1>1, <1>2, <1>6
  <1>11. GoesOn(pc', mq', got', pc, mq, got, current, q, d)
    BY <1>8, <1>9, <1>10, AfterIs DEF GoesOn
  <1>12. \A t \in AllSems : Line(store', t) = Line(store, t)
    BY <1>7 DEF Takes, Line
  <1>13. pc'[current] \notin {"woken", "unlink", "start", "clear"}
    BY <1>8, AfterIs
  <1>14. current \in Rec(store, pc, mq, q) /\ Rec(store', pc', mq', q) = Rec(store, pc, mq, q) \ {current}
    <2>1. current \notin Line(store, q)
      BY <1>1, <1>4, <1>5, InLines DEF PlacesGood
    <2> QED
      BY <1>1, <1>5, <1>8, <1>9, <1>12, <1>13, <2>1 DEF Rec
  <1>15. \A v \in AllQueues : v # q => Rec(store', pc', mq', v) = Rec(store, pc, mq, v)
    <2> SUFFICES ASSUME NEW v \in AllQueues, v # q PROVE Rec(store', pc', mq', v) = Rec(store, pc, mq, v)
      OBVIOUS
    <2>1. Line(store', v) = Line(store, v)
      BY <1>12, QueuesAre
    <2> QED
      BY <1>5, <1>8, <1>9, <1>13, <2>1 DEF Rec
  <1>16. CellGood(store', pc', mq', q)
    <2>1. /\ store[q].counter \in Nat /\ store[q].messages \in Seq(Data \cup Ctx)
          /\ Len(store[q].messages) = store[q].counter + Cardinality(Rec(store, pc, mq, q))
          /\ Cardinality(Rec(store, pc, mq, q)) \in Nat
          /\ store[q].alive = TRUE \/ (store[q] = Deleted /\ q # WaitMq)
          /\ store[q].counter > 0 => store[q].waiting = <<>>
      BY <1>5, MessagesAre
    <2>2. store[q].alive = TRUE
      <3>1. Deleted.messages = <<>>
        BY NewIs
      <3> QED
        BY <1>2, <2>1, <3>1
    <2>3. Cardinality(Rec(store', pc', mq', q)) = Cardinality(Rec(store, pc, mq, q)) - 1
      <3>1. IsFiniteSet(Rec(store, pc, mq, q))
        BY ReceiversCounted
      <3>2. Cardinality(Rec(store, pc, mq, q) \ {current}) = Cardinality(Rec(store, pc, mq, q)) - 1
        BY <1>14, <3>1, FS_RemoveElement, Zenon
      <3> QED
        BY <1>14, <3>2, Zenon
    <2>4. Len(store'[q].messages) = Len(store[q].messages) - 1
      <3>1. store'[q].messages = Tail(store[q].messages) /\ store[q].messages # <<>>
        BY <1>7 DEF Takes
      <3> QED
        BY <2>1, <3>1
    <2>5. Len(store'[q].messages) = store'[q].counter + Cardinality(Rec(store', pc', mq', q))
      BY <1>7, <2>1, <2>3, <2>4
    <2>6. store'[q].alive = TRUE /\ (store'[q].counter > 0 => store'[q].waiting = <<>>)
      BY <1>7, <2>1, <2>2 DEF Takes
    <2> QED
      BY <2>5, <2>6 DEF CellGood
  <1>17. OthersStay(store', pc', mq', store, pc, mq, q)
    BY <1>7, <1>15 DEF OthersStay, Takes
  <1>18. Good(Mem, sleeping, store', pc', mq', got')
    <2>1. pc[current] \in {"user", "unlink"} /\ d = Head(store[q].messages)
      BY <1>1 DEF d
    <2> QED
      BY <1>1, <1>5, <1>7, <1>8, <1>9, <1>10, <1>11, <1>16, <1>17, <2>1, MessageTaken
  <1>19. Mem' = Mem
    BY <1>3 DEF Mem
  <1>20. IdleGood(Mem', pc', zombi')
    <2>1. Idle \in Ctx
      BY Ordo3Assumption
    <2> QED
      BY <1>1, <1>3, <1>8, <1>19, <2>1 DEF IdleGood
  <1>21. StacksGood(saved', pc', current)
    BY <1>1, <1>3, <1>8 DEF StacksGood
  <1>22. \A t \in Ctx : pc'[t] \in {"unlink", "clear"} => t = current
    BY <1>1, <1>8
  <1>23. it' \in Nat /\ irq' \in BOOLEAN
    <2>1. it' = (IF it > 0 THEN it - 1 ELSE 0) /\ irq' = (irq \/ it <= 1)
      BY <1>2 DEF enable_it
    <2>2. it' \in Nat
      BY <1>1, <2>1
    <2>3. irq' \in BOOLEAN
      BY <2>1
    <2> QED
      BY <2>2, <2>3
  <1>24. /\ UNCHANGED <<current, run, sleeping, time, now, yielding>>
         /\ threads' \subseteq Ctx /\ zombi' \in [Ctx -> BOOLEAN] /\ saved' \in [Ctx -> Ctx \cup {NULL}]
         /\ Ring1(ring', current)
    BY <1>1, <1>3
  <1>25. Good(Mem', sleeping', store', pc', mq', got')
    BY <1>3, <1>18, <1>19
  <1>26. pc'[current] # "start" /\ pc'[current] # "unlink"
    BY <1>13
  <1> QED
    BY <1>1, <1>20, <1>21, <1>22, <1>23, <1>24, <1>25, <1>26, QuietKeeps

\* wait() frees the thread it was told of.
LEMMA FreeDeadKeeps == ASSUME IInv, FreeDead PROVE IInv'
  <1> DEFINE d == got[current]
  <1>0. At("reap")
    BY DEF FreeDead
  <1>1. /\ ~yielding /\ run = current /\ current # Idle /\ pc[current] = "reap"
        /\ current \in Ctx /\ current \in Mem /\ Ring1(ring, current)
        /\ store \in Stores /\ pc \in [Ctx -> Steps] /\ sleeping \in Seq(Ctx)
        /\ mq \in [Ctx -> AllQueues \cup {NULL}] /\ got \in [Ctx -> Data \cup Ctx \cup {NULL}]
        /\ it \in Nat /\ irq \in BOOLEAN /\ ~zombi[current]
        /\ Good(Mem, sleeping, store, pc, mq, got) /\ IdleGood(Mem, pc, zombi)
        /\ StacksGood(saved, pc, current) /\ saved \in [Ctx -> Ctx \cup {NULL}]
        /\ threads \subseteq Ctx /\ zombi \in [Ctx -> BOOLEAN]
        /\ \A t \in Ctx : pc[t] \in {"unlink", "clear"} => t = current
    BY <1>0, InCall
  <1>2. /\ pc' = [pc EXCEPT ![current] = "clear", ![d] = "freed"]
        /\ UNCHANGED <<ring, current, run, saved, sleeping, time, now, yielding>>
        /\ UNCHANGED <<it, irq, threads, zombi, store, mq, got>>
    BY <1>1 DEF FreeDead, KeepsThreads
  <1>3. /\ Typed(Mem, sleeping, store, pc, mq, got) /\ PlacesGood(Mem, sleeping, store, pc, mq)
        /\ CoinsGood(store, pc, mq) /\ DeadGood(store[WaitMq].messages, pc, got)
    BY <1>1 DEF Good
  <1>4. d \in Ctx /\ pc[d] = "dead" /\ d # current /\ d = got[current]
    BY <1>1, <1>3 DEF DeadGood
  <1> HIDE DEF d
  <1>5. /\ pc' \in [Ctx -> Steps] /\ pc'[current] = "clear" /\ pc'[d] = "freed"
        /\ \A t \in Ctx : t # current /\ t # d => pc'[t] = pc[t]
    BY <1>1, <1>2, <1>4 DEF Steps
  <1>6. DeadGood(store[WaitMq].messages, pc', got)
    <2>1. Moved(pc', pc, current, "clear", d, "freed")
      BY <1>5 DEF Moved
    <2> QED
      BY <1>1, <1>3, <1>4, <2>1, DeadFreed
  <1>7. PlacesGood(Mem, sleeping, store, pc', mq)
    <2>1. pc'[current] \in Lives /\ \A t \in Ctx \ {current} : mq[t] = mq[t]
      BY <1>5 DEF Lives
    <2>2. \A t \in Ctx \ {current} : pc'[t] = pc[t] \/ (pc[t] \notin Lives /\ pc'[t] \notin Lives)
      BY <1>4, <1>5 DEF Lives
    <2> QED
      BY <1>1, <2>1, <2>2, NobodyMoves
  <1>8. CoinsGood(store, pc', mq)
    <2>1. \A t \in Ctx : pc'[t] \in {"woken", "unlink"} <=> pc[t] \in {"woken", "unlink"}
      BY <1>1, <1>4, <1>5
    <2> QED
      BY <1>3, <2>1, CoinsStay
  <1>9. Mem' = Mem
    BY <1>2 DEF Mem
  <1>10. Good(Mem', sleeping', store', pc', mq', got')
    <2>1. Typed(Mem, sleeping, store, pc', mq, got)
      BY <1>3, <1>5 DEF Typed
    <2> QED
      BY <1>2, <1>6, <1>7, <1>8, <1>9, <2>1 DEF Good
  <1>11. IdleGood(Mem', pc', zombi')
    <2>1. Idle \in Ctx /\ Idle # d /\ pc'[Idle] = pc[Idle]
      BY <1>1, <1>4, <1>5, Ordo3Assumption DEF IdleGood
    <2>2. \A t \in Ctx : zombi[t] => pc'[t] \notin {"woken", "unlink", "reap", "clear"}
      BY <1>1, <1>5 DEF IdleGood
    <2> QED
      BY <1>1, <1>2, <1>9, <2>1, <2>2 DEF IdleGood
  <1>12. StacksGood(saved', pc', current)
    <2>1. \A t \in Ctx \ {current} : pc'[t] \in Lives => pc'[t] = pc[t]
      BY <1>5 DEF Lives
    <2> QED
      BY <1>1, <1>2, <2>1 DEF StacksGood
  <1>13. \A t \in Ctx : pc'[t] \in {"unlink", "clear"} => t = current
    BY <1>1, <1>5
  <1>14. pc'[current] # "start" /\ pc'[current] # "unlink"
    BY <1>5
  <1>15. /\ UNCHANGED <<current, run, sleeping, time, now, yielding>> /\ it' \in Nat /\ irq' \in BOOLEAN
         /\ threads' \subseteq Ctx /\ zombi' \in [Ctx -> BOOLEAN] /\ saved' \in [Ctx -> Ctx \cup {NULL}]
         /\ Ring1(ring', current)
    BY <1>1, <1>2
  <1> QED
    BY <1>1, <1>10, <1>11, <1>12, <1>13, <1>14, <1>15, QuietKeeps

\* wait() clears the entry of the thread it freed.
LEMMA ClearEntryKeeps == ASSUME IInv, ClearEntry PROVE IInv'
  <1> DEFINE d == got[current]
  <1>0. At("clear")
    BY DEF ClearEntry
  <1>1. /\ ~yielding /\ run = current /\ current # Idle /\ pc[current] = "clear"
        /\ current \in Ctx /\ current \in Mem /\ Ring1(ring, current)
        /\ store \in Stores /\ pc \in [Ctx -> Steps] /\ sleeping \in Seq(Ctx)
        /\ mq \in [Ctx -> AllQueues \cup {NULL}] /\ got \in [Ctx -> Data \cup Ctx \cup {NULL}]
        /\ it \in Nat /\ irq \in BOOLEAN /\ ~zombi[current]
        /\ Good(Mem, sleeping, store, pc, mq, got) /\ IdleGood(Mem, pc, zombi)
        /\ StacksGood(saved, pc, current) /\ saved \in [Ctx -> Ctx \cup {NULL}]
        /\ threads \subseteq Ctx /\ zombi \in [Ctx -> BOOLEAN]
        /\ \A t \in Ctx : pc[t] \in {"unlink", "clear"} => t = current
    BY <1>0, InCall
  <1>2. /\ pc' = [pc EXCEPT ![current] = "user", ![d] = "none"] /\ threads' = threads \ {d}
        /\ got' = [got EXCEPT ![current] = NULL]
        /\ UNCHANGED <<ring, current, run, saved, sleeping, time, now, yielding>>
        /\ UNCHANGED <<it, irq, zombi, store, mq>>
    BY <1>1 DEF ClearEntry, KeepsThreads
  <1>3. /\ Typed(Mem, sleeping, store, pc, mq, got) /\ PlacesGood(Mem, sleeping, store, pc, mq)
        /\ CoinsGood(store, pc, mq) /\ DeadGood(store[WaitMq].messages, pc, got)
    BY <1>1 DEF Good
  <1>4. d \in Ctx /\ pc[d] = "freed" /\ d # current /\ d = got[current]
    BY <1>1, <1>3 DEF DeadGood
  <1> HIDE DEF d
  <1>5. /\ pc' \in [Ctx -> Steps] /\ pc'[current] = "user" /\ pc'[d] = "none"
        /\ \A t \in Ctx : t # current /\ t # d => pc'[t] = pc[t]
    BY <1>1, <1>2, <1>4 DEF Steps
  <1>6. DeadGood(store[WaitMq].messages, pc', got')
    <2>1. Moved(pc', pc, current, "user", d, "none")
      BY <1>5 DEF Moved
    <2>2. \A t \in Ctx : t # current => got'[t] = got[t]
      BY <1>1, <1>2
    <2>3. \A t \in Ctx : pc[t] = "clear" => t = current
      BY <1>1
    <2>4. DeadGood(store[WaitMq].messages, pc, got) /\ pc[current] = "clear" /\ current \in Ctx
          /\ pc \in [Ctx -> Steps] /\ d = got[current]
      BY <1>1, <1>3, <1>4
    <2> QED
      BY <2>1, <2>2, <2>3, <2>4, DeadCleared
  <1>7. PlacesGood(Mem, sleeping, store, pc', mq)
    <2>1. pc'[current] \in Lives /\ \A t \in Ctx \ {current} : mq[t] = mq[t]
      BY <1>5 DEF Lives
    <2>2. \A t \in Ctx \ {current} : pc'[t] = pc[t] \/ (pc[t] \notin Lives /\ pc'[t] \notin Lives)
      BY <1>4, <1>5 DEF Lives
    <2> QED
      BY <1>1, <2>1, <2>2, NobodyMoves
  <1>8. CoinsGood(store, pc', mq)
    <2>1. \A t \in Ctx : pc'[t] \in {"woken", "unlink"} <=> pc[t] \in {"woken", "unlink"}
      BY <1>1, <1>4, <1>5
    <2> QED
      BY <1>3, <2>1, CoinsStay
  <1>9. Mem' = Mem
    BY <1>2 DEF Mem
  <1>10. Good(Mem', sleeping', store', pc', mq', got')
    <2>1. got' \in [Ctx -> Data \cup Ctx \cup {NULL}]
      BY <1>1, <1>2
    <2>2. Typed(Mem, sleeping, store, pc', mq, got')
      BY <1>3, <1>5, <2>1 DEF Typed
    <2> QED
      BY <1>2, <1>6, <1>7, <1>8, <1>9, <2>2 DEF Good
  <1>11. IdleGood(Mem', pc', zombi')
    <2>1. Idle \in Ctx /\ Idle # d /\ pc'[Idle] = pc[Idle]
      BY <1>1, <1>4, <1>5, Ordo3Assumption DEF IdleGood
    <2>2. \A t \in Ctx : zombi[t] => pc'[t] \notin {"woken", "unlink", "reap", "clear"}
      BY <1>1, <1>5 DEF IdleGood
    <2> QED
      BY <1>1, <1>2, <1>9, <2>1, <2>2 DEF IdleGood
  <1>12. StacksGood(saved', pc', current)
    <2>1. \A t \in Ctx \ {current} : pc'[t] \in Lives => pc'[t] = pc[t]
      BY <1>5 DEF Lives
    <2> QED
      BY <1>1, <1>2, <2>1 DEF StacksGood
  <1>13. \A t \in Ctx : pc'[t] \in {"unlink", "clear"} => t = current
    BY <1>1, <1>5
  <1>14. pc'[current] # "start" /\ pc'[current] # "unlink"
    BY <1>5
  <1>15. /\ UNCHANGED <<current, run, sleeping, time, now, yielding>> /\ it' \in Nat /\ irq' \in BOOLEAN
         /\ threads' \subseteq Ctx /\ zombi' \in [Ctx -> BOOLEAN] /\ saved' \in [Ctx -> Ctx \cup {NULL}]
         /\ Ring1(ring', current)
    BY <1>1, <1>2
  <1> QED
    BY <1>1, <1>10, <1>11, <1>12, <1>13, <1>14, <1>15, QuietKeeps

\* create_thread().
LEMMA CreateKeeps == ASSUME IInv, NEW new \in Ctx, Create(new) PROVE IInv'
  <1>0. InUser
    BY DEF Create
  <1>1. /\ ~yielding /\ run = current /\ current # Idle /\ pc[current] = "user" /\ Free(pc)
        /\ current \in Ctx /\ current \in Mem /\ Ring1(ring, current)
        /\ sleeping \in Seq(Ctx) /\ store \in Stores /\ pc \in [Ctx -> Steps]
        /\ mq \in [Ctx -> AllQueues \cup {NULL}] /\ got \in [Ctx -> Data \cup Ctx \cup {NULL}]
        /\ Mem \subseteq Ctx
        /\ Good(Mem, sleeping, store, pc, mq, got) /\ IdleGood(Mem, pc, zombi)
        /\ StacksGood(saved, pc, current) /\ saved \in [Ctx -> Ctx \cup {NULL}]
        /\ threads \subseteq Ctx /\ zombi \in [Ctx -> BOOLEAN]
    BY <1>0, Caller
  <1>2. /\ pc[new] = "none" /\ ring' = R!InsertAfter(ring, current, new)
        /\ threads' = threads \cup {new} /\ zombi' = [zombi EXCEPT ![new] = FALSE]
        /\ saved' = [saved EXCEPT ![new] = new] /\ pc' = [pc EXCEPT ![new] = "start"]
        /\ reset_it
        /\ UNCHANGED <<current, run, sleeping, time, now, store, mq, got, yielding>>
    BY DEF Create
  <1>3. /\ Typed(Mem, sleeping, store, pc, mq, got) /\ PlacesGood(Mem, sleeping, store, pc, mq)
        /\ CoinsGood(store, pc, mq) /\ DeadGood(store[WaitMq].messages, pc, got)
    BY <1>1 DEF Good
  <1>4. PlacesGood(Mem \cup {new}, sleeping, store, pc', mq) /\ new \notin Mem
    BY <1>1, <1>2, <1>3, ThreadIsMade
  <1>5. Loop(ring', current) /\ Mem' = Mem \cup {new}
    BY <1>1, <1>2, <1>4, InsertedIsChained DEF Mem
  <1>6. Ring1(ring', current)
    BY <1>5, LoopIsRepaired
  <1>7. /\ pc' \in [Ctx -> Steps] /\ pc'[new] = "start"
        /\ \A t \in Ctx : t # new => pc'[t] = pc[t]
    BY <1>1, <1>2 DEF Steps
  <1>8. /\ zombi' \in [Ctx -> BOOLEAN] /\ ~zombi'[new]
        /\ \A t \in Ctx : t # new => zombi'[t] = zombi[t]
    BY <1>1, <1>2
  <1>9. /\ saved' \in [Ctx -> Ctx \cup {NULL}] /\ saved'[new] = new
        /\ \A t \in Ctx : t # new => saved'[t] = saved[t]
    BY <1>1, <1>2
  <1>10. CoinsGood(store, pc', mq)
    <2>1. \A t \in Ctx : pc'[t] \in {"woken", "unlink"} <=> pc[t] \in {"woken", "unlink"}
      BY <1>2, <1>7
    <2> QED
      BY <1>3, <2>1, CoinsStay
  <1>11. DeadGood(store[WaitMq].messages, pc', got)
    <2>1. \A l \in {"reap", "clear", "dead", "freed"} : \A t \in Ctx : pc'[t] = l <=> pc[t] = l
      BY <1>2, <1>7
    <2>2. \A t \in Ctx : pc[t] \in {"reap", "clear"} => got[t] = got[t]
      OBVIOUS
    <2> QED
      BY <1>3, <2>1, <2>2, DeadStay
  <1>12. Good(Mem', sleeping', store', pc', mq', got')
    <2>1. Typed(Mem', sleeping, store, pc', mq, got)
      BY <1>1, <1>3, <1>5, <1>7 DEF Typed
    <2> QED
      BY <1>2, <1>4, <1>5, <1>10, <1>11, <2>1 DEF Good
  <1>13. IdleGood(Mem', pc', zombi')
    <2>1. Idle \in Ctx /\ Idle # new
      BY <1>1, <1>2, Ordo3Assumption DEF IdleGood
    <2> QED
      BY <1>1, <1>5, <1>7, <1>8, <2>1 DEF IdleGood
  <1>14. StacksGood(saved', pc', current)
    BY <1>1, <1>7, <1>9 DEF StacksGood
  <1>15. \A t \in Ctx : pc'[t] \in {"unlink", "clear"} => t = current
    BY <1>1, <1>7 DEF Free
  <1>16. pc'[current] # "start" /\ pc'[current] # "unlink"
    BY <1>1, <1>2, <1>7
  <1>17. /\ UNCHANGED <<current, run, sleeping, time, now, yielding>> /\ it' \in Nat /\ irq' \in BOOLEAN
         /\ threads' \subseteq Ctx
    BY <1>1, <1>2 DEF reset_it
  <1> QED
    BY <1>1, <1>6, <1>8, <1>9, <1>12, <1>13, <1>14, <1>15, <1>16, <1>17, QuietKeeps

\* kill() of a thread that is not receiving.
LEMMA KillKeeps ==
    ASSUME IInv, NEW c \in Killable, pc[c] \notin {"woken", "unlink", "reap", "clear"}, Kill(c)
    PROVE  IInv'
  <1>0. InUser
    BY DEF Kill
  <1>1. /\ ~yielding /\ run = current /\ current # Idle /\ pc[current] = "user" /\ Free(pc)
        /\ current \in Ctx /\ Ring1(ring, current) /\ it \in Nat
        /\ Good(Mem, sleeping, store, pc, mq, got) /\ IdleGood(Mem, pc, zombi)
        /\ StacksGood(saved, pc, current) /\ saved \in [Ctx -> Ctx \cup {NULL}]
        /\ threads \subseteq Ctx /\ zombi \in [Ctx -> BOOLEAN]
    BY <1>0, Caller
  <1>2. /\ zombi' = [zombi EXCEPT ![c] = TRUE] /\ Balanced
        /\ UNCHANGED <<ring, current, run, saved, sleeping, time, now, yielding>>
        /\ UNCHANGED <<threads, store, pc, mq, got>>
    BY DEF Kill, KeepsThreads
  <1>3. c \in Ctx /\ c # Idle /\ Idle \in Ctx
    BY Ordo3Assumption
  <1>4. /\ zombi' \in [Ctx -> BOOLEAN] /\ zombi'[Idle] = zombi[Idle]
        /\ \A t \in Ctx : t # c => zombi'[t] = zombi[t]
    BY <1>1, <1>2, <1>3
  <1>5. Mem' = Mem
    BY <1>2 DEF Mem
  <1>6. Good(Mem', sleeping', store', pc', mq', got') /\ StacksGood(saved', pc', current)
    BY <1>1, <1>2, <1>5
  <1>7. IdleGood(Mem', pc', zombi')
    BY <1>1, <1>2, <1>4, <1>5 DEF IdleGood
  <1>8. \A t \in Ctx : pc'[t] \in {"unlink", "clear"} => t = current
    BY <1>1, <1>2 DEF Free
  <1>9. pc'[current] # "start" /\ pc'[current] # "unlink"
    BY <1>1, <1>2
  <1>10. it' \in Nat /\ irq' \in BOOLEAN
    BY <1>1, <1>2, BalancedIs
  <1>11. /\ UNCHANGED <<current, run, sleeping, time, now, yielding>>
         /\ threads' \subseteq Ctx /\ saved' \in [Ctx -> Ctx \cup {NULL}] /\ Ring1(ring', current)
    BY <1>1, <1>2
  <1> QED
    BY <1>1, <1>4, <1>6, <1>7, <1>8, <1>9, <1>10, <1>11, QuietKeeps

-----------------------------------------------------------------------------
(* The invariant.                                                           *)

LEMMA InitHolds == Init => IInv
  <1> SUFFICES ASSUME Init PROVE IInv
    OBVIOUS
  <1> DEFINE other == [c \in Ctx |-> IF c = Main THEN Idle ELSE IF c = Idle THEN Main ELSE NULL]
  <1>1. /\ Main \in Ctx /\ Idle \in Ctx /\ Main # Idle /\ NULL \notin Ctx
        /\ WaitMq \in AllQueues /\ AllQueues \subseteq AllSems
    BY Ordo3Assumption, QueuesAre
  <1>2. /\ ring = [next |-> other, last |-> other]
        /\ current = Main /\ run = Main /\ ~yielding /\ sleeping = <<>>
    BY DEF Init
  <1>3. /\ ring \in R!Rings /\ Mem = {Main, Idle} /\ R!Chained(ring)
        /\ ring.next[Main] = Idle /\ ring.next[Idle] = Main
    BY <1>1, <1>2 DEF R!Rings, Mem, R!Members, R!Chained
  <1> HIDE DEF other
  <1>4. Loop(ring, Main)
    BY <1>1, <1>3 DEF Loop, Mem
  <1>5. RingInv
    BY <1>2, <1>3, <1>4, LoopIsRepaired DEF RingInv
  <1>6. /\ \A c \in Ctx : pc[c] = IF c = Main THEN "user" ELSE IF c = Idle THEN "start" ELSE "none"
        /\ pc \in [Ctx -> Steps]
    BY DEF Init, Steps
  <1>7. BusyInv
    BY <1>1, <1>2, <1>6 DEF BusyInv
  <1>8. SleepersSorted
    BY <1>2 DEF SleepersSorted
  <1>9. /\ New(0) \in Cells /\ New(0).alive = TRUE /\ New(0).counter = 0
        /\ New(0).waiting = <<>> /\ New(0).messages = <<>>
        /\ Deleted \in Cells /\ Deleted.counter = 0
        /\ Deleted.waiting = <<>> /\ Deleted.messages = <<>>
    BY NewIs
  <1>10. /\ store \in Stores /\ store[WaitMq] = New(0)
         /\ \A s \in AllSems : s # WaitMq => store[s] = Deleted
    BY <1>1, <1>9 DEF Init, Stores
  <1>11. \A s \in AllSems : /\ store[s].waiting = <<>> /\ store[s].messages = <<>>
                            /\ store[s].counter = 0
    BY <1>9, <1>10
  <1>12. Once(<<>>) /\ ToSet(<<>>) = {} /\ <<>> \in Seq(Ctx)
    BY DEF Once, ToSet
  <1>13. \A s \in AllSems : Line(store, s) = {}
    BY <1>11, <1>12 DEF Line
  <1>14. PlacesGood(Mem, sleeping, store, pc, mq)
    <2>1. Lines(store) = {}
      BY <1>13, InLines
    <2>2. \A c \in Ctx : pc[c] \in Lives <=> c \in Mem
      BY <1>3, <1>6 DEF Lives
    <2> QED
      BY <1>2, <1>11, <1>12, <1>13, <2>1, <2>2, QueuesAre DEF PlacesGood
  <1>15. CoinsGood(store, pc, mq)
    <2>1. \A q \in AllQueues : Rec(store, pc, mq, q) = {}
      BY <1>6 DEF Rec
    <2>2. \A q \in AllQueues : Len(store[q].messages) = store[q].counter + Cardinality(Rec(store, pc, mq, q))
      <3> SUFFICES ASSUME NEW q \in AllQueues
                   PROVE  Len(store[q].messages) = store[q].counter + Cardinality(Rec(store, pc, mq, q))
        OBVIOUS
      <3>1. Cardinality(Rec(store, pc, mq, q)) = 0
        BY <2>1, ReceiversCounted
      <3>2. store[q].messages = <<>> /\ store[q].counter = 0
        BY <1>1, <1>11
      <3> QED
        BY <3>1, <3>2
    <2>3. \A t \in Ctx : pc[t] \in {"woken", "unlink"} => mq[t] \in AllQueues
      BY <1>6
    <2>4. /\ store[WaitMq].alive /\ \A s \in AllSems : ~store[s].alive => store[s] = Deleted
          /\ \A s \in AllSems : store[s].counter > 0 => store[s].waiting = <<>>
      BY <1>9, <1>10, <1>11
    <2> QED
      BY <2>2, <2>3, <2>4 DEF CoinsGood
  <1>16. DeadGood(store[WaitMq].messages, pc, got)
    <2>1. store[WaitMq].messages = <<>>
      BY <1>1, <1>11
    <2> QED
      BY <1>6, <1>12, <2>1 DEF DeadGood
  <1>17. TypeOK
    <2>1. /\ it \in Nat /\ irq \in BOOLEAN /\ yielding \in BOOLEAN /\ now \in Nat
          /\ threads \subseteq Ctx /\ current \in Ctx /\ run \in Ctx
      BY <1>1 DEF Init
    <2>2. /\ saved \in [Ctx -> Ctx \cup {NULL}] /\ zombi \in [Ctx -> BOOLEAN] /\ time \in [Ctx -> Nat]
          /\ mq \in [Ctx -> AllQueues \cup {NULL}] /\ got \in [Ctx -> Data \cup Ctx \cup {NULL}]
      BY <1>1 DEF Init
    <2> QED
      BY <1>2, <1>3, <1>6, <1>10, <1>12, <2>1, <2>2 DEF TypeOK, Stores, Cells, Steps
  <1>18. Good(Mem, sleeping, store, pc, mq, got)
    <2>1. Mem \subseteq Ctx
      BY <1>1, <1>3
    <2>2. Typed(Mem, sleeping, store, pc, mq, got)
      BY <1>2, <1>6, <1>10, <1>12, <1>17, <2>1 DEF Typed, TypeOK
    <2> QED
      BY <1>14, <1>15, <1>16, <2>2 DEF Good
  <1>19. StacksGood(saved, pc, current)
    BY <1>1, <1>2, <1>6 DEF StacksGood, Init, Lives
  <1>20. IdleGood(Mem, pc, zombi)
    BY <1>1, <1>3, <1>6 DEF IdleGood, Init
  <1> QED
    BY <1>5, <1>7, <1>8, <1>17, <1>18, <1>19, <1>20 DEF IInv

LEMMA CallsKeep == ASSUME IInv, Calls PROVE IInv'
  <1>1. ASSUME NEW c \in Ctx, Create(c) PROVE IInv'
    BY <1>1, CreateKeeps
  <1>2. ASSUME NEW d \in Durations, Sleep(d) PROVE IInv'
    <2>1. d \in Nat
      BY Ordo3Assumption
    <2> QED
      BY <1>2, <2>1, SleepKeeps
  <1>3. CASE Exit \/ FreeDead \/ ClearEntry \/ ReadFirst \/ UnlinkFirst
    BY <1>3, ExitKeeps, FreeDeadKeeps, ClearEntryKeeps, ReadFirstKeeps, UnlinkFirstKeeps
  <1>4. ASSUME NEW s \in Sems, SemTake(s) \/ SemGive(s) PROVE IInv'
    BY <1>4, SemTakeKeeps, SemGiveKeeps
  <1>5. ASSUME NEW s \in Sems, NEW i \in 0..1, NewSemaphore(s, i) PROVE IInv'
    <2>1. i \in Nat /\ s \notin Queues
      BY Ordo3Assumption
    <2> QED
      BY <1>5, <2>1, NewSemaphoreKeeps
  <1>6. ASSUME NEW q \in Queues, NewQueue(q) PROVE IInv'
    <2>1. NewSemaphore(q, 0) /\ 0 \in Nat
      BY <1>6 DEF NewQueue
    <2> QED
      BY <2>1, NewSemaphoreKeeps
  <1>7. ASSUME NEW q \in Queues, NEW d \in Data, SendMessage(q, d) PROVE IInv'
    BY <1>7, SendKeeps
  <1> QED
    BY <1>1, <1>2, <1>3, <1>4, <1>5, <1>6, <1>7 DEF Calls

LEMMA StepHolds == IInv /\ [OrderedNext]_vars => IInv'
  <1> SUFFICES ASSUME IInv, [OrderedNext]_vars PROVE IInv'
    OBVIOUS
  <1>1. CASE UNCHANGED vars
    BY <1>1 DEF vars, IInv, TypeOK, RingInv, BusyInv, SleepersSorted, Mem
  <1>2. CASE Kernel
    BY <1>2, IdleKeeps, WakeSleeperKeeps, SwitchToNextKeeps, TickKeeps DEF Kernel
  <1>3. CASE Calls
    BY <1>3, CallsKeep
  <1>4. CASE OrderedTimer
    BY <1>4, TimerKeeps
  <1>5. CASE ~zombi[run] /\ Receive
    <2>1. PICK q \in AllQueues : ReceiveMessage(q)
      BY <1>5, QueuesAre DEF Receive, wait, AllQueues
    <2> QED
      BY <1>5, <2>1, ReceiveKeeps
  <1>6. ASSUME NEW c \in Killable, pc[c] \notin {"woken", "unlink", "reap", "clear"}, Kill(c)
        PROVE  IInv'
    BY <1>6, KillKeeps
  <1>7. ASSUME NEW s \in Sems \cup Queues, Receiving(s) = {}, Delete(s) PROVE IInv'
    BY <1>7, DeleteKeeps
  <1> QED
    BY <1>1, <1>2, <1>3, <1>4, <1>5, <1>6, <1>7 DEF OrderedNext

LEMMA Inductive == OrderedSpec => []IInv
  BY InitHolds, StepHolds, PTL DEF OrderedSpec

-----------------------------------------------------------------------------
(* The theorems.                                                            *)

\* The kernel's variables keep their types: no stack is loaded that nobody
\* saved, and the lists hold threads, as long as user code deletes only
\* semaphores that exist.
THEOREM TypesKept == OrderedSpec => []TypeOK
  BY Inductive, PTL DEF IInv

\* switch_to_ctx: the processor is on the stack of current_thread, and the ctx
\* of every other thread that lives brings its own stack back.
THEOREM ProcessorOnItsStack == OrderedSpec => []OwnStack
  <1>1. IInv => OwnStack
    BY DEF IInv, OwnStack, BusyInv, StacksGood, Live, Lives
  <1> QED
    BY <1>1, Inductive, PTL

\* NoRepeat and InList are Once and ToSet.
LEMMA ListIs ==
    ASSUME NEW T, NEW s \in Seq(T), NEW c
    PROVE  (InList(c, s) <=> c \in ToSet(s)) /\ (NoRepeat(s) <=> Once(s))
  <1>1. DOMAIN s = 1..Len(s)
    OBVIOUS
  <1>2. InList(c, s) <=> c \in ToSet(s)
    BY <1>1, ElementsAre DEF InList
  <1>3. NoRepeat(s) <=> Once(s)
    BY <1>1 DEF NoRepeat, Once
  <1> QED
    BY <1>2, <1>3

LEMMA OneRingHolds == ASSUME IInv PROVE OneRing
  <1>1. Ring1(ring, current) /\ Idle \in Mem
    BY Running
  <1>2. R!Members(R!Repaired(ring, current)) = Mem
    BY <1>1, RepairedIs DEF Mem
  <1>3. Loop(R!Repaired(ring, current), current)
    BY <1>1 DEF Ring1
  <1> QED
    BY <1>1, <1>2, <1>3 DEF OneRing, Loop

LEMMA OnePlaceHolds == ASSUME IInv PROVE OnePlace
  <1>1. /\ PlacesGood(Mem, sleeping, store, pc, mq) /\ sleeping \in Seq(Ctx) /\ store \in Stores
    BY DEF IInv, Good, Typed
  <1>2. \A s \in AllSems : store[s].waiting \in Seq(Ctx)
    BY <1>1, CellsAre
  <1>3. NoRepeat(sleeping) /\ \A s \in AllSems : NoRepeat(store[s].waiting)
    BY <1>1, <1>2, ListIs DEF PlacesGood
  <1>4. ASSUME NEW c \in Ctx
        PROVE  Cardinality({s \in AllSems : InList(c, store[s].waiting)})
               + (IF c \in R!Members(ring) THEN 1 ELSE 0)
               + (IF InList(c, sleeping) THEN 1 ELSE 0) = IF Live(c) THEN 1 ELSE 0
    <2> DEFINE S == {s \in AllSems : InList(c, store[s].waiting)}
    <2>1. InList(c, sleeping) <=> c \in ToSet(sleeping)
      BY <1>1, ListIs
    <2>2. \A s \in AllSems : InList(c, store[s].waiting) <=> c \in Line(store, s)
      BY <1>2, ListIs DEF Line
    <2>3. S # {} <=> c \in Lines(store)
      BY <2>2, InLines
    <2>4. \A s, t \in S : s = t
      BY <1>1, <2>2 DEF PlacesGood
    <2>5. Cardinality(S) = IF S = {} THEN 0 ELSE 1
      BY <2>4, AtMostOne
    <2>6. Live(c) <=> c \in Mem \cup ToSet(sleeping) \cup Lines(store)
      BY <1>1 DEF PlacesGood, Live, Lives
    <2>7. ~(c \in Mem /\ c \in ToSet(sleeping)) /\ ~(c \in Mem /\ c \in Lines(store))
          /\ ~(c \in ToSet(sleeping) /\ c \in Lines(store))
      BY <1>1 DEF PlacesGood
    <2> HIDE DEF S
    <2>8. Cardinality(S) + (IF c \in Mem THEN 1 ELSE 0) + (IF InList(c, sleeping) THEN 1 ELSE 0)
             = IF Live(c) THEN 1 ELSE 0
      BY <2>1, <2>3, <2>5, <2>6, <2>7
    <2> QED
      BY <2>8 DEF S, Mem
  <1> QED
    BY <1>3, <1>4 DEF OnePlace

\* The ready threads form one ring, every thread that lives is in one place,
\* and the sleeper that wakes up first is at the head of its list: the calls,
\* which move threads between lists that share their pointers, keep all three.
THEOREM ListsKept == OrderedSpec => []ListsOK
  <1>1. IInv => ListsOK
    BY OneRingHolds, OnePlaceHolds DEF ListsOK, IInv
  <1> QED
    BY <1>1, Inductive, PTL

\* Nobody waits for a semaphore that has a coin, and a queue has a message for
\* each coin and each receiver that was woken.
THEOREM NoWakeUpIsLost == OrderedSpec => []CoinsExact
  <1>1. IInv => CoinsExact
    <2> SUFFICES ASSUME IInv PROVE CoinsExact
      OBVIOUS
    <2>1. store \in Stores /\ CoinsGood(store, pc, mq)
      BY DEF IInv, Good, Typed
    <2>2. \A q \in AllQueues : Receiving(q) = Rec(store, pc, mq, q)
      BY <2>1, QueuesAre, ReceivingIs
    <2> QED
      BY <2>1, <2>2 DEF CoinsGood, CoinsExact
  <1> QED
    BY <1>1, Inductive, PTL

\* Each death is announced once and reaped once: a dead thread is in the queue
\* of wait(), or one waiter has taken its id from there and not freed it.
THEOREM DeathsAnnouncedOnce == OrderedSpec => []DeadOnce
  <1>1. IInv => DeadOnce
    <2> SUFFICES ASSUME IInv PROVE DeadOnce
      OBVIOUS
    <2> DEFINE id == store[WaitMq].messages
               With(l, c) == {t \in Ctx : pc[t] = l /\ got[t] = c}
    <2>1. DeadGood(id, pc, got)
      BY DEF IInv, Good
    <2>2. id \in Seq(Ctx) /\ Once(id)
      BY <2>1 DEF DeadGood
    <2>3. NoRepeat(id)
      BY <2>2, ListIs
    <2>4. ASSUME NEW c \in Ctx
          PROVE  /\ InList(c, id) => pc[c] = "dead"
                 /\ Cardinality(With("reap", c)) + (IF InList(c, id) THEN 1 ELSE 0)
                       = IF pc[c] = "dead" THEN 1 ELSE 0
                 /\ Cardinality(With("clear", c)) = IF pc[c] = "freed" THEN 1 ELSE 0
      <3>1. InList(c, id) <=> c \in ToSet(id)
        BY <2>2, ListIs
      <3>2. /\ c \in ToSet(id) => pc[c] = "dead" /\ With("reap", c) = {}
            /\ With("reap", c) # {} => pc[c] = "dead"
            /\ pc[c] = "dead" => c \in ToSet(id) \/ With("reap", c) # {}
        BY <2>1 DEF DeadGood
      <3>3. With("clear", c) # {} <=> pc[c] = "freed"
        BY <2>1 DEF DeadGood
      <3>4. \A t, u \in With("reap", c) : t = u
        BY <2>1 DEF DeadGood
      <3>5. \A t, u \in With("clear", c) : t = u
        BY DEF IInv, BusyInv
      <3>6. /\ Cardinality(With("reap", c)) = IF With("reap", c) = {} THEN 0 ELSE 1
            /\ Cardinality(With("clear", c)) = IF With("clear", c) = {} THEN 0 ELSE 1
        BY <3>4, <3>5, AtMostOne
      <3> HIDE DEF With, id
      <3> QED
        BY <3>1, <3>2, <3>3, <3>6
    <2> HIDE DEF With, id
    <2> QED
      BY <2>3, <2>4 DEF DeadOnce, With, id
  <1> QED
    BY <1>1, Inductive, PTL
==============================================================================
