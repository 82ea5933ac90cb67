------------------------------ MODULE Ordo2Proofs ------------------------------
(***************************************************************************)
(* Proofs about kernel 2.0, for any number of threads, semaphores, queues  *)
(* and messages: in the runs of OrderedSpec the state keeps its types,     *)
(* every thread is in one list or freed once, the processor is on the      *)
(* stack of the current thread, and no wake-up is lost.                    *)
(***************************************************************************)
EXTENDS Ordo2, ListFacts, FiniteSetTheorems

(* The inductive invariant.                                                 *)

Rd == ToSet(ready)
Sl == ToSet(sleeping)
De == ToSet(deletion)
\* What the collector has taken off its list and not freed yet.
Doom == IF pc[Gc] = "gcfree" THEN {doomed} ELSE {}

\* The threads that wait for a semaphore or a queue.
Objects == Sems \cup Queues
Line(x) == IF x \in Sems THEN sem[x].inWait ELSE queue[x].inWait
Wt == UNION {ToSet(Line(x)) : x \in Objects}

\* No list holds a thread twice.
OnceInv ==
    Once(ready) /\ Once(sleeping) /\ Once(deletion) /\ \A x \in Objects : Once(Line(x))

\* No two lists hold the same thread.
LinesApart == \A x, y \in Objects : x # y => ToSet(Line(x)) \cap ToSet(Line(y)) = {}
ApartInv ==
    /\ LinesApart
    /\ Rd \cap Sl = {} /\ Rd \cap De = {} /\ Rd \cap Doom = {} /\ Rd \cap Wt = {}
    /\ Sl \cap De = {} /\ Sl \cap Doom = {} /\ Sl \cap Wt = {}
    /\ De \cap Doom = {} /\ De \cap Wt = {} /\ Doom \cap Wt = {}

\* A thread that was created is in a list or freed, and has not been freed twice.
FreesInv ==
    \A t \in Ids :
        /\ pc[t] = "none" => t \notin Rd \cup Sl \cup De \cup Doom \cup Wt /\ frees[t] = 0
        /\ t \in Rd \cup Sl \cup De \cup Doom \cup Wt => frees[t] = 0
        /\ pc[t] # "none" /\ t \notin Rd \cup Sl \cup De \cup Doom \cup Wt => frees[t] = 1

\* What a thread in each list is at.
AtInv ==
    /\ \A t \in Rd : pc[t] \notin {"none", "gone", "switch", "restore"}
    /\ \A t \in Sl \cup Wt : pc[t] \in {"user", "switch"}
    /\ \A t \in De : pc[t] \in {"gone", "restore"}
    /\ \A t \in Doom : pc[t] = "gone"
    /\ Idle \in Rd /\ Gc \in Rd /\ pc[Idle] = "idle" /\ pc[Gc] \in {"gc", "gcpop", "gcfree"}

\* Only the running thread is on its way out of the activable ones.
RunInv ==
    /\ \A t \in Ids : pc[t] \in {"switch", "restore"} => t = run
    /\ pc[run] # "none" /\ pc[run] # "gone"
    /\ pc[run] = "restore" => run \in De
    /\ pc[run] = "switch" => run \in Sl \cup Wt

\* The collector is not taken off the processor while it unlinks the first
\* thread of its list.
GcInv ==
    /\ \A t \in Ids : pc[t] \in {"gc", "gcpop", "gcfree"} => t = Gc
    /\ pc[Gc] = "gcpop" => run = Gc /\ deletion # <<>> /\ doomed = Head(deletion)
    /\ pc[Gc] = "gcfree" => doomed \in Ids

\* Who has returned, and who is in the middle of receiving a message.
FlagInv ==
    /\ \A t \in Ids : toDelete[t] => pc[t] \in {"returned", "gone"}
    /\ \A t \in Ids : mq[t] # NULL => pc[t] \in {"user", "switch", "freeing"}

\* The ids that were not handed out yet.
IdsInv == \A t \in Ids : t > counter => pc[t] = "none"

\* The stacks.
StackInv ==
    /\ current \in Rd
    /\ pc[run] \notin {"switch", "restore"} => run = current
    /\ \A t \in Ids : t # run /\ pc[t] \notin {"none", "gone"} => saved[t] = t

\* The activable threads that are in the middle of receiving from q.
Called(q) == {t \in Rd : mq[t] = q}

\* What waits, and for what.
WaitInv ==
    /\ \A s \in Sems : ~sem[s].alive => sem[s].inWait = <<>>
    /\ \A s \in Sems : sem[s].counter > 0 => sem[s].inWait = <<>>
    /\ \A q \in Queues : ~queue[q].alive => queue[q].inWait = <<>>
    /\ \A q \in Queues : \A t \in ToSet(queue[q].inWait) : mq[t] = q
    /\ \A q \in Queues : queue[q].inWait # <<>> =>
          Len(queue[q].inBox) <= Cardinality(Called(q))

IInv == TypeOK /\ OnceInv /\ ApartInv /\ FreesInv /\ AtInv /\ RunInv /\ GcInv /\ FlagInv
        /\ IdsInv /\ StackInv /\ WaitInv

\* Whoever is to free a semaphore has the processor, and nobody waits for it.
FreeingInv ==
    \A t \in Ids : pc[t] = "freeing" =>
        t = run /\ mq[t] \in Sems /\ sem[mq[t]].inWait = <<>>

-----------------------------------------------------------------------------
(* Lemmas on the ids and the lists.                                         *)

LEMMA IdsAre ==
    /\ Ids \subseteq Nat /\ IsFiniteSet(Ids) /\ NULL \notin Ids
    /\ Main \in Ids /\ Idle \in Ids /\ Gc \in Ids /\ 5 \in Ids /\ Idle # Gc
    /\ 5 \notin {Main, Idle, Gc} /\ Main \notin {Idle, Gc}
  <1>1. 5 % 2 = 1 /\ MaxId \in Nat /\ MaxId >= 5 /\ NULL \notin Nat
    BY Ordo2Assumption
  <1>2. Ids \subseteq 0..MaxId
    BY <1>1 DEF Ids, Main, Idle, Gc
  <1>3. IsFiniteSet(0..MaxId)
    BY <1>1, FS_Interval
  <1>4. IsFiniteSet(Ids)
    BY <1>2, <1>3, FS_Subset
  <1> QED
    BY <1>1, <1>2, <1>4 DEF Ids, Main, Idle, Gc

\* The next thread of a list that holds another one is another one.
LEMMA NextIsAnother ==
    ASSUME NEW T, NEW list \in Seq(T), Once(list), NEW t \in ToSet(list),
           NEW u \in ToSet(list), u # t
    PROVE  NextOf(list, t) \in ToSet(list) \ {t}
  <1>1. PICK i : i = Index(list, t)
    OBVIOUS
  <1>2. i \in 1..Len(list) /\ list[i] = t
    BY <1>1, FoundAt DEF Index
  <1>3. PICK j \in 1..Len(list) : list[j] = u
    BY ElementsAre
  <1>4. CASE i = Len(list)
    <2>1. NextOf(list, t) = list[1]
      BY <1>1, <1>4 DEF NextOf
    <2>2. 1 \in 1..Len(list) /\ 1 # i
      BY <1>2, <1>3, <1>4
    <2> QED
      BY <1>2, <2>1, <2>2, ElementsAre DEF Once
  <1>5. CASE i # Len(list)
    <2>1. NextOf(list, t) = list[i + 1]
      BY <1>1, <1>5 DEF NextOf
    <2>2. i + 1 \in 1..Len(list) /\ i + 1 # i
      BY <1>2, <1>5
    <2> QED
      BY <1>2, <2>1, <2>2, ElementsAre DEF Once
  <1> QED
    BY <1>4, <1>5

\* The sleepers that have had their time are at the head of their list.
LEMMA DueIsAPlace ==
    ASSUME TypeOK
    PROVE  Due \in 0..Len(sleeping)
  <1> DEFINE B == {i \in 1..Len(sleeping) : ~(timeToWait[sleeping[i]] <= now)}
  <1>1. Len(sleeping) \in Nat /\ \A i \in 1..Len(sleeping) : timeToWait[sleeping[i]] \in Nat
    <2>1. sleeping \in Seq(Ids) /\ timeToWait \in [Ids -> Nat]
      BY DEF TypeOK
    <2> QED
      BY <2>1
  <1>2. PICK k \in 0..Len(sleeping) :
            (\A i \in 1..k : i \notin B) /\ (k < Len(sleeping) => k + 1 \in B)
    <2> HIDE DEF B
    <2> QED
      BY <1>1, FirstPlace
  <1>3. /\ \A i \in 1..k : timeToWait[sleeping[i]] <= now
        /\ k < Len(sleeping) => timeToWait[sleeping[k + 1]] > now
    <2>1. \A i \in 1..k : i \in 1..Len(sleeping)
      BY <1>1
    <2>a. now \in Nat
      BY Ordo2Assumption DEF TypeOK
    <2>2. \A i \in 1..Len(sleeping) : ~(timeToWait[sleeping[i]] <= now) => timeToWait[sleeping[i]] > now
      BY <1>1, <2>a
    <2> QED
      BY <1>2, <2>1, <2>2, Zenon
  <1> QED
    BY <1>3 DEF Due

LEMMA SleepsBeforeIsAPlace ==
    ASSUME TypeOK, NEW t \in Nat
    PROVE  SleepsBefore(t) \in 0..Len(sleeping)
  <1> DEFINE B == {i \in 1..Len(sleeping) : ~(timeToWait[sleeping[i]] < t)}
  <1>1. Len(sleeping) \in Nat /\ \A i \in 1..Len(sleeping) : timeToWait[sleeping[i]] \in Nat
    <2>1. sleeping \in Seq(Ids) /\ timeToWait \in [Ids -> Nat]
      BY DEF TypeOK
    <2> QED
      BY <2>1
  <1>2. PICK k \in 0..Len(sleeping) :
            (\A i \in 1..k : i \notin B) /\ (k < Len(sleeping) => k + 1 \in B)
    <2> HIDE DEF B
    <2> QED
      BY <1>1, FirstPlace
  <1>3. /\ \A i \in 1..k : timeToWait[sleeping[i]] < t
        /\ k < Len(sleeping) => timeToWait[sleeping[k + 1]] >= t
    <2>1. \A i \in 1..k : i \in 1..Len(sleeping)
      BY <1>1
    <2>a. t \in Nat
      BY Ordo2Assumption DEF TypeOK
    <2>2. \A i \in 1..Len(sleeping) : ~(timeToWait[sleeping[i]] < t) => timeToWait[sleeping[i]] >= t
      BY <1>1, <2>a
    <2> QED
      BY <1>2, <2>1, <2>2, Zenon
  <1> QED
    BY <1>3 DEF SleepsBefore

-----------------------------------------------------------------------------
(* Lemmas on the state.                                                     *)

LEMMA ListsAre ==
    ASSUME TypeOK
    PROVE  /\ Rd \subseteq Ids /\ Sl \subseteq Ids /\ De \subseteq Ids /\ Wt \subseteq Ids
           /\ \A x \in Objects : Line(x) \in Seq(Ids) /\ ToSet(Line(x)) \subseteq Wt
  <1>1. \A x \in Objects : Line(x) \in Seq(Ids)
    BY DEF TypeOK, Line, Objects
  <1>2. \A x \in Objects : ToSet(Line(x)) \subseteq Ids
    BY <1>1, ElementsAre
  <1>3. Rd \subseteq Ids /\ Sl \subseteq Ids /\ De \subseteq Ids
    BY ElementsAre DEF TypeOK, Rd, Sl, De
  <1>4. Wt \subseteq Ids
    BY <1>2 DEF Wt
  <1>5. \A x \in Objects : ToSet(Line(x)) \subseteq Wt
    BY DEF Wt
  <1> QED
    BY <1>1, <1>3, <1>4, <1>5

LEMMA DoomIs ==
    ASSUME GcInv
    PROVE  Doom \subseteq Ids
  BY DEF GcInv, Doom

\* Objects that keep their lines.
LEMMA LinesKept ==
    ASSUME \A x \in Objects : Line(x)' = Line(x)
    PROVE  Wt' = Wt
  BY DEF Wt, Objects

LEMMA ObjectsKept ==
    ASSUME UNCHANGED <<sem, queue>>
    PROVE  \A x \in Objects : Line(x)' = Line(x)
  BY DEF Line

\* The threads that wait for a queue.
LEMMA QueueLine == \A q \in Queues : Line(q) = queue[q].inWait
  BY Ordo2Assumption DEF Line

\* A thread that makes a call has the processor and is in no other list.
LEMMA Caller ==
    ASSUME IInv, InUser
    PROVE  /\ run = current /\ current \in Rd /\ current \in Ids /\ current \notin {Idle, Gc}
           /\ current \notin Sl \cup De \cup Doom \cup Wt /\ frees[current] = 0
           /\ ~toDelete[current] /\ pc[current] = "user"
           /\ \A t \in Ids : pc[t] \notin {"switch", "restore", "gcpop"}
           /\ \A t \in Sl \cup Wt : pc[t] = "user"
           /\ \A t \in De : pc[t] = "gone"
  <1> USE DEF IInv
  <1>1. run = current /\ current \in Rd /\ pc[current] = "user" /\ current \in Ids
    BY ListsAre DEF InUser, StackInv, TypeOK
  <1>2. current \notin {Idle, Gc} /\ ~toDelete[current]
    BY <1>1 DEF AtInv, RunInv, GcInv, FlagInv
  <1>3. current \notin Sl \cup De \cup Doom \cup Wt /\ frees[current] = 0
    BY <1>1 DEF ApartInv, FreesInv
  <1>4. \A t \in Ids : pc[t] \notin {"switch", "restore", "gcpop"}
    BY <1>1, IdsAre DEF AtInv, RunInv, GcInv, FlagInv
  <1>5. /\ \A t \in Sl \cup Wt : pc[t] = "user"
        /\ \A t \in De : pc[t] = "gone"
    BY <1>4, ListsAre DEF AtInv, RunInv, GcInv, FlagInv
  <1> QED
    BY <1>1, <1>2, <1>3, <1>4, <1>5

\* A thread leaves the activable ones: there is another one to follow it.
LEMMA Unlinks ==
    ASSUME IInv, NEW t \in Ids, t \notin {Idle, Gc}, ready' = WithoutIt(t),
           current' = Successor(t)
    PROVE  /\ ready' \in Seq(Ids) /\ Once(ready') /\ Rd' = Rd \ {t}
           /\ current' \in Rd' /\ current' \in Ids /\ (t # current => current' = current)
  <1> USE DEF IInv
  <1>1. ready \in Seq(Ids) /\ Once(ready) /\ current \in Rd /\ Idle \in Rd /\ Gc \in Rd
    BY DEF TypeOK, OnceInv, StackInv, AtInv, RunInv, GcInv, FlagInv
  <1>2. ready' \in Seq(Ids) /\ Once(ready') /\ Rd' = Rd \ {t}
    BY <1>1, ElementUnlinked DEF WithoutIt, Rd
  <1>3. CASE t = current
    <2>1. NextOf(ready, current) \in Rd \ {current}
      BY <1>1, <1>3, IdsAre, NextIsAnother DEF Rd
    <2> QED
      BY <1>2, <1>3, <2>1, ListsAre DEF Successor
  <1>4. CASE t # current
    BY <1>1, <1>2, <1>4, ListsAre DEF Successor
  <1> QED
    BY <1>2, <1>3, <1>4

-----------------------------------------------------------------------------
(* The steps.                                                               *)

LEMMA InitIInv == Init => IInv
  <1> SUFFICES ASSUME Init PROVE IInv
    OBVIOUS
  <1>1. TypeOK
    <2>1. NoObject \in [alive : BOOLEAN, counter : 0..MaxCoins, inWait : Seq(Ids)]
      BY Ordo2Assumption DEF NoObject
    <2>2. NoQueue \in [alive : BOOLEAN, inBox : Seq(Data), inWait : Seq(Ids)]
      BY DEF NoQueue
    <2>3. ready \in Seq(Ids)
      BY IdsAre DEF Init
    <2>4. sem \in [Sems -> [alive : BOOLEAN, counter : 0..MaxCoins, inWait : Seq(Ids)]]
      BY <2>1 DEF Init
    <2>5. queue \in [Queues -> [alive : BOOLEAN, inBox : Seq(Data), inWait : Seq(Ids)]]
      BY <2>2 DEF Init
    <2> QED
      BY <2>3, <2>4, <2>5, IdsAre, Ordo2Assumption DEF Init, TypeOK
  <1>2. \A x \in Objects : Line(x) = <<>>
    BY DEF Init, Line, Objects, NoObject, NoQueue
  <1>3. /\ Rd = {5, Gc, Idle, Main} /\ Sl = {} /\ De = {} /\ Doom = {} /\ Wt = {}
        /\ \A x \in Objects : ToSet(Line(x)) = {}
    <2>1. ToSet(<<5, Gc, Idle, Main>>) = {5, Gc, Idle, Main}
      BY DEF ToSet
    <2>2. ToSet(<<>>) = {}
      BY DEF ToSet
    <2>3. Gc # Idle /\ Gc # 5 /\ Gc # Main
      BY IdsAre
    <2>4. pc[Gc] = "gc"
      BY <2>3, IdsAre DEF Init
    <2> QED
      BY <1>2, <2>1, <2>2, <2>4 DEF Init, Rd, Sl, De, Doom, Wt
  <1>4. OnceInv
    <2>1. Once(<<5, Gc, Idle, Main>>)
      BY DEF Once, Gc, Idle, Main
    <2>2. Once(<<>>)
      BY DEF Once
    <2> QED
      BY <1>2, <2>1, <2>2 DEF OnceInv, Init
  <1>5. ApartInv
    BY <1>3 DEF ApartInv, LinesApart
  <1>6. FreesInv
    BY <1>3, IdsAre DEF FreesInv, Init
  <1>7. AtInv /\ RunInv /\ GcInv /\ FlagInv
    BY <1>3, IdsAre DEF AtInv, RunInv, GcInv, FlagInv, Init
  <1>8. IdsInv
    BY IdsAre DEF IdsInv, Init, Ids, Main, Idle, Gc
  <1>9. StackInv
    BY <1>3, IdsAre DEF StackInv, Init
  <1>10. WaitInv
    BY DEF WaitInv, Init, NoObject, NoQueue, ToSet
  <1> QED
    BY <1>1, <1>4, <1>5, <1>6, <1>7, <1>8, <1>9, <1>10 DEF IInv


LEMMA SameSets ==
    ASSUME UNCHANGED <<lists, sem, queue>>
    PROVE  /\ Rd' = Rd /\ Sl' = Sl /\ De' = De /\ Wt' = Wt
           /\ \A x \in Objects : Line(x)' = Line(x)
           /\ OnceInv => OnceInv'
  <1>1. \A x \in Objects : Line(x)' = Line(x)
    BY ObjectsKept
  <1>2. Rd' = Rd /\ Sl' = Sl /\ De' = De
    BY DEF lists, Rd, Sl, De
  <1>3. OnceInv => OnceInv'
    BY <1>1 DEF lists, OnceInv, Objects
  <1> QED
    BY <1>1, <1>2, <1>3, LinesKept

LEMMA SameApart ==
    ASSUME UNCHANGED <<lists, sem, queue>>, Doom' = Doom, ApartInv
    PROVE  ApartInv'
  <1>1. /\ Rd' = Rd /\ Sl' = Sl /\ De' = De /\ Wt' = Wt
        /\ \A x \in Objects : Line(x)' = Line(x)
    BY SameSets
  <1> QED
    BY <1>1 DEF ApartInv, LinesApart, Objects

LEMMA TickStep ==
    ASSUME IInv, Tick
    PROVE  IInv'
  <1> USE DEF IInv, Tick, new, lists, kernel, objects, garbage
  <1>1. Rd' = Rd /\ Sl' = Sl /\ De' = De /\ Wt' = Wt /\ Doom' = Doom /\ OnceInv'
    BY SameSets DEF Doom
  <1>2. TypeOK'
    <2>1. now' \in 0..MaxTime
      BY Ordo2Assumption DEF TypeOK
    <2> QED
      BY <2>1 DEF TypeOK
  <1>3. ApartInv'
    BY <1>1, SameApart
  <1>4. FreesInv' /\ AtInv' /\ RunInv' /\ GcInv' /\ FlagInv' /\ IdsInv' /\ StackInv'
    BY <1>1 DEF FreesInv, AtInv, RunInv, GcInv, FlagInv, IdsInv, StackInv
  <1>5. WaitInv'
    BY <1>1 DEF WaitInv, Called
  <1> QED
    BY <1>1, <1>2, <1>3, <1>4, <1>5

LEMMA SwitchStep ==
    ASSUME IInv, Switch
    PROVE  IInv'
  <1> USE DEF IInv
  <1>0. pc[run] = "switch" /\ run \in Ids /\ current \in Ids /\ current \in Rd
    BY DEF Switch, TypeOK, StackInv
  <1>1. /\ current # run /\ saved[current] = current
        /\ pc[current] \notin {"none", "gone", "switch", "restore"}
    BY <1>0 DEF AtInv, RunInv, GcInv, FlagInv, StackInv
  <1>2. run' = current /\ saved' = [saved EXCEPT ![run] = run, ![current] = NULL]
    BY <1>0, <1>1 DEF Switch, Switched, TypeOK
  <1>3. pc' = [pc EXCEPT ![run] = "user"] /\ pc = [t \in Ids |-> pc[t]] /\ run # Gc
    BY <1>0 DEF Switch, TypeOK, AtInv, RunInv, GcInv, FlagInv
  <1> USE DEF Switch, new, lists, clock, objects, garbage
  <1>4. Rd' = Rd /\ Sl' = Sl /\ De' = De /\ Wt' = Wt /\ OnceInv'
    BY SameSets
  <1>5. Doom' = Doom
    BY <1>3, IdsAre DEF Doom
  <1>6. TypeOK'
    BY <1>0, <1>2 DEF TypeOK
  <1>7. ApartInv'
    BY <1>4, <1>5, SameApart
  <1>8. FreesInv'
    BY <1>0, <1>3, <1>4, <1>5 DEF FreesInv
  <1>9. AtInv'
    BY <1>0, <1>3, <1>4, <1>5, IdsAre, ListsAre, DoomIs DEF AtInv
  <1>a. RunInv' /\ GcInv'
    BY <1>0, <1>1, <1>2, <1>3, <1>4, IdsAre DEF RunInv, GcInv
  <1>b. FlagInv'
    BY <1>0, <1>3 DEF FlagInv
  <1>10. IdsInv'
    BY <1>0, <1>3 DEF IdsInv
  <1>11. StackInv'
    BY <1>0, <1>1, <1>2, <1>3, <1>4 DEF StackInv, TypeOK, AtInv, RunInv, GcInv, FlagInv
  <1>12. WaitInv'
    BY <1>4 DEF WaitInv, Called
  <1> QED
    BY <1>4, <1>6, <1>7, <1>8, <1>9, <1>a, <1>b, <1>10, <1>11, <1>12

LEMMA RestoreStep ==
    ASSUME IInv, Restore
    PROVE  IInv'
  <1> USE DEF IInv
  <1>0. pc[run] = "restore" /\ run \in De /\ run \in Ids /\ current \in Ids /\ current \in Rd
    BY DEF Restore, TypeOK, StackInv, AtInv, RunInv, GcInv, FlagInv
  <1>1. /\ current # run /\ saved[current] = current
        /\ pc[current] \notin {"none", "gone", "switch", "restore"}
    BY <1>0 DEF AtInv, RunInv, GcInv, FlagInv, StackInv
  <1>2. run' = current /\ saved' = [saved EXCEPT ![current] = NULL]
    BY <1>0, <1>1 DEF Restore, Restored, TypeOK
  <1>3. pc' = [pc EXCEPT ![run] = "gone"] /\ pc = [t \in Ids |-> pc[t]] /\ run # Gc
    BY <1>0 DEF Restore, TypeOK, AtInv, RunInv, GcInv, FlagInv
  <1> USE DEF Restore, new, lists, clock, objects, garbage
  <1>4. Rd' = Rd /\ Sl' = Sl /\ De' = De /\ Wt' = Wt /\ OnceInv'
    BY SameSets
  <1>5. Doom' = Doom
    BY <1>3, IdsAre DEF Doom
  <1>6. TypeOK'
    BY <1>0, <1>2 DEF TypeOK
  <1>7. ApartInv'
    BY <1>4, <1>5, SameApart
  <1>8. FreesInv'
    BY <1>0, <1>3, <1>4, <1>5 DEF FreesInv
  <1>a. run \notin Rd /\ run \notin Sl /\ run \notin Wt /\ run \notin Doom
    BY <1>0 DEF ApartInv
  <1>9. AtInv'
    BY <1>0, <1>3, <1>4, <1>5, <1>a, IdsAre, ListsAre, DoomIs DEF AtInv
  <1>b. RunInv' /\ GcInv'
    BY <1>0, <1>1, <1>2, <1>3, <1>4, IdsAre DEF RunInv, GcInv
  <1>c. FlagInv'
    BY <1>0, <1>3 DEF FlagInv
  <1>10. IdsInv'
    BY <1>0, <1>3 DEF IdsInv
  <1>11. StackInv'
    BY <1>0, <1>1, <1>2, <1>3, <1>4 DEF StackInv, TypeOK, AtInv, RunInv, GcInv, FlagInv
  <1>12. WaitInv'
    BY <1>4 DEF WaitInv, Called
  <1> QED
    BY <1>4, <1>6, <1>7, <1>8, <1>9, <1>b, <1>c, <1>10, <1>11, <1>12

LEMMA GcTakeStep ==
    ASSUME IInv, GcTake
    PROVE  IInv'
  <1> USE DEF IInv
  <1>0. pc[Gc] = "gc" /\ run = Gc /\ Gc \in Ids /\ deletion # <<>>
    BY IdsAre DEF GcTake, GcInv, TypeOK
  <1>1. pc' = [pc EXCEPT ![Gc] = "gcpop"] /\ pc = [t \in Ids |-> pc[t]] /\ doomed' = Head(deletion)
    BY <1>0 DEF GcTake, TypeOK
  <1>2. Doom' = Doom
    BY <1>0, <1>1 DEF Doom
  <1>3. doomed' \in Ids
    BY <1>0, <1>1 DEF TypeOK
  <1> USE DEF GcTake, new, lists, clock, objects
  <1>4. Rd' = Rd /\ Sl' = Sl /\ De' = De /\ Wt' = Wt /\ OnceInv'
    BY SameSets
  <1>6. TypeOK'
    BY <1>0, <1>1, <1>3 DEF TypeOK
  <1>7. ApartInv'
    BY <1>2, <1>4, SameApart
  <1>8. FreesInv'
    BY <1>0, <1>1, <1>2, <1>4 DEF FreesInv
  <1>9. AtInv'
    BY <1>0, <1>1, <1>2, <1>4, IdsAre, ListsAre, DoomIs DEF AtInv
  <1>10. RunInv' /\ GcInv'
    BY <1>0, <1>1, <1>3, <1>4 DEF RunInv, GcInv
  <1>11. FlagInv' /\ IdsInv' /\ StackInv'
    BY <1>0, <1>1, <1>4 DEF FlagInv, IdsInv, StackInv
  <1>12. WaitInv'
    BY <1>4 DEF WaitInv, Called
  <1> QED
    BY <1>4, <1>6, <1>7, <1>8, <1>9, <1>10, <1>11, <1>12

LEMMA GcPopStep ==
    ASSUME IInv, GcPop
    PROVE  IInv'
  <1> USE DEF IInv
  <1>0. /\ pc[Gc] = "gcpop" /\ run = Gc /\ Gc \in Ids /\ deletion # <<>>
        /\ doomed = Head(deletion) /\ deletion \in Seq(Ids)
    BY IdsAre DEF GcPop, GcInv, TypeOK
  <1>1. /\ pc' = [pc EXCEPT ![Gc] = "gcfree"] /\ pc = [t \in Ids |-> pc[t]]
        /\ deletion' = Tail(deletion) /\ UNCHANGED doomed
    BY <1>0 DEF GcPop, Popped, TypeOK, garbage
  <1>2. /\ Doom = {} /\ Doom' = {doomed} /\ doomed \in De /\ doomed \in Ids
    BY <1>0, <1>1, FirstIsTaken, ListsAre DEF Doom, De
  <1>3. /\ De' = De \ {doomed} /\ deletion' \in Seq(Ids) /\ Once(deletion')
    BY <1>0, <1>1, FirstIsTaken DEF De, OnceInv
  <1> USE DEF GcPop, new, clock, objects, garbage
  <1>4. Rd' = Rd /\ Sl' = Sl /\ Wt' = Wt /\ \A x \in Objects : Line(x)' = Line(x)
    BY LinesKept, ObjectsKept DEF Rd, Sl
  <1>5. OnceInv'
    BY <1>3, <1>4 DEF OnceInv, Objects
  <1>6. TypeOK'
    BY <1>0, <1>1, <1>3 DEF TypeOK
  <1>7. ApartInv'
    BY <1>2, <1>3, <1>4 DEF ApartInv, LinesApart, Objects
  <1>8. FreesInv'
    BY <1>0, <1>1, <1>2, <1>3, <1>4 DEF FreesInv
  <1>9. AtInv'
    BY <1>0, <1>1, <1>2, <1>3, <1>4, IdsAre, ListsAre DEF AtInv, RunInv
  <1>10. RunInv' /\ GcInv'
    BY <1>0, <1>1, <1>2, <1>4 DEF RunInv, GcInv
  <1>11. FlagInv' /\ IdsInv' /\ StackInv'
    BY <1>0, <1>1, <1>4 DEF FlagInv, IdsInv, StackInv
  <1>12. WaitInv'
    BY <1>4 DEF WaitInv, Called
  <1> QED
    BY <1>5, <1>6, <1>7, <1>8, <1>9, <1>10, <1>11, <1>12

LEMMA GcFreeStep ==
    ASSUME IInv, GcFree
    PROVE  IInv'
  <1> USE DEF IInv
  <1>0. pc[Gc] = "gcfree" /\ run = Gc /\ Gc \in Ids /\ doomed \in Ids
    BY IdsAre DEF GcFree, GcInv, TypeOK
  <1>1. /\ pc' = [pc EXCEPT ![Gc] = "gc"] /\ pc = [t \in Ids |-> pc[t]]
        /\ frees' = [frees EXCEPT ![doomed] = @ + 1] /\ frees = [t \in Ids |-> frees[t]]
    BY <1>0 DEF GcFree, TypeOK
  <1>2. Doom = {doomed} /\ Doom' = {} /\ doomed \notin Rd \cup Sl \cup De \cup Wt
    BY <1>0, <1>1 DEF Doom, ApartInv
  <1> USE DEF GcFree, new, lists, clock, objects
  <1>4. /\ Rd' = Rd /\ Sl' = Sl /\ De' = De /\ Wt' = Wt /\ OnceInv'
        /\ \A x \in Objects : Line(x)' = Line(x)
    BY SameSets
  <1>6. TypeOK'
    <2>1. frees' \in [Ids -> Nat] /\ pc'[Gc] = "gc"
      BY <1>0, <1>1 DEF TypeOK
    <2> QED
      BY <2>1 DEF TypeOK
  <1>7. ApartInv'
    BY <1>2, <1>4 DEF ApartInv, LinesApart, Objects
  <1>8. FreesInv'
    BY <1>0, <1>1, <1>2, <1>4 DEF FreesInv, AtInv
  <1>9. AtInv'
    BY <1>0, <1>1, <1>2, <1>4, IdsAre, ListsAre DEF AtInv
  <1>10. RunInv' /\ GcInv'
    BY <1>0, <1>1, <1>4 DEF RunInv, GcInv
  <1>11. FlagInv' /\ IdsInv' /\ StackInv'
    BY <1>0, <1>1, <1>4 DEF FlagInv, IdsInv, StackInv
  <1>12. WaitInv'
    BY <1>4 DEF WaitInv, Called
  <1> QED
    BY <1>4, <1>6, <1>7, <1>8, <1>9, <1>10, <1>11, <1>12

\* Receivers that stay activable are enough for the messages that stay.
LEMMA NoFewer ==
    ASSUME NEW S \in SUBSET Ids, NEW T \in SUBSET S
    PROVE  /\ IsFiniteSet(S) /\ IsFiniteSet(T)
           /\ Cardinality(T) \in Nat /\ Cardinality(S) \in Nat /\ Cardinality(T) <= Cardinality(S)
  BY IdsAre, FS_Subset, FS_CardinalityType

\* The part of the invariant that is about the queues and their receivers.
MessagesInv ==
    \A q \in Queues : queue[q].inWait # <<>> => Len(queue[q].inBox) <= Cardinality(Called(q))

LEMMA MessagesKept ==
    ASSUME IInv, UNCHANGED queue, Rd' \subseteq Ids,
           \A q \in Queues : Called(q) \subseteq Called(q)'
    PROVE  MessagesInv'
  <1> SUFFICES ASSUME NEW q \in Queues, queue[q].inWait # <<>>
               PROVE  Len(queue[q].inBox) <= Cardinality(Called(q)')
    BY DEF MessagesInv
  <1>1. Len(queue[q].inBox) <= Cardinality(Called(q))
    BY DEF IInv, WaitInv
  <1>2. Called(q) \subseteq Called(q)' /\ Called(q)' \subseteq Ids
    BY DEF Called
  <1>3. Cardinality(Called(q)) <= Cardinality(Called(q)')
    BY <1>2, NoFewer
  <1>4. /\ Cardinality(Called(q)) \in Nat /\ Cardinality(Called(q)') \in Nat
        /\ Len(queue[q].inBox) \in Nat
    <2>1. Cardinality(Called(q)) \in Nat /\ Cardinality(Called(q)') \in Nat
      BY <1>2, NoFewer
    <2>2. queue[q].inBox \in Seq(Data)
      BY DEF IInv, TypeOK
    <2> QED
      BY <2>1, <2>2
  <1> QED
    BY <1>1, <1>3, <1>4

LEMMA createGThreadStep ==
    ASSUME IInv, createGThread
    PROVE  IInv'
  <1> USE DEF IInv
  <1> DEFINE t == counter + 1
  <1>0. /\ t \in Ids /\ pc[t] = "none" /\ counter \in Nat /\ run = current
        /\ t \notin Rd \cup Sl \cup De \cup Doom \cup Wt /\ frees[t] = 0
    <2>1. t \in Ids /\ counter \in Nat /\ InUser
      BY DEF createGThread, Calls, TypeOK
    <2>2. run = current
      BY <2>1, Caller
    <2>3. pc[t] = "none"
      BY <2>1 DEF IdsInv
    <2> QED
      BY <2>1, <2>2, <2>3 DEF FreesInv
  <1>1. /\ ready' = <<t>> \o ready /\ counter' = counter + 2
        /\ pc' = [pc EXCEPT ![t] = "user"] /\ pc = [u \in Ids |-> pc[u]]
        /\ saved' = [saved EXCEPT ![t] = t] /\ saved = [u \in Ids |-> saved[u]]
    BY DEF createGThread, Pushed, TypeOK
  <1>2. t # run /\ t # Gc /\ t # Idle /\ ~toDelete[t] /\ mq[t] = NULL
    <2>1. t # run /\ t # Gc /\ t # Idle /\ ~toDelete[t]
      BY <1>0, IdsAre DEF RunInv, AtInv, FlagInv
    <2>2. t # Gc
      BY <1>0 DEF RunInv, AtInv
    <2> QED
      BY <1>0, <2>1, <2>2, IdsAre DEF FlagInv
  <1>3. /\ ready' \in Seq(Ids) /\ Once(ready') /\ Rd' = Rd \cup {t}
    BY <1>0, <1>1, PutInFront DEF Rd, OnceInv, TypeOK
  <1> HIDE DEF t
  <1> USE DEF createGThread, new, clock, objects, garbage
  <1>4. /\ Sl' = Sl /\ De' = De /\ Wt' = Wt /\ Doom' = Doom
        /\ \A x \in Objects : Line(x)' = Line(x)
    BY <1>1, <1>2, IdsAre, LinesKept, ObjectsKept DEF Sl, De, Doom
  <1>5. OnceInv'
    BY <1>3, <1>4 DEF OnceInv, Objects
  <1>6. TypeOK'
    <2>1. /\ counter' \in Nat /\ saved' \in [Ids -> Ids \cup {NULL}]
          /\ pc' \in [Ids -> {"none", "user", "idle", "gc", "gcpop", "gcfree",
                              "switch", "restore", "freeing", "returned", "gone"}]
      BY <1>0, <1>1 DEF TypeOK
    <2> QED
      BY <1>3, <2>1 DEF TypeOK
  <1>7. ApartInv'
    BY <1>0, <1>3, <1>4 DEF ApartInv, LinesApart, Objects
  <1>8. FreesInv'
    BY <1>0, <1>1, <1>3, <1>4 DEF FreesInv
  <1>9. AtInv'
    BY <1>0, <1>1, <1>2, <1>3, <1>4, IdsAre, ListsAre, DoomIs DEF AtInv
  <1>10. RunInv' /\ GcInv'
    BY <1>0, <1>1, <1>2, <1>4, IdsAre DEF RunInv, GcInv
  <1>11. FlagInv' /\ StackInv'
    BY <1>0, <1>1, <1>2, <1>3, <1>4, IdsAre DEF FlagInv, StackInv
  <1>12. IdsInv'
    BY <1>0, <1>1, IdsAre DEF IdsInv, t
  <1>13. MessagesInv'
    BY <1>3, ListsAre, <1>0, MessagesKept DEF Called
  <1>14. WaitInv'
    BY <1>13 DEF WaitInv, MessagesInv
  <1> QED
    BY <1>5, <1>6, <1>7, <1>8, <1>9, <1>10, <1>11, <1>12, <1>14

\* A thread is put into the line of an object.
LEMMA LineGrows ==
    ASSUME TypeOK, OnceInv, LinesApart, NEW x \in Objects, NEW c \in Ids, c \notin Wt,
           Line(x)' = <<c>> \o Line(x), \A y \in Objects \ {x} : Line(y)' = Line(y)
    PROVE  /\ Line(x)' \in Seq(Ids) /\ ToSet(Line(x)') = ToSet(Line(x)) \cup {c}
           /\ Wt' = Wt \cup {c} /\ LinesApart' /\ \A y \in Objects : Once(Line(y)')
  <1>1. Line(x) \in Seq(Ids) /\ \A y \in Objects : c \notin ToSet(Line(y))
    BY ListsAre
  <1>2. /\ Line(x)' \in Seq(Ids) /\ ToSet(Line(x)') = ToSet(Line(x)) \cup {c}
        /\ Once(Line(x)')
    BY <1>1, PutInFront DEF OnceInv
  <1>3. \A y \in Objects : Once(Line(y)')
    BY <1>2 DEF OnceInv
  <1>4. LinesApart'
    <2> SUFFICES ASSUME NEW y \in Objects, NEW z \in Objects, y # z
                 PROVE  ToSet(Line(y)') \cap ToSet(Line(z)') = {}
      BY DEF LinesApart, Objects
    <2>1. ToSet(Line(y)) \cap ToSet(Line(z)) = {}
      BY DEF LinesApart
    <2> QED
      BY <1>1, <1>2, <2>1
  <1>5. Wt' = Wt \cup {c}
    <2>1. Wt' = UNION {ToSet(Line(y)') : y \in Objects}
      BY DEF Wt, Objects
    <2>2. \A t : t \in Wt' <=> \E y \in Objects : t \in ToSet(Line(y)')
      BY <2>1
    <2>3. \A t : t \in Wt <=> \E y \in Objects : t \in ToSet(Line(y))
      BY DEF Wt
    <2>4. \A t \in Wt' : t \in Wt \cup {c}
      BY <1>2, <2>2, <2>3
    <2>5. \A t \in Wt : t \in Wt'
      BY <1>2, <2>2, <2>3
    <2>6. c \in Wt'
      BY <1>2, <2>2
    <2> QED
      BY <2>4, <2>5, <2>6
  <1> QED
    BY <1>2, <1>3, <1>4, <1>5

\* The first thread of the line of an object leaves it.
LEMMA LineShrinks ==
    ASSUME TypeOK, OnceInv, LinesApart, NEW x \in Objects, Line(x) # <<>>,
           Line(x)' = Tail(Line(x)), \A y \in Objects \ {x} : Line(y)' = Line(y)
    PROVE  /\ Head(Line(x)) \in Wt /\ Head(Line(x)) \in Ids /\ Head(Line(x)) \in ToSet(Line(x))
           /\ Line(x)' \in Seq(Ids) /\ ToSet(Line(x)') = ToSet(Line(x)) \ {Head(Line(x))}
           /\ Wt' = Wt \ {Head(Line(x))} /\ LinesApart' /\ \A y \in Objects : Once(Line(y)')
  <1>1. Line(x) \in Seq(Ids) /\ ToSet(Line(x)) \subseteq Wt /\ Once(Line(x))
    BY ListsAre DEF OnceInv
  <1> DEFINE h == Head(Line(x))
  <1>2. /\ Line(x)' \in Seq(Ids) /\ ToSet(Line(x)') = ToSet(Line(x)) \ {h}
        /\ Once(Line(x)') /\ h \in ToSet(Line(x))
    BY <1>1, FirstIsTaken
  <1>3. \A y \in Objects : Once(Line(y)')
    BY <1>2 DEF OnceInv
  <1>4. LinesApart'
    <2> SUFFICES ASSUME NEW y \in Objects, NEW z \in Objects, y # z
                 PROVE  ToSet(Line(y)') \cap ToSet(Line(z)') = {}
      BY DEF LinesApart, Objects
    <2>1. ToSet(Line(y)) \cap ToSet(Line(z)) = {}
      BY DEF LinesApart
    <2> QED
      BY <1>1, <1>2, <2>1
  <1> HIDE DEF h
  <1>5. Wt' = Wt \ {h}
    <2>1. Wt' = UNION {ToSet(Line(y)') : y \in Objects}
      BY DEF Wt, Objects
    <2>2. \A t : t \in Wt' <=> \E y \in Objects : t \in ToSet(Line(y)')
      BY <2>1
    <2>3. \A t : t \in Wt <=> \E y \in Objects : t \in ToSet(Line(y))
      BY DEF Wt
    <2>4. \A y \in Objects \ {x} : h \notin ToSet(Line(y))
      BY <1>2 DEF LinesApart
    <2>5. \A t \in Wt' : t \in Wt \ {h}
      BY <1>2, <2>2, <2>3, <2>4
    <2>6. \A t \in Wt \ {h} : t \in Wt'
      BY <1>2, <2>2, <2>3
    <2> QED
      BY <2>5, <2>6
  <1>6. h \in Wt /\ h \in Ids
    BY <1>1, <1>2, ListsAre
  <1> QED
    BY <1>2, <1>3, <1>4, <1>5, <1>6 DEF h

\* What leaves the processor as it should: the call ends with the timer on,
\* another thread is the current one, and the switch is still to come.
LEMMA Left ==
    ASSUME IInv, InUser, ready' = WithoutIt(current), NEW l \in {"switch", "restore"},
           Leaves(current, l)
    PROVE  /\ run' = run /\ run = current /\ saved' = saved /\ itEnabled' = TRUE
           /\ pc' = [pc EXCEPT ![current] = l] /\ pc = [u \in Ids |-> pc[u]]
           /\ pc' \in [Ids -> {"none", "user", "idle", "gc", "gcpop", "gcfree",
                               "switch", "restore", "freeing", "returned", "gone"}]
           /\ ready' \in Seq(Ids) /\ Once(ready') /\ Rd' = Rd \ {current} /\ current' \in Ids
           /\ (UNCHANGED doomed => Doom' = Doom) /\ (UNCHANGED counter => IdsInv') /\ StackInv'
  <1> USE DEF IInv
  <1>1. run = current /\ current \in Rd /\ current \in Ids /\ current \notin {Idle, Gc}
    BY Caller
  <1>2. /\ ready' \in Seq(Ids) /\ Once(ready') /\ Rd' = Rd \ {current} /\ current' \in Ids
        /\ current' \in Rd'
    BY <1>1, Unlinks DEF Leaves
  <1>3. /\ run' = run /\ saved' = saved /\ itEnabled' = TRUE
        /\ pc' = [pc EXCEPT ![current] = l] /\ pc = [u \in Ids |-> pc[u]]
    BY <1>1 DEF Leaves, TypeOK
  <1>4. pc' \in [Ids -> {"none", "user", "idle", "gc", "gcpop", "gcfree",
                         "switch", "restore", "freeing", "returned", "gone"}]
    BY <1>3 DEF TypeOK
  <1>5. UNCHANGED doomed => Doom' = Doom
    BY <1>1, <1>3, IdsAre DEF Doom
  <1>6. UNCHANGED counter => IdsInv'
    BY <1>1, <1>3, Caller DEF IdsInv
  <1>7. StackInv'
    BY <1>1, <1>2, <1>3, Caller DEF StackInv
  <1> QED
    BY <1>1, <1>2, <1>3, <1>4, <1>5, <1>6, <1>7

LEMMA exitCurrentThreadStep ==
    ASSUME IInv, exitCurrentThread
    PROVE  IInv'
  <1> USE DEF IInv
  <1>0. InUser /\ mq[run] = NULL
    BY DEF exitCurrentThread, Calls
  <1>1. /\ run = current /\ current \in Rd /\ current \in Ids /\ current \notin {Idle, Gc}
        /\ current \notin Sl \cup De \cup Doom \cup Wt /\ frees[current] = 0
        /\ ~toDelete[current] /\ pc[current] = "user"
        /\ \A t \in Ids : pc[t] \notin {"switch", "restore", "gcpop"}
    BY <1>0, Caller
  <1>2. /\ run' = run /\ saved' = saved /\ itEnabled' = TRUE
        /\ pc' = [pc EXCEPT ![current] = "restore"] /\ pc = [u \in Ids |-> pc[u]]
        /\ pc' \in [Ids -> {"none", "user", "idle", "gc", "gcpop", "gcfree",
                            "switch", "restore", "freeing", "returned", "gone"}]
        /\ ready' \in Seq(Ids) /\ Once(ready') /\ Rd' = Rd \ {current} /\ current' \in Ids
        /\ Doom' = Doom /\ IdsInv' /\ StackInv'
    BY <1>0, Left DEF exitCurrentThread, garbage, new
  <1>3. /\ deletion' = <<current>> \o deletion
        /\ UNCHANGED <<sleeping, timeToWait, now, sem, queue, mq, toDelete, doomed, frees, counter>>
    BY DEF exitCurrentThread, Pushed, new, clock, objects, garbage
  <1>4. deletion' \in Seq(Ids) /\ Once(deletion') /\ De' = De \cup {current}
    BY <1>1, <1>3, PutInFront DEF De, OnceInv, TypeOK
  <1>5. Sl' = Sl /\ Wt' = Wt /\ \A x \in Objects : Line(x)' = Line(x)
    BY <1>3, LinesKept, ObjectsKept DEF Sl
  <1>6. TypeOK'
    BY <1>2, <1>3, <1>4 DEF TypeOK
  <1>7. OnceInv'
    BY <1>2, <1>3, <1>4, <1>5 DEF OnceInv, Objects
  <1>8. ApartInv'
    BY <1>1, <1>2, <1>4, <1>5 DEF ApartInv, LinesApart, Objects
  <1>9. FreesInv'
    BY <1>1, <1>2, <1>3, <1>4, <1>5 DEF FreesInv
  <1>10. AtInv'
    <2>1. \A t \in Ids \ {current} : pc'[t] = pc[t]
      BY <1>2
    <2>2. pc'[current] = "restore"
      BY <1>1, <1>2
    <2>3. /\ Rd' = Rd \ {current} /\ Doom' = Doom /\ Doom \subseteq Ids
          /\ Rd \subseteq Ids /\ Sl \subseteq Ids /\ De \subseteq Ids /\ Wt \subseteq Ids
      BY <1>2, ListsAre, DoomIs
    <2> QED
      BY <1>1, <1>4, <1>5, <2>1, <2>2, <2>3, IdsAre DEF AtInv
  <1>11. RunInv' /\ GcInv'
    BY <1>1, <1>2, <1>3, <1>4, IdsAre DEF RunInv, GcInv
  <1>12. FlagInv'
    BY <1>0, <1>1, <1>2, <1>3 DEF FlagInv
  <1>13. MessagesInv'
    <2>1. \A q \in Queues : Called(q) \subseteq Called(q)'
      BY <1>0, <1>1, <1>2, <1>3, Ordo2Assumption DEF Called
    <2> QED
      BY <2>1, <1>2, <1>3, MessagesKept, ListsAre
  <1>14. WaitInv'
    BY <1>3, <1>13 DEF WaitInv, MessagesInv
  <1> QED
    BY <1>2, <1>6, <1>7, <1>8, <1>9, <1>10, <1>11, <1>12, <1>14

LEMMA gSleepStep ==
    ASSUME IInv, NEW d \in Durations, gSleep(d)
    PROVE  IInv'
  <1> USE DEF IInv
  <1>0. InUser /\ mq[run] = NULL
    BY DEF gSleep, Calls
  <1>1. /\ run = current /\ current \in Rd /\ current \in Ids /\ current \notin {Idle, Gc}
        /\ current \notin Sl \cup De \cup Doom \cup Wt /\ frees[current] = 0
        /\ ~toDelete[current] /\ pc[current] = "user"
        /\ \A t \in Ids : pc[t] \notin {"switch", "restore", "gcpop"}
    BY <1>0, Caller
  <1>2. /\ run' = run /\ saved' = saved /\ itEnabled' = TRUE
        /\ pc' = [pc EXCEPT ![current] = "switch"] /\ pc = [u \in Ids |-> pc[u]]
        /\ pc' \in [Ids -> {"none", "user", "idle", "gc", "gcpop", "gcfree",
                            "switch", "restore", "freeing", "returned", "gone"}]
        /\ ready' \in Seq(Ids) /\ Once(ready') /\ Rd' = Rd \ {current} /\ current' \in Ids
        /\ Doom' = Doom /\ IdsInv' /\ StackInv'
    BY <1>0, Left DEF gSleep, garbage, new
  <1>3. /\ now + d \in Nat /\ timeToWait' = [timeToWait EXCEPT ![current] = now + d]
        /\ sleeping' = InsertAt(sleeping, SleepsBefore(now + d) + 1, current)
        /\ UNCHANGED <<deletion, now, sem, queue, mq, toDelete, doomed, frees, counter>>
    BY Ordo2Assumption DEF gSleep, new, objects, garbage, TypeOK
  <1>4. sleeping' \in Seq(Ids) /\ Once(sleeping') /\ Sl' = Sl \cup {current}
    <2>1. SleepsBefore(now + d) \in 0..Len(sleeping)
      BY <1>3, SleepsBeforeIsAPlace
    <2> QED
      BY <1>1, <1>3, <2>1, PutBehind DEF Sl, OnceInv, TypeOK
  <1>5. De' = De /\ Wt' = Wt /\ \A x \in Objects : Line(x)' = Line(x)
    BY <1>3, LinesKept, ObjectsKept DEF De
  <1>6. TypeOK'
    <2>1. timeToWait' \in [Ids -> Nat]
      BY <1>1, <1>3 DEF TypeOK
    <2> QED
      BY <1>2, <1>3, <1>4, <2>1 DEF TypeOK
  <1>7. OnceInv'
    BY <1>2, <1>3, <1>4, <1>5 DEF OnceInv, Objects
  <1>8. ApartInv'
    BY <1>1, <1>2, <1>4, <1>5 DEF ApartInv, LinesApart, Objects
  <1>9. FreesInv'
    BY <1>1, <1>2, <1>3, <1>4, <1>5 DEF FreesInv
  <1>10. AtInv'
    <2>1. \A t \in Ids \ {current} : pc'[t] = pc[t]
      BY <1>2
    <2>2. pc'[current] = "switch"
      BY <1>1, <1>2
    <2>3. /\ Rd' = Rd \ {current} /\ Doom' = Doom /\ Doom \subseteq Ids
          /\ Rd \subseteq Ids /\ Sl \subseteq Ids /\ De \subseteq Ids /\ Wt \subseteq Ids
      BY <1>2, ListsAre, DoomIs
    <2> QED
      BY <1>1, <1>4, <1>5, <2>1, <2>2, <2>3, IdsAre DEF AtInv
  <1>11. RunInv' /\ GcInv'
    BY <1>1, <1>2, <1>3, <1>4, IdsAre DEF RunInv, GcInv
  <1>12. FlagInv'
    BY <1>0, <1>1, <1>2, <1>3 DEF FlagInv
  <1>13. MessagesInv'
    <2>1. \A q \in Queues : Called(q) \subseteq Called(q)'
      BY <1>0, <1>1, <1>2, <1>3, Ordo2Assumption DEF Called
    <2> QED
      BY <2>1, <1>2, <1>3, MessagesKept, ListsAre
  <1>14. WaitInv'
    BY <1>3, <1>13 DEF WaitInv, MessagesInv
  <1> QED
    BY <1>2, <1>6, <1>7, <1>8, <1>9, <1>10, <1>11, <1>12, <1>14

LEMMA WaitsForSemaphore ==
    ASSUME IInv, NEW s \in Sems, semTake(s), sem[s].counter = 0
    PROVE  IInv'
  <1> USE DEF IInv
  <1>0. InUser /\ mq[run] = NULL /\ sem[s].alive
    BY DEF semTake, Calls
  <1>1. /\ run = current /\ current \in Rd /\ current \in Ids /\ current \notin {Idle, Gc}
        /\ current \notin Sl \cup De \cup Doom \cup Wt /\ frees[current] = 0
        /\ ~toDelete[current] /\ pc[current] = "user"
        /\ \A t \in Ids : pc[t] \notin {"switch", "restore", "gcpop"}
    BY <1>0, Caller
  <1>2. /\ run' = run /\ saved' = saved /\ itEnabled' = TRUE
        /\ pc' = [pc EXCEPT ![current] = "switch"] /\ pc = [u \in Ids |-> pc[u]]
        /\ pc' \in [Ids -> {"none", "user", "idle", "gc", "gcpop", "gcfree",
                            "switch", "restore", "freeing", "returned", "gone"}]
        /\ ready' \in Seq(Ids) /\ Once(ready') /\ Rd' = Rd \ {current} /\ current' \in Ids
        /\ Doom' = Doom /\ IdsInv' /\ StackInv'
    BY <1>0, Left DEF semTake, garbage, new
  <1>3. /\ sem' = [sem EXCEPT ![s].inWait = <<current>> \o @]
        /\ UNCHANGED <<sleeping, deletion, timeToWait, now, queue, mq, toDelete, doomed, frees,
                       counter>>
    BY DEF semTake, Pushed, new, clock, garbage
  <1>4. /\ s \in Objects /\ Line(s)' = <<current>> \o Line(s)
        /\ \A y \in Objects \ {s} : Line(y)' = Line(y)
    BY <1>3 DEF Line, Objects, TypeOK
  <1>5. /\ Line(s)' \in Seq(Ids) /\ Wt' = Wt \cup {current}
        /\ LinesApart' /\ \A y \in Objects : Once(Line(y)')
    BY <1>1, <1>4, LineGrows DEF ApartInv
  <1>6. Sl' = Sl /\ De' = De
    BY <1>3 DEF Sl, De
  <1>7. TypeOK'
    <2>1. sem'[s].inWait \in Seq(Ids)
      BY <1>5 DEF Line
    <2>2. sem' \in [Sems -> [alive : BOOLEAN, counter : 0..MaxCoins, inWait : Seq(Ids)]]
      <3> DEFINE w == <<current>> \o sem[s].inWait
      <3>1. /\ sem' = [sem EXCEPT ![s].inWait = w]
            /\ sem \in [Sems -> [alive : BOOLEAN, counter : 0..MaxCoins, inWait : Seq(Ids)]]
        BY <1>3 DEF TypeOK
      <3>2. w \in Seq(Ids)
        BY <1>1 DEF TypeOK
      <3> HIDE DEF w
      <3> QED
        BY <3>1, <3>2
    <2> QED
      BY <1>2, <1>3, <2>2 DEF TypeOK
  <1>8. OnceInv'
    BY <1>2, <1>3, <1>5 DEF OnceInv, Objects
  <1>9. ApartInv'
    BY <1>1, <1>2, <1>5, <1>6 DEF ApartInv
  <1>10. FreesInv'
    BY <1>1, <1>2, <1>3, <1>5, <1>6 DEF FreesInv
  <1>11. AtInv'
    <2>1. \A t \in Ids \ {current} : pc'[t] = pc[t]
      BY <1>2
    <2>2. pc'[current] = "switch"
      BY <1>1, <1>2
    <2>3. /\ Rd' = Rd \ {current} /\ Doom' = Doom /\ Doom \subseteq Ids
          /\ Rd \subseteq Ids /\ Sl \subseteq Ids /\ De \subseteq Ids /\ Wt \subseteq Ids
      BY <1>2, ListsAre, DoomIs
    <2> QED
      BY <1>1, <1>5, <1>6, <2>1, <2>2, <2>3, IdsAre DEF AtInv
  <1>12. RunInv' /\ GcInv'
    BY <1>1, <1>2, <1>3, <1>5, IdsAre DEF RunInv, GcInv
  <1>13. FlagInv'
    BY <1>0, <1>1, <1>2, <1>3 DEF FlagInv
  <1>14. MessagesInv'
    <2>1. \A q \in Queues : Called(q) \subseteq Called(q)'
      BY <1>0, <1>1, <1>2, <1>3, Ordo2Assumption DEF Called
    <2> QED
      BY <2>1, <1>2, <1>3, MessagesKept, ListsAre
  <1>15. WaitInv'
    <2>1. /\ \A r \in Sems \ {s} : sem'[r] = sem[r]
          /\ sem'[s].alive = sem[s].alive /\ sem'[s].counter = 0
      BY <1>3 DEF TypeOK
    <2>2. \A r \in Sems : ~sem'[r].alive => sem'[r].inWait = <<>>
      BY <1>0, <2>1 DEF WaitInv
    <2>3. \A r \in Sems : sem'[r].counter > 0 => sem'[r].inWait = <<>>
      BY <2>1 DEF WaitInv
    <2> QED
      BY <1>3, <1>14, <2>2, <2>3 DEF WaitInv, MessagesInv
  <1> QED
    BY <1>2, <1>7, <1>8, <1>9, <1>10, <1>11, <1>12, <1>13, <1>15

LEMMA WaitsForMessage ==
    ASSUME IInv, NEW q \in Queues, receiveMessage(q), queue[q].inBox = <<>>
    PROVE  IInv'
  <1> USE DEF IInv
  <1>0. InUser /\ mq[run] \in {NULL, q} /\ queue[q].alive
    BY DEF receiveMessage
  <1>1. /\ run = current /\ current \in Rd /\ current \in Ids /\ current \notin {Idle, Gc}
        /\ current \notin Sl \cup De \cup Doom \cup Wt /\ frees[current] = 0
        /\ ~toDelete[current] /\ pc[current] = "user"
        /\ \A t \in Ids : pc[t] \notin {"switch", "restore", "gcpop"}
    BY <1>0, Caller
  <1>2. /\ run' = run /\ saved' = saved /\ itEnabled' = TRUE
        /\ pc' = [pc EXCEPT ![current] = "switch"] /\ pc = [u \in Ids |-> pc[u]]
        /\ pc' \in [Ids -> {"none", "user", "idle", "gc", "gcpop", "gcfree",
                            "switch", "restore", "freeing", "returned", "gone"}]
        /\ ready' \in Seq(Ids) /\ Once(ready') /\ Rd' = Rd \ {current} /\ current' \in Ids
        /\ Doom' = Doom /\ IdsInv' /\ StackInv'
    BY <1>0, Left DEF receiveMessage, garbage, new
  <1>3. /\ queue' = [queue EXCEPT ![q].inWait = <<current>> \o @]
        /\ mq' = [mq EXCEPT ![current] = q] /\ mq = [u \in Ids |-> mq[u]]
        /\ UNCHANGED <<sleeping, deletion, timeToWait, now, sem, toDelete, doomed, frees, counter>>
    BY <1>1 DEF receiveMessage, Pushed, new, clock, garbage, TypeOK
  <1>4. /\ q \in Objects /\ Line(q)' = <<current>> \o Line(q)
        /\ \A y \in Objects \ {q} : Line(y)' = Line(y)
    <2>a. q \notin Sems
      BY Ordo2Assumption
    <2>b. queue \in [Queues -> [alive : BOOLEAN, inBox : Seq(Data), inWait : Seq(Ids)]]
      BY DEF TypeOK
    <2>1. q \notin Sems /\ queue'[q].inWait = <<current>> \o queue[q].inWait
      BY <1>3, <2>a, <2>b
    <2>2. \A y \in Queues \ {q} : queue'[y] = queue[y]
      BY <1>3 DEF TypeOK
    <2> QED
      BY <1>3, <2>1, <2>2 DEF Line, Objects
  <1>5. /\ Line(q)' \in Seq(Ids) /\ Wt' = Wt \cup {current}
        /\ ToSet(Line(q)') = ToSet(Line(q)) \cup {current}
        /\ LinesApart' /\ \A y \in Objects : Once(Line(y)')
    BY <1>1, <1>4, LineGrows DEF ApartInv
  <1>6. Sl' = Sl /\ De' = De
    BY <1>3 DEF Sl, De
  <1>a. /\ queue'[q].inWait = Line(q)' /\ queue[q].inWait = Line(q)
        /\ queue'[q].alive = queue[q].alive /\ queue'[q].inBox = <<>>
        /\ \A p \in Queues \ {q} : queue'[p] = queue[p]
    <2>1. q \notin Sems
      BY Ordo2Assumption DEF Ordo2Assumption
    <2>2. Line(q)' = queue'[q].inWait /\ Line(q) = queue[q].inWait
      BY <2>1 DEF Line
    <2>3. /\ queue'[q].alive = queue[q].alive /\ queue'[q].inBox = queue[q].inBox
          /\ \A p \in Queues \ {q} : queue'[p] = queue[p]
      BY <1>3 DEF TypeOK
    <2> QED
      BY <2>2, <2>3
  <1>7. TypeOK'
    <2>1. queue' \in [Queues -> [alive : BOOLEAN, inBox : Seq(Data), inWait : Seq(Ids)]]
      BY <1>3, <1>5, <1>a DEF TypeOK
    <2>2. mq' \in [Ids -> Queues \cup Sems \cup {NULL}]
      BY <1>1, <1>3 DEF TypeOK
    <2> QED
      BY <1>2, <1>3, <2>1, <2>2 DEF TypeOK
  <1>8. OnceInv'
    BY <1>2, <1>3, <1>5 DEF OnceInv, Objects
  <1>9. ApartInv'
    BY <1>1, <1>2, <1>5, <1>6 DEF ApartInv
  <1>10. FreesInv'
    BY <1>1, <1>2, <1>3, <1>5, <1>6 DEF FreesInv
  <1>11. AtInv'
    <2>1. \A t \in Ids \ {current} : pc'[t] = pc[t]
      BY <1>2
    <2>2. pc'[current] = "switch"
      BY <1>1, <1>2
    <2>3. /\ Rd' = Rd \ {current} /\ Doom' = Doom /\ Doom \subseteq Ids
          /\ Rd \subseteq Ids /\ Sl \subseteq Ids /\ De \subseteq Ids /\ Wt \subseteq Ids
      BY <1>2, ListsAre, DoomIs
    <2> QED
      BY <1>1, <1>5, <1>6, <2>1, <2>2, <2>3, IdsAre DEF AtInv
  <1>12. RunInv' /\ GcInv'
    BY <1>1, <1>2, <1>3, <1>5, IdsAre DEF RunInv, GcInv
  <1>13. FlagInv'
    BY <1>0, <1>1, <1>2, <1>3 DEF FlagInv
  <1>14. MessagesInv'
    <2> SUFFICES ASSUME NEW p \in Queues, queue'[p].inWait # <<>>
                 PROVE  Len(queue'[p].inBox) <= Cardinality(Called(p)')
      BY DEF MessagesInv
    <2>1. CASE p = q
      <3>1. Len(queue'[p].inBox) = 0
        BY <1>a, <2>1
      <3>2. Called(p)' \subseteq Ids
        BY <1>2, ListsAre DEF Called
      <3>3. Cardinality(Called(p)') \in Nat
        BY <3>2, NoFewer
      <3> QED
        BY <3>1, <3>3
    <2>2. CASE p # q
      <3>1. Called(p)' = Called(p)
        <4>1. mq[current] # p
          BY <1>0, <1>1, <2>2, Ordo2Assumption
        <4> QED
          BY <1>1, <1>2, <1>3, <2>2, <4>1, ListsAre DEF Called
      <3> QED
        BY <1>a, <2>2, <3>1 DEF WaitInv
    <2> QED
      BY <2>1, <2>2
  <1>15. WaitInv'
    <2>1. \A p \in Queues : ~queue'[p].alive => queue'[p].inWait = <<>>
      BY <1>0, <1>a DEF WaitInv
    <2>2. ASSUME NEW p \in Queues, NEW t \in ToSet(queue'[p].inWait) PROVE mq'[t] = p
      <3>1. CASE p = q
        <4>1. /\ t = current \/ t \in ToSet(queue[q].inWait)
              /\ mq' = [mq EXCEPT ![current] = q] /\ mq = [u \in Ids |-> mq[u]]
              /\ q \in Objects /\ Line(q) = queue[q].inWait
          BY <1>3, <1>4, <1>5, <1>a, <2>2, <3>1
        <4>2. ToSet(queue[q].inWait) \subseteq Ids
          BY <4>1, ListsAre
        <4>3. t \in ToSet(queue[q].inWait) => mq[t] = q
          BY DEF WaitInv
        <4> QED
          BY <1>1, <3>1, <4>1, <4>2, <4>3
      <3>2. CASE p # q
        <4>1. queue[p].inWait = Line(p) /\ p \in Objects
          BY Ordo2Assumption DEF Line, Objects
        <4>2. t \in Wt /\ t \in Ids /\ mq[t] = p
          BY <1>a, <2>2, <3>2, <4>1, ListsAre DEF WaitInv
        <4> QED
          BY <1>1, <1>3, <4>2
      <3> QED
        BY <3>1, <3>2
    <2> QED
      BY <1>3, <1>14, <2>1, <2>2 DEF WaitInv, MessagesInv
  <1> QED
    BY <1>2, <1>7, <1>8, <1>9, <1>10, <1>11, <1>12, <1>13, <1>15

\* A call that moves no thread.
LEMMA NoThreadMoves ==
    ASSUME IInv, UNCHANGED <<new, lists, kernel, garbage>>,
           \A x \in Objects : Line(x)' = Line(x)
    PROVE  /\ OnceInv' /\ ApartInv' /\ FreesInv' /\ AtInv' /\ RunInv' /\ GcInv' /\ IdsInv'
           /\ StackInv' /\ (UNCHANGED mq => FlagInv') /\ Rd' = Rd /\ Wt' = Wt
  <1> USE DEF IInv, new, lists, kernel, garbage
  <1>1. Rd' = Rd /\ Sl' = Sl /\ De' = De /\ Doom' = Doom /\ Wt' = Wt
    BY LinesKept DEF Rd, Sl, De, Doom
  <1>2. OnceInv'
    BY DEF OnceInv, Objects
  <1>3. ApartInv'
    BY <1>1 DEF ApartInv, LinesApart, Objects
  <1>4. FreesInv' /\ AtInv' /\ RunInv' /\ GcInv' /\ IdsInv' /\ StackInv'
    BY <1>1 DEF FreesInv, AtInv, RunInv, GcInv, IdsInv, StackInv
  <1>5. UNCHANGED mq => FlagInv'
    BY DEF FlagInv
  <1> QED
    BY <1>1, <1>2, <1>3, <1>4, <1>5

\* A call that wakes the first thread that waits for an object.
LEMMA FirstIsWoken ==
    ASSUME IInv, InUser, UNCHANGED <<new, sleeping, deletion, kernel, mq, garbage>>,
           NEW x \in Objects, Line(x) # <<>>, Line(x)' = Tail(Line(x)),
           \A y \in Objects \ {x} : Line(y)' = Line(y),
           ready' = <<Head(Line(x))>> \o ready
    PROVE  /\ OnceInv' /\ ApartInv' /\ FreesInv' /\ AtInv' /\ RunInv' /\ GcInv' /\ IdsInv'
           /\ StackInv' /\ FlagInv' /\ ready' \in Seq(Ids) /\ Line(x)' \in Seq(Ids)
           /\ Head(Line(x)) \in ToSet(Line(x)) \ Rd /\ Rd' = Rd \cup {Head(Line(x))}
           /\ ToSet(Line(x)') \subseteq ToSet(Line(x))
  <1> USE DEF IInv
  <1>1. PICK h : h = Head(Line(x))
    OBVIOUS
  <1>2. /\ h \in Wt /\ h \in Ids /\ h \in ToSet(Line(x))
        /\ Line(x)' \in Seq(Ids) /\ ToSet(Line(x)') = ToSet(Line(x)) \ {h}
        /\ Wt' = Wt \ {h} /\ LinesApart' /\ \A y \in Objects : Once(Line(y)')
    BY <1>1, LineShrinks DEF ApartInv
  <1>3. h \notin Rd /\ h \notin Sl /\ h \notin De /\ h \notin Doom /\ frees[h] = 0
    BY <1>2 DEF ApartInv, FreesInv
  <1>4. ready' \in Seq(Ids) /\ Once(ready') /\ Rd' = Rd \cup {h}
    BY <1>1, <1>2, <1>3, PutInFront DEF Rd, OnceInv, TypeOK
  <1> USE DEF new, kernel, garbage
  <1>5. Sl' = Sl /\ De' = De /\ Doom' = Doom /\ UNCHANGED <<pc, run, current, saved, frees>>
    BY DEF Sl, De, Doom
  <1>6. OnceInv'
    BY <1>2, <1>4 DEF OnceInv, Objects
  <1>7. ApartInv'
    BY <1>2, <1>3, <1>4, <1>5 DEF ApartInv
  <1>8. FreesInv'
    BY <1>2, <1>3, <1>4, <1>5 DEF FreesInv
  <1>9. AtInv'
    <2>1. pc[h] = "user"
      BY <1>2, Caller
    <2> QED
      BY <1>2, <1>4, <1>5, <2>1 DEF AtInv
  <1>10. RunInv'
    <2>1. pc[run] = "user"
      BY DEF InUser
    <2> QED
      BY <1>5, <2>1 DEF RunInv
  <1>11. GcInv' /\ IdsInv' /\ FlagInv'
    BY <1>5 DEF GcInv, IdsInv, FlagInv
  <1>12. StackInv'
    BY <1>4, <1>5 DEF StackInv
  <1> QED
    BY <1>1, <1>2, <1>3, <1>4, <1>6, <1>7, <1>8, <1>9, <1>10, <1>11, <1>12

LEMMA newSemaphoreStep ==
    ASSUME IInv, NEW s \in Sems, NEW i \in 0..1, newSemaphore(s, i)
    PROVE  IInv'
  <1> USE DEF IInv, newSemaphore
  <1>1. /\ sem' = [sem EXCEPT ![s] = [alive |-> TRUE, counter |-> i, inWait |-> <<>>]]
        /\ sem[s].inWait = <<>> /\ UNCHANGED queue
    BY DEF WaitInv
  <1>2. /\ sem'[s].inWait = <<>> /\ sem'[s].alive = TRUE
        /\ \A r \in Sems \ {s} : sem'[r] = sem[r]
    BY <1>1 DEF TypeOK
  <1>3. \A x \in Objects : Line(x)' = Line(x)
    BY <1>1, <1>2 DEF Line
  <1>4. /\ OnceInv' /\ ApartInv' /\ FreesInv' /\ AtInv' /\ RunInv' /\ GcInv' /\ IdsInv'
        /\ StackInv' /\ FlagInv' /\ Rd' = Rd
    BY <1>3, NoThreadMoves
  <1>5. TypeOK'
    <2>1. i \in 0..MaxCoins /\ <<>> \in Seq(Ids)
      BY Ordo2Assumption
    <2>2. sem' \in [Sems -> [alive : BOOLEAN, counter : 0..MaxCoins, inWait : Seq(Ids)]]
      BY <1>1, <2>1 DEF TypeOK
    <2> QED
      BY <2>2 DEF TypeOK, new, lists, kernel, clock, garbage
  <1>6. WaitInv'
    <2>1. \A q \in Queues : Called(q)' = Called(q)
      BY <1>4 DEF Called
    <2> QED
      BY <1>1, <1>2, <2>1 DEF WaitInv
  <1> QED
    BY <1>4, <1>5, <1>6

\* A step from one place of a call to another, in which no thread moves.
LEMMA CallGoesOn ==
    ASSUME IInv, pc[run] \in {"user", "freeing"}, NEW l \in {"user", "freeing"},
           NEW m \in Sems \cup {NULL},
           pc' = [pc EXCEPT ![run] = l], mq' = [mq EXCEPT ![run] = m],
           mq[run] \notin Queues,
           UNCHANGED <<new, lists, current, run, saved, garbage>>,
           \A x \in Objects : Line(x)' = Line(x)
    PROVE  /\ OnceInv' /\ ApartInv' /\ FreesInv' /\ AtInv' /\ RunInv' /\ GcInv' /\ IdsInv'
           /\ StackInv' /\ FlagInv'
           /\ mq' \in [Ids -> Queues \cup Sems \cup {NULL}]
           /\ pc' \in [Ids -> {"none", "user", "idle", "gc", "gcpop", "gcfree",
                               "switch", "restore", "freeing", "returned", "gone"}]
           /\ \A q \in Queues : Called(q)' = Called(q)
           /\ \A q \in Queues : \A t \in ToSet(Line(q)) : mq[t] = q => mq'[t] = q
  <1> USE DEF IInv, lists, new, garbage
  <1>1. /\ run = current /\ run \in Ids /\ run \in Rd
        /\ \A t \in Ids \ {run} : pc'[t] = pc[t] /\ mq'[t] = mq[t]
        /\ pc'[run] = l /\ mq'[run] = m
    BY DEF StackInv, TypeOK
  <1>2. run \notin {Idle, Gc} /\ ~toDelete[run]
    BY <1>1 DEF AtInv, GcInv, FlagInv
  <1>3. Rd' = Rd /\ Sl' = Sl /\ De' = De /\ Wt' = Wt
    BY LinesKept DEF Rd, Sl, De
  <1>4. Doom' = Doom /\ Doom \subseteq Ids
    BY <1>1, <1>2, IdsAre, DoomIs DEF Doom
  <1>5. run \notin Sl \cup De \cup Doom \cup Wt
    BY <1>1 DEF ApartInv
  <1>6. OnceInv'
    BY DEF OnceInv, Objects
  <1>7. ApartInv'
    BY <1>3, <1>4 DEF ApartInv, LinesApart, Objects
  <1>8. FreesInv' /\ AtInv'
    BY <1>1, <1>2, <1>3, <1>4, <1>5, IdsAre, ListsAre DEF FreesInv, AtInv
  <1>9. RunInv' /\ GcInv'
    BY <1>1, <1>2, <1>3, IdsAre DEF RunInv, GcInv
  <1>10. FlagInv' /\ IdsInv' /\ StackInv'
    BY <1>1, <1>2, <1>3 DEF FlagInv, IdsInv, StackInv
  <1>11. \A q \in Queues : Called(q)' = Called(q)
    <2>1. m \notin Queues
      BY Ordo2Assumption
    <2>2. \A q \in Queues, t \in Rd : mq'[t] = q <=> mq[t] = q
      BY <1>1, <2>1, ListsAre
    <2> QED
      BY <1>3, <2>2 DEF Called
  <1>12. mq' \in [Ids -> Queues \cup Sems \cup {NULL}]
    BY <1>1 DEF TypeOK
  <1>13. pc' \in [Ids -> {"none", "user", "idle", "gc", "gcpop", "gcfree",
                          "switch", "restore", "freeing", "returned", "gone"}]
    BY <1>1 DEF TypeOK
  <1>14. \A q \in Queues : \A t \in ToSet(Line(q)) : mq[t] = q => mq'[t] = q
    <2> SUFFICES ASSUME NEW q \in Queues, NEW t \in ToSet(Line(q)) PROVE mq[t] = q => mq'[t] = q
      OBVIOUS
    <2>1. t \in Wt
      BY DEF Wt, Objects
    <2> QED
      BY <1>1, <1>5, <2>1, ListsAre
  <1> QED
    BY <1>6, <1>7, <1>8, <1>9, <1>10, <1>11, <1>12, <1>13, <1>14

LEMMA deleteSemaphoreStep ==
    ASSUME IInv, NEW s \in Sems, deleteSemaphore(s)
    PROVE  IInv'
  <1> USE DEF IInv
  <1>1. /\ pc[run] = "user" /\ mq[run] = NULL /\ UNCHANGED <<sem, queue, itEnabled, clock>>
        /\ mq' = [mq EXCEPT ![run] = s] /\ pc' = [pc EXCEPT ![run] = "freeing"]
        /\ UNCHANGED <<new, lists, current, run, saved, garbage>>
    BY DEF deleteSemaphore, Calls, InUser
  <1>2. \A x \in Objects : Line(x)' = Line(x)
    BY <1>1, ObjectsKept
  <1>3. mq[run] \notin Queues
    BY <1>1, Ordo2Assumption
  <1>4. /\ OnceInv' /\ ApartInv' /\ FreesInv' /\ AtInv' /\ RunInv' /\ GcInv' /\ IdsInv'
        /\ StackInv' /\ FlagInv'
        /\ mq' \in [Ids -> Queues \cup Sems \cup {NULL}]
        /\ pc' \in [Ids -> {"none", "user", "idle", "gc", "gcpop", "gcfree",
                            "switch", "restore", "freeing", "returned", "gone"}]
        /\ \A q \in Queues : Called(q)' = Called(q)
        /\ \A q \in Queues : \A t \in ToSet(Line(q)) : mq[t] = q => mq'[t] = q
    BY <1>1, <1>2, <1>3, CallGoesOn
  <1>5. TypeOK'
    BY <1>1, <1>4 DEF TypeOK, new, lists, clock, garbage
  <1>6. WaitInv'
    BY <1>1, <1>4, QueueLine DEF WaitInv
  <1> QED
    BY <1>4, <1>5, <1>6

LEMMA FreeSemaphoreStep ==
    ASSUME IInv, FreeingInv, FreeSemaphore
    PROVE  IInv'
  <1> USE DEF IInv
  <1>0. /\ pc[run] = "freeing" /\ run \in Ids
        /\ mq' = [mq EXCEPT ![run] = NULL] /\ pc' = [pc EXCEPT ![run] = "user"]
        /\ UNCHANGED <<itEnabled, new, lists, current, run, saved, clock, queue, garbage>>
    BY DEF FreeSemaphore, TypeOK
  <1>1. PICK s \in Sems : s = mq[run] /\ sem[s].inWait = <<>>
    BY <1>0 DEF FreeingInv
  <1>2. /\ sem' = [sem EXCEPT ![s] = NoObject]
        /\ sem'[s].inWait = <<>> /\ sem'[s].counter = 0
        /\ \A r \in Sems \ {s} : sem'[r] = sem[r]
    BY <1>1 DEF FreeSemaphore, TypeOK, NoObject
  <1>3. \A x \in Objects : Line(x)' = Line(x)
    BY <1>0, <1>1, <1>2 DEF Line
  <1>4. mq[run] \notin Queues
    BY <1>1, Ordo2Assumption
  <1>5. /\ OnceInv' /\ ApartInv' /\ FreesInv' /\ AtInv' /\ RunInv' /\ GcInv' /\ IdsInv'
        /\ StackInv' /\ FlagInv'
        /\ mq' \in [Ids -> Queues \cup Sems \cup {NULL}]
        /\ pc' \in [Ids -> {"none", "user", "idle", "gc", "gcpop", "gcfree",
                            "switch", "restore", "freeing", "returned", "gone"}]
        /\ \A q \in Queues : Called(q)' = Called(q)
        /\ \A q \in Queues : \A t \in ToSet(Line(q)) : mq[t] = q => mq'[t] = q
    BY <1>0, <1>3, <1>4, CallGoesOn
  <1>6. TypeOK'
    <2>1. 0 \in 0..MaxCoins /\ <<>> \in Seq(Ids)
      BY Ordo2Assumption
    <2>2. sem' \in [Sems -> [alive : BOOLEAN, counter : 0..MaxCoins, inWait : Seq(Ids)]]
      BY <1>2, <2>1 DEF TypeOK, NoObject
    <2> QED
      BY <1>0, <1>5, <2>2 DEF TypeOK, new, lists, clock, garbage
  <1>7. WaitInv'
    BY <1>0, <1>1, <1>2, <1>5, QueueLine DEF WaitInv
  <1> QED
    BY <1>5, <1>6, <1>7

LEMMA semTakeStep ==
    ASSUME IInv, NEW s \in Sems, semTake(s)
    PROVE  IInv'
  <1>a. CASE sem[s].counter = 0
    BY <1>a, WaitsForSemaphore
  <1>b. CASE sem[s].counter # 0
    <2> USE DEF IInv
    <2>1. /\ sem' = [sem EXCEPT ![s].counter = @ - 1] /\ itEnabled' = FALSE
          /\ UNCHANGED <<ready, kernel, new, sleeping, deletion, clock, queue, mq, garbage>>
      BY <1>b DEF semTake
    <2>2. /\ sem'[s].inWait = sem[s].inWait /\ sem'[s].alive = sem[s].alive
          /\ sem'[s].counter = sem[s].counter - 1
          /\ \A r \in Sems \ {s} : sem'[r] = sem[r]
      BY <2>1 DEF TypeOK
    <2>3. sem[s].counter \in 0..MaxCoins /\ MaxCoins \in Nat
      BY Ordo2Assumption DEF TypeOK
    <2>4. \A x \in Objects : Line(x)' = Line(x)
      BY <2>1, <2>2 DEF Line
    <2>5. /\ OnceInv' /\ ApartInv' /\ FreesInv' /\ AtInv' /\ RunInv' /\ GcInv' /\ IdsInv'
          /\ StackInv' /\ FlagInv' /\ Rd' = Rd
      BY <2>1, <2>4, NoThreadMoves DEF lists
    <2>6. TypeOK'
      <3>1. sem[s].counter - 1 \in 0..MaxCoins
        BY <1>b, <2>3
      <3>2. sem' \in [Sems -> [alive : BOOLEAN, counter : 0..MaxCoins, inWait : Seq(Ids)]]
        BY <2>1, <3>1 DEF TypeOK
      <3> QED
        BY <2>1, <3>2 DEF TypeOK, new, kernel, clock, garbage
    <2>7. WaitInv'
      <3>1. \A q \in Queues : Called(q)' = Called(q)
        BY <2>1, <2>5 DEF Called
      <3>2. sem[s].inWait = <<>>
        BY <1>b, <2>3 DEF WaitInv
      <3> QED
        BY <2>1, <2>2, <3>1, <3>2 DEF WaitInv
    <2> QED
      BY <2>5, <2>6, <2>7
  <1> QED
    BY <1>a, <1>b

LEMMA semGiveStep ==
    ASSUME IInv, NEW s \in Sems, semGive(s)
    PROVE  IInv'
  <1> USE DEF IInv
  <1>0. /\ InUser /\ sem[s].alive /\ sem[s].counter < MaxCoins /\ itEnabled' = TRUE
        /\ sem' = [sem EXCEPT ![s] = Given(sem[s])] /\ ready' = Woken(sem[s].inWait)
        /\ UNCHANGED <<new, sleeping, deletion, kernel, clock, queue, mq, garbage>>
    BY DEF semGive, Calls
  <1>1. /\ sem'[s] = Given(sem[s]) /\ \A r \in Sems \ {s} : sem'[r] = sem[r]
        /\ sem[s].counter \in 0..MaxCoins /\ MaxCoins \in Nat /\ s \in Objects
        /\ sem[s] \in [alive : BOOLEAN, counter : 0..MaxCoins, inWait : Seq(Ids)]
    BY <1>0, Ordo2Assumption DEF TypeOK, Objects
  <1>a. CASE sem[s].inWait = <<>>
    <2>1. /\ sem'[s] = [sem[s] EXCEPT !.counter = @ + 1] /\ UNCHANGED ready
      BY <1>0, <1>1, <1>a DEF Given, Woken
    <2>2. sem'[s].inWait = <<>> /\ sem'[s].alive = TRUE
      BY <1>0, <1>1, <1>a, <2>1 DEF TypeOK
    <2>4. \A x \in Objects : Line(x)' = Line(x)
      BY <1>0, <1>1, <1>a, <2>2 DEF Line
    <2>5. /\ OnceInv' /\ ApartInv' /\ FreesInv' /\ AtInv' /\ RunInv' /\ GcInv' /\ IdsInv'
          /\ StackInv' /\ FlagInv' /\ Rd' = Rd
      BY <1>0, <2>1, <2>4, NoThreadMoves DEF lists
    <2>6. TypeOK'
      <3>1. sem[s].counter + 1 \in 0..MaxCoins
        BY <1>0, <1>1
      <3>2. Given(sem[s]) \in [alive : BOOLEAN, counter : 0..MaxCoins, inWait : Seq(Ids)]
        BY <1>1, <1>a, <3>1 DEF Given
      <3>3. sem' \in [Sems -> [alive : BOOLEAN, counter : 0..MaxCoins, inWait : Seq(Ids)]]
        BY <1>0, <3>2 DEF TypeOK
      <3> QED
        BY <1>0, <2>1, <3>3 DEF TypeOK, new, kernel, clock, garbage
    <2>7. WaitInv'
      <3>1. \A q \in Queues : Called(q)' = Called(q)
        BY <1>0, <2>5 DEF Called
      <3> QED
        BY <1>0, <1>1, <2>2, <3>1 DEF WaitInv
    <2> QED
      BY <2>5, <2>6, <2>7
  <1>b. CASE sem[s].inWait # <<>>
    <2>1. /\ sem'[s] = [sem[s] EXCEPT !.inWait = Tail(@)]
          /\ ready' = <<Head(sem[s].inWait)>> \o ready
      BY <1>0, <1>1, <1>b DEF Given, Woken, Pushed
    <2>2. /\ sem'[s].inWait = Tail(sem[s].inWait) /\ sem'[s].alive = TRUE
          /\ sem'[s].counter = sem[s].counter
      <3> DEFINE x == sem[s]
                 w == Tail(x.inWait)
      <3>1. /\ sem'[s] = [x EXCEPT !.inWait = w] /\ x.alive = TRUE
            /\ x \in [alive : BOOLEAN, counter : 0..MaxCoins, inWait : Seq(Ids)]
        BY <1>0, <1>1, <2>1
      <3> HIDE DEF x, w
      <3>2. /\ sem'[s].inWait = w /\ sem'[s].alive = TRUE /\ sem'[s].counter = x.counter
        BY <3>1
      <3> QED
        BY <3>2 DEF x, w
    <2>3. /\ Line(s) = sem[s].inWait /\ Line(s)' = Tail(Line(s))
          /\ \A y \in Objects \ {s} : Line(y)' = Line(y)
      BY <1>0, <1>1, <2>2 DEF Line
    <2>4. /\ OnceInv' /\ ApartInv' /\ FreesInv' /\ AtInv' /\ RunInv' /\ GcInv' /\ IdsInv'
          /\ StackInv' /\ FlagInv' /\ ready' \in Seq(Ids) /\ Line(s)' \in Seq(Ids)
          /\ Rd' = Rd \cup {Head(Line(s))}
      BY <1>0, <1>1, <1>b, <2>1, <2>3, FirstIsWoken
    <2>6. TypeOK'
      <3>1. Tail(sem[s].inWait) \in Seq(Ids)
        BY <2>3, <2>4
      <3>2. Given(sem[s]) \in [alive : BOOLEAN, counter : 0..MaxCoins, inWait : Seq(Ids)]
        BY <1>1, <1>b, <3>1 DEF Given
      <3>3. sem' \in [Sems -> [alive : BOOLEAN, counter : 0..MaxCoins, inWait : Seq(Ids)]]
        BY <1>0, <3>2 DEF TypeOK
      <3> QED
        BY <1>0, <2>4, <3>3 DEF TypeOK, new, kernel, clock, garbage
    <2>7. WaitInv'
      <3>1. \A q \in Queues : Called(q) \subseteq Called(q)'
        BY <1>0, <2>4 DEF Called
      <3>2. Rd' \subseteq Ids
        BY <2>4, ElementsAre DEF Rd
      <3>3. MessagesInv'
        BY <1>0, <3>1, <3>2, MessagesKept
      <3>4. sem[s].counter = 0
        BY <1>1, <1>b DEF WaitInv
      <3> QED
        BY <1>0, <1>1, <2>2, <3>3, <3>4 DEF WaitInv, MessagesInv
    <2> QED
      BY <2>4, <2>6, <2>7
  <1> QED
    BY <1>a, <1>b

LEMMA newMessageQueueStep ==
    ASSUME IInv, NEW q \in Queues, newMessageQueue(q)
    PROVE  IInv'
  <1> USE DEF IInv
  <1>1. /\ queue' = [queue EXCEPT ![q] = [NoQueue EXCEPT !.alive = TRUE]]
        /\ itEnabled' = TRUE /\ queue[q].inWait = <<>>
        /\ UNCHANGED <<new, lists, kernel, clock, sem, mq, garbage>>
    BY DEF newMessageQueue, WaitInv
  <1>2. /\ queue'[q].inWait = <<>> /\ queue'[q].alive = TRUE
        /\ \A p \in Queues \ {q} : queue'[p] = queue[p]
    BY <1>1 DEF TypeOK, NoQueue
  <1>3. \A x \in Objects : Line(x)' = Line(x)
    BY <1>1, <1>2 DEF Line, Objects
  <1>4. /\ OnceInv' /\ ApartInv' /\ FreesInv' /\ AtInv' /\ RunInv' /\ GcInv' /\ IdsInv'
        /\ StackInv' /\ FlagInv' /\ Rd' = Rd
    BY <1>1, <1>3, NoThreadMoves
  <1>5. TypeOK'
    <2>1. [NoQueue EXCEPT !.alive = TRUE] \in
             [alive : BOOLEAN, inBox : Seq(Data), inWait : Seq(Ids)]
      <3>1. NoQueue \in [alive : BOOLEAN, inBox : Seq(Data), inWait : Seq(Ids)]
        BY DEF NoQueue
      <3>2. PICK r : r = NoQueue
        OBVIOUS
      <3>3. [r EXCEPT !.alive = TRUE] \in
               [alive : BOOLEAN, inBox : Seq(Data), inWait : Seq(Ids)]
        BY <3>1, <3>2
      <3> QED
        BY <3>2, <3>3, Zenon
    <2>2. queue' \in [Queues -> [alive : BOOLEAN, inBox : Seq(Data), inWait : Seq(Ids)]]
      BY <1>1, <2>1 DEF TypeOK
    <2> QED
      BY <1>1, <2>2 DEF TypeOK, new, lists, kernel, clock, garbage
  <1>6. WaitInv'
    <2>1. \A p \in Queues : Called(p)' = Called(p)
      BY <1>1, <1>4 DEF Called
    <2>2. \A t : t \notin ToSet(<<>>)
      BY DEF ToSet
    <2> QED
      BY <1>1, <1>2, <2>1, <2>2 DEF WaitInv
  <1> QED
    BY <1>4, <1>5, <1>6

LEMMA SendNothingStep ==
    ASSUME IInv, NEW q \in Queues, SendNothing(q)
    PROVE  IInv'
  <1> USE DEF IInv
  <1>1. itEnabled' = FALSE /\ UNCHANGED <<new, lists, kernel, clock, objects, garbage>>
    BY DEF SendNothing
  <1>2. /\ OnceInv' /\ ApartInv' /\ FreesInv' /\ AtInv' /\ RunInv' /\ GcInv' /\ IdsInv'
        /\ StackInv' /\ FlagInv' /\ Rd' = Rd
    BY <1>1, NoThreadMoves, ObjectsKept DEF objects
  <1>3. TypeOK'
    BY <1>1 DEF TypeOK, new, lists, kernel, clock, objects, garbage
  <1>4. WaitInv'
    BY <1>1, <1>2 DEF WaitInv, Called, objects
  <1> QED
    BY <1>2, <1>3, <1>4

LEMMA receiveMessageStep ==
    ASSUME IInv, NEW q \in Queues, receiveMessage(q)
    PROVE  IInv'
  <1>a. CASE queue[q].inBox = <<>>
    BY <1>a, WaitsForMessage
  <1>b. CASE queue[q].inBox # <<>>
    <2> USE DEF IInv
    <2>1. /\ queue' = [queue EXCEPT ![q].inBox = Tail(@)] /\ itEnabled' = TRUE
          /\ mq' = [mq EXCEPT ![run] = NULL] /\ mq = [u \in Ids |-> mq[u]] /\ run \in Ids
          /\ InUser /\ mq[run] \in {NULL, q} /\ queue[q].alive
          /\ UNCHANGED <<ready, kernel, new, sleeping, deletion, clock, sem, garbage>>
      BY <1>b DEF receiveMessage, TypeOK
    <2>2. /\ queue'[q].inWait = queue[q].inWait /\ queue'[q].alive = queue[q].alive
          /\ queue'[q].inBox = Tail(queue[q].inBox) /\ queue[q].inBox \in Seq(Data)
          /\ \A p \in Queues \ {q} : queue'[p] = queue[p]
      BY <2>1 DEF TypeOK
    <2>3. Len(queue[q].inBox) \in Nat \ {0} /\ Len(queue'[q].inBox) = Len(queue[q].inBox) - 1
      BY <1>b, <2>2
    <2>4. \A x \in Objects : Line(x)' = Line(x)
      BY <2>1, <2>2 DEF Line, Objects
    <2>5. /\ OnceInv' /\ ApartInv' /\ FreesInv' /\ AtInv' /\ RunInv' /\ GcInv' /\ IdsInv'
          /\ StackInv' /\ Rd' = Rd
      BY <2>1, <2>4, NoThreadMoves DEF lists
    <2>6. FlagInv'
      BY <2>1 DEF FlagInv, new, kernel
    <2>7. TypeOK'
      <3>1. Tail(queue[q].inBox) \in Seq(Data)
        BY <1>b, <2>2
      <3>2. queue' \in [Queues -> [alive : BOOLEAN, inBox : Seq(Data), inWait : Seq(Ids)]]
        <4>1. [queue[q] EXCEPT !.inBox = Tail(queue[q].inBox)] \in
                 [alive : BOOLEAN, inBox : Seq(Data), inWait : Seq(Ids)]
          BY <3>1 DEF TypeOK
        <4> QED
          BY <2>1, <4>1 DEF TypeOK
      <3>3. mq' \in [Ids -> Queues \cup Sems \cup {NULL}]
        BY <2>1 DEF TypeOK
      <3> QED
        BY <2>1, <3>2, <3>3 DEF TypeOK, new, kernel, clock, garbage
    <2>8. MessagesInv'
      <3> SUFFICES ASSUME NEW p \in Queues, queue'[p].inWait # <<>>
                   PROVE  Len(queue'[p].inBox) <= Cardinality(Called(p)')
        BY DEF MessagesInv
      <3>1. /\ Len(queue[p].inBox) <= Cardinality(Called(p)) /\ Called(p) \subseteq Ids
        BY <2>2, ListsAre DEF WaitInv, Called
      <3>2. Called(p) \ {run} \subseteq Called(p)' /\ Called(p)' \subseteq Ids
        BY <2>1, <2>5, ListsAre DEF Called
      <3>3. CASE p = q
        <4>1. /\ IsFiniteSet(Called(p)) /\ Cardinality(Called(p)) \in Nat
              /\ Cardinality(Called(p)') \in Nat
              /\ Cardinality(Called(p) \ {run}) <= Cardinality(Called(p)')
              /\ Cardinality(Called(p) \ {run}) \in Nat
          BY <3>1, <3>2, NoFewer
        <4>2. Cardinality(Called(p) \ {run}) >= Cardinality(Called(p)) - 1
          <5>1. CASE run \in Called(p)
            <6>1. Cardinality(Called(p) \ {run}) = Cardinality(Called(p)) - 1
              BY <4>1, <5>1, FS_RemoveElement
            <6> QED
              BY <4>1, <6>1
          <5>2. CASE run \notin Called(p)
            <6>1. Called(p) \ {run} = Called(p)
              BY <5>2
            <6> QED
              BY SMTT(30), <4>1, <6>1
          <5> QED
            BY <5>1, <5>2
        <4> QED
          BY <2>3, <3>1, <3>3, <4>1, <4>2
      <3>4. CASE p # q
        <4>1. Called(p) \subseteq Called(p)'
          BY <2>1, <3>2, <3>4, Ordo2Assumption DEF Called
        <4>2. /\ Cardinality(Called(p)) \in Nat /\ Cardinality(Called(p)') \in Nat
              /\ Cardinality(Called(p)) <= Cardinality(Called(p)')
          BY <3>2, <4>1, NoFewer
        <4>3. queue'[p] = queue[p] /\ queue[p].inBox \in Seq(Data)
          BY <2>2, <3>4 DEF TypeOK
        <4>4. Len(queue'[p].inBox) = Len(queue[p].inBox) /\ Len(queue[p].inBox) \in Nat
          BY <4>3
        <4> QED
          BY <3>1, <4>2, <4>4
      <3> QED
        BY <3>3, <3>4
    <2>9. WaitInv'
      <3>1. ASSUME NEW p \in Queues, NEW t \in ToSet(queue'[p].inWait) PROVE mq'[t] = p
        <4>1. p \in Objects /\ Line(p) = queue[p].inWait /\ queue'[p].inWait = queue[p].inWait
          BY <2>2, Ordo2Assumption DEF Objects, Line
        <4>2. t \in Wt /\ t \in Ids /\ mq[t] = p
          BY <3>1, <4>1, ListsAre DEF WaitInv
        <4>3. t # run
          BY <2>1, <4>2, Caller
        <4> QED
          BY <2>1, <4>2, <4>3
      <3>2. \A p \in Queues : ~queue'[p].alive => queue'[p].inWait = <<>>
        BY <2>2 DEF WaitInv
      <3> QED
        BY <2>1, <2>8, <3>1, <3>2 DEF WaitInv, MessagesInv
    <2> QED
      BY <2>5, <2>6, <2>7, <2>9
  <1> QED
    BY <1>a, <1>b

LEMMA sendMessageStep ==
    ASSUME IInv, NEW q \in Queues, NEW d \in Data, sendMessage(q, d)
    PROVE  IInv'
  <1> USE DEF IInv
  <1> DEFINE line == queue[q].inWait
             box == queue[q].inBox
  <1>0. /\ line \in Seq(Ids) /\ box \in Seq(Data) /\ q \notin Sems /\ q \in Objects
        /\ Line(q) = line
    BY Ordo2Assumption DEF TypeOK, Objects, Line
  <1>1. /\ queue' = [queue EXCEPT ![q].inBox = Append(box, d),
                                  ![q].inWait = SubSeq(line, Wakes(q) + 1, Len(line))]
        /\ ready' = SubSeq(line, 1, Wakes(q)) \o ready
        /\ itEnabled' = TRUE /\ InUser /\ queue[q].alive
        /\ UNCHANGED <<new, sleeping, deletion, kernel, clock, sem, mq, garbage>>
    BY DEF sendMessage, Calls, TypeOK
  <1>2. /\ queue'[q].alive = queue[q].alive /\ queue'[q].inBox = Append(box, d)
        /\ queue'[q].inWait = SubSeq(line, Wakes(q) + 1, Len(line))
        /\ \A p \in Queues \ {q} : queue'[p] = queue[p]
        /\ Append(box, d) \in Seq(Data) /\ Len(Append(box, d)) = Len(box) + 1 /\ Len(box) \in Nat
    <2>1. Append(box, d) \in Seq(Data) /\ Len(Append(box, d)) = Len(box) + 1 /\ Len(box) \in Nat
      BY <1>0
    <2> HIDE DEF box, line
    <2>2. /\ queue'[q].alive = queue[q].alive /\ queue'[q].inBox = Append(box, d)
          /\ queue'[q].inWait = SubSeq(line, Wakes(q) + 1, Len(line))
          /\ \A p \in Queues \ {q} : queue'[p] = queue[p]
      BY <1>1 DEF TypeOK
    <2> QED
      BY <2>1, <2>2
  <1>3. \A y \in Objects \ {q} : Line(y)' = Line(y)
    <2>1. UNCHANGED sem /\ \A p \in Queues \ {q} : queue'[p] = queue[p]
      BY <1>1, <1>2
    <2> QED
      BY <2>1 DEF Line, Objects
  <1>4. Line(q)' = queue'[q].inWait
    BY <1>0 DEF Line
  <1> HIDE DEF line, box
  <1>a. CASE line = <<>>
    <2>1. Wakes(q) = 0
      BY <1>a DEF Wakes, line
    <2>2. SubSeq(line, 1, Wakes(q)) = <<>> /\ queue'[q].inWait = <<>>
      BY <1>2, <1>a, <2>1
    <2>3. ready' = ready
      <3>1. <<>> \o ready = ready /\ ready' = <<>> \o ready
        BY <1>1, <2>2, ConcatEmptySeq DEF TypeOK
      <3> QED
        BY <3>1
    <2>4. Line(q)' = Line(q)
      BY <1>0, <1>4, <1>a, <2>2
    <2>5. /\ OnceInv' /\ ApartInv' /\ FreesInv' /\ AtInv' /\ RunInv' /\ GcInv' /\ IdsInv'
          /\ StackInv' /\ FlagInv' /\ Rd' = Rd
      BY <1>1, <1>3, <2>3, <2>4, NoThreadMoves DEF lists
    <2>6. TypeOK'
      <3>1. queue'[q].inWait \in Seq(Ids)
        BY <2>2
      <3>2. queue' \in [Queues -> [alive : BOOLEAN, inBox : Seq(Data), inWait : Seq(Ids)]]
        BY <1>1, <1>2, <3>1 DEF TypeOK
      <3> QED
        BY <1>1, <2>3, <3>2 DEF TypeOK, new, kernel, clock, garbage
    <2>7. WaitInv'
      <3>1. \A p \in Queues : Called(p)' = Called(p)
        BY <1>1, <2>5 DEF Called
      <3>2. \A t : t \notin ToSet(<<>>)
        BY DEF ToSet
      <3> QED
        <4>1. /\ sem' = sem /\ mq' = mq /\ queue[q].alive
              /\ queue'[q].alive = queue[q].alive /\ queue'[q].inWait = <<>>
              /\ \A p \in Queues \ {q} : queue'[p] = queue[p]
          BY <1>1, <1>2, <2>2
        <4>2. ASSUME NEW p \in Queues
              PROVE  /\ ~queue'[p].alive => queue'[p].inWait = <<>>
                     /\ \A t \in ToSet(queue'[p].inWait) : mq'[t] = p
                     /\ queue'[p].inWait # <<>> =>
                           Len(queue'[p].inBox) <= Cardinality(Called(p)')
          <5>1. CASE p = q
            BY <3>2, <4>1, <5>1
          <5>2. CASE p # q
            BY <3>1, <4>1, <5>2 DEF WaitInv
          <5> QED
            BY <5>1, <5>2
        <4> QED
          BY <4>1, <4>2 DEF WaitInv
    <2> QED
      BY <2>5, <2>6, <2>7
  <1>b. CASE line # <<>>
    <2>1. Wakes(q) = 1
      BY <1>b DEF Wakes, line
    <2>2. SubSeq(line, 1, 1) = <<Head(line)>> /\ SubSeq(line, 2, Len(line)) = Tail(line)
      BY <1>0, <1>b, FirstAndRest
    <2>3. ready' = <<Head(line)>> \o ready /\ queue'[q].inWait = Tail(line)
      <3>1. Wakes(q) + 1 = 2
        BY <2>1
      <3> QED
        BY <1>1, <1>2, <2>1, <2>2, <3>1, Zenon
    <2>4. /\ OnceInv' /\ ApartInv' /\ FreesInv' /\ AtInv' /\ RunInv' /\ GcInv' /\ IdsInv'
          /\ StackInv' /\ FlagInv' /\ ready' \in Seq(Ids) /\ Line(q)' \in Seq(Ids)
          /\ Head(line) \in ToSet(line) \ Rd /\ Rd' = Rd \cup {Head(line)}
          /\ ToSet(Line(q)') \subseteq ToSet(Line(q))
      BY <1>0, <1>1, <1>3, <1>4, <1>b, <2>3, FirstIsWoken
    <2>6. TypeOK'
      <3>1. queue'[q].inWait \in Seq(Ids)
        BY <1>4, <2>4
      <3>2. queue' \in [Queues -> [alive : BOOLEAN, inBox : Seq(Data), inWait : Seq(Ids)]]
        BY <1>1, <1>2, <3>1 DEF TypeOK
      <3> QED
        BY <1>1, <2>4, <3>2 DEF TypeOK, new, kernel, clock, garbage
    <2>7. MessagesInv'
      <3> SUFFICES ASSUME NEW p \in Queues, queue'[p].inWait # <<>>
                   PROVE  Len(queue'[p].inBox) <= Cardinality(Called(p)')
        BY DEF MessagesInv
      <3>1. Called(p) \subseteq Called(p)' /\ Called(p)' \subseteq Ids
        <4>1. Rd' \subseteq Ids
          BY <2>4, ElementsAre DEF Rd
        <4> QED
          BY <1>1, <2>4, <4>1 DEF Called
      <3>2. /\ Cardinality(Called(p)) \in Nat /\ Cardinality(Called(p)') \in Nat
            /\ Cardinality(Called(p)) <= Cardinality(Called(p)') /\ IsFiniteSet(Called(p))
        BY <3>1, NoFewer
      <3>3. CASE p = q
        <4>1. Len(box) <= Cardinality(Called(q))
          BY <1>b DEF WaitInv, line, box
        <4>2. mq[Head(line)] = q
          BY <2>4 DEF WaitInv, line
        <4>3. Called(q)' = Called(q) \cup {Head(line)} /\ Head(line) \notin Called(q)
          BY <1>1, <2>4, <4>2 DEF Called
        <4>4. Cardinality(Called(q)') = Cardinality(Called(q)) + 1
          BY <3>2, <3>3, <4>3, FS_AddElement
        <4> QED
          BY <1>2, <3>2, <3>3, <4>1, <4>4
      <3>4. CASE p # q
        <4>1. queue'[p] = queue[p] /\ queue[p].inBox \in Seq(Data)
          BY <1>2, <3>4 DEF TypeOK
        <4>2. Len(queue[p].inBox) <= Cardinality(Called(p)) /\ Len(queue[p].inBox) \in Nat
          BY <4>1 DEF WaitInv
        <4> QED
          BY <3>2, <4>1, <4>2
      <3> QED
        BY <3>3, <3>4
    <2>8. WaitInv'
      <3>1. ASSUME NEW p \in Queues, NEW t \in ToSet(queue'[p].inWait) PROVE mq'[t] = p
        <4>1. t \in ToSet(queue[p].inWait)
          BY <1>0, <1>2, <1>4, <2>4, <3>1 DEF line
        <4> QED
          BY <1>1, <4>1 DEF WaitInv
      <3>2. \A p \in Queues : ~queue'[p].alive => queue'[p].inWait = <<>>
        BY <1>1, <1>2 DEF WaitInv
      <3> QED
        BY <1>1, <2>7, <3>1, <3>2 DEF WaitInv, MessagesInv
    <2> QED
      BY <2>4, <2>6, <2>8
  <1> QED
    BY <1>a, <1>b

LEMMA ReturnStep ==
    ASSUME IInv, OrderedReturn
    PROVE  IInv'
  <1> USE DEF IInv
  <1>0. /\ InUser /\ mq[run] = NULL /\ UNCHANGED <<itEnabled, counter, lists, current, run, saved>>
        /\ UNCHANGED <<clock, objects, garbage>>
    BY DEF OrderedReturn, Return, Calls
  <1>1. /\ run = current /\ current \in Rd /\ current \in Ids /\ current \notin {Idle, Gc}
        /\ current \notin Sl \cup De \cup Doom \cup Wt
        /\ \A t \in Ids : pc[t] \notin {"switch", "restore", "gcpop"}
    BY <1>0, Caller
  <1>2. /\ pc' = [pc EXCEPT ![run] = "returned"] /\ pc = [u \in Ids |-> pc[u]]
        /\ toDelete' = [toDelete EXCEPT ![run] = TRUE] /\ toDelete = [u \in Ids |-> toDelete[u]]
    BY DEF OrderedReturn, Return, TypeOK
  <1>3. /\ Rd' = Rd /\ Sl' = Sl /\ De' = De /\ Wt' = Wt /\ OnceInv'
    BY <1>0, SameSets DEF objects
  <1>4. Doom' = Doom /\ Doom \subseteq Ids
    BY <1>0, <1>1, <1>2, IdsAre, DoomIs DEF Doom, garbage
  <1> USE DEF lists, clock, objects, garbage
  <1>5. TypeOK'
    <2>1. /\ toDelete' \in [Ids -> BOOLEAN]
          /\ pc' \in [Ids -> {"none", "user", "idle", "gc", "gcpop", "gcfree",
                              "switch", "restore", "freeing", "returned", "gone"}]
      BY <1>2 DEF TypeOK
    <2> QED
      BY <1>0, <2>1 DEF TypeOK
  <1>6. ApartInv'
    BY <1>0, <1>4, SameApart
  <1>7. /\ \A t \in Ids \ {run} : pc'[t] = pc[t] /\ toDelete'[t] = toDelete[t]
        /\ pc'[run] = "returned" /\ pc[run] = "user"
    BY <1>0, <1>1, <1>2 DEF InUser
  <1>8. FreesInv' /\ AtInv'
    BY <1>0, <1>1, <1>3, <1>4, <1>7, IdsAre, ListsAre DEF FreesInv, AtInv
  <1>9. RunInv' /\ GcInv'
    BY <1>0, <1>1, <1>3, <1>7, IdsAre DEF RunInv, GcInv
  <1>10. FlagInv' /\ IdsInv' /\ StackInv'
    BY <1>0, <1>1, <1>3, <1>7 DEF FlagInv, IdsInv, StackInv
  <1>11. WaitInv'
    BY <1>0, <1>3 DEF WaitInv, Called
  <1> QED
    BY <1>3, <1>5, <1>6, <1>8, <1>9, <1>10, <1>11

LEMMA KillStep ==
    ASSUME IInv, NEW t \in Ids, OrderedKill(t)
    PROVE  IInv'
  <1> USE DEF IInv
  <1>0. /\ InUser /\ mq[run] = NULL /\ mq[t] = NULL /\ t # run /\ t # Gc /\ itEnabled' = TRUE
        /\ UNCHANGED <<new, run, saved, sleeping, deletion, clock, objects, doomed>>
    BY DEF OrderedKill, killThreadById, Calls
  <1>1. /\ run = current /\ current \in Rd /\ current \in Ids
        /\ \A u \in Ids : pc[u] \notin {"switch", "restore", "gcpop"}
    BY <1>0, Caller
  <1>2. Sl' = Sl /\ De' = De /\ Wt' = Wt /\ \A x \in Objects : Line(x)' = Line(x)
    BY <1>0, LinesKept, ObjectsKept DEF Sl, De, objects
  <1>a. CASE UNCHANGED <<ready, current, frees, pc>>
    <2>1. UNCHANGED <<new, lists, kernel, garbage, mq>>
      BY <1>0, <1>a DEF lists, kernel, garbage, objects
    <2>2. /\ OnceInv' /\ ApartInv' /\ FreesInv' /\ AtInv' /\ RunInv' /\ GcInv' /\ IdsInv'
          /\ StackInv' /\ FlagInv' /\ Rd' = Rd
      BY <1>2, <2>1, NoThreadMoves
    <2>3. TypeOK'
      BY <1>0, <1>a DEF TypeOK, new, clock, objects
    <2>4. WaitInv'
      BY <1>0, <2>2 DEF WaitInv, Called, objects
    <2> QED
      BY <2>2, <2>3, <2>4
  <1>b. CASE /\ ~Protected(t) /\ Contains(ready, t)
             /\ ready' = WithoutIt(t) /\ current' = Successor(t)
             /\ frees' = [frees EXCEPT ![t] = @ + 1] /\ pc' = [pc EXCEPT ![t] = "gone"]
    <2>1. t \in Rd /\ t \notin {Idle, Gc} /\ t # current
      <3>1. t \in Rd
        BY SMTT(30), <1>b, ElementsAre DEF Contains, Rd, TypeOK
      <3> QED
        BY <1>0, <1>1, <1>b, <3>1 DEF Protected, Idle
    <2>2. /\ ready' \in Seq(Ids) /\ Once(ready') /\ Rd' = Rd \ {t} /\ current' = current
      BY <1>b, <2>1, Unlinks
    <2>3. /\ \A u \in Ids \ {t} : pc'[u] = pc[u] /\ frees'[u] = frees[u]
          /\ pc'[t] = "gone" /\ frees'[t] = frees[t] + 1
          /\ pc[t] \notin {"none", "gone", "switch", "restore"}
      BY <1>b, <2>1 DEF TypeOK, AtInv
    <2>4. t \notin Sl /\ t \notin De /\ t \notin Doom /\ t \notin Wt /\ frees[t] = 0
      BY <2>1 DEF ApartInv, FreesInv
    <2>5. Doom' = Doom /\ Doom \subseteq Ids
      BY <1>0, <2>1, <2>3, IdsAre, DoomIs DEF Doom
    <2>6. TypeOK'
      <3>1. /\ frees' \in [Ids -> Nat]
            /\ pc' \in [Ids -> {"none", "user", "idle", "gc", "gcpop", "gcfree",
                                "switch", "restore", "freeing", "returned", "gone"}]
        BY <1>b DEF TypeOK
      <3> QED
        BY <1>0, <2>2, <3>1 DEF TypeOK, new, clock, objects
    <2>7. OnceInv'
      BY <1>0, <1>2, <2>2 DEF OnceInv, Objects
    <2>8. ApartInv'
      BY <1>2, <2>2, <2>5 DEF ApartInv, LinesApart, Objects
    <2>9. FreesInv'
      BY <1>2, <2>1, <2>2, <2>3, <2>4, <2>5 DEF FreesInv
    <2>10. AtInv'
      BY <1>2, <2>1, <2>2, <2>3, <2>4, <2>5, IdsAre, ListsAre DEF AtInv
    <2>11. RunInv' /\ GcInv'
      BY <1>0, <1>1, <1>2, <2>1, <2>3, IdsAre DEF RunInv, GcInv
    <2>12. FlagInv' /\ IdsInv'
      BY <1>0, <2>3 DEF FlagInv, IdsInv, objects, new
    <2>13. StackInv'
      BY <1>0, <1>1, <2>1, <2>2, <2>3 DEF StackInv
    <2>14. WaitInv'
      <3>1. \A q \in Queues : Called(q)' = Called(q)
        BY <1>0, <2>2, Ordo2Assumption DEF Called, objects
      <3> QED
        BY <1>0, <3>1 DEF WaitInv, objects
    <2> QED
      BY <2>6, <2>7, <2>8, <2>9, <2>10, <2>11, <2>12, <2>13, <2>14
  <1> QED
    BY <1>a, <1>b DEF OrderedKill, killThreadById

LEMMA yieldStep ==
    ASSUME IInv, OrderedTimer
    PROVE  IInv'
  <1> USE DEF IInv
  <1> DEFINE due == SubSeq(sleeping, 1, Due)
             rest == SubSeq(sleeping, Due + 1, Len(sleeping))
             awake == Reverse(due) \o ready
             to == NextOf(awake, current)
             D == ToSet(due)
  <1>0. /\ pc[run] \notin {"switch", "restore", "gcpop"} /\ run \in Ids /\ run = current
        /\ current \in Rd /\ Idle \in Rd /\ Gc \in Rd /\ Idle # Gc
        /\ UNCHANGED <<itEnabled, new, clock, objects, garbage>>
    BY IdsAre DEF OrderedTimer, Timer, yield, TypeOK, StackInv, AtInv
  <1>1. /\ sleeping' = rest /\ current' = to
        /\ \/ /\ toDelete[current] /\ ~Protected(current) /\ ready' = RemoveFirst(awake, current)
              /\ deletion' = <<current>> \o deletion
              /\ Restored(to) /\ pc' = [pc EXCEPT ![run] = "gone"]
           \/ /\ ready' = awake /\ Switched(current, to) /\ UNCHANGED <<deletion, pc>>
    BY DEF OrderedTimer, Timer, yield, Turn, Pushed
  <1>2. /\ due \in Seq(Ids) /\ rest \in Seq(Ids) /\ Once(due) /\ Once(rest)
        /\ Sl = D \cup ToSet(rest) /\ D \cap ToSet(rest) = {}
    <2>1. Due \in 0..Len(sleeping)
      BY DueIsAPlace
    <2> QED
      BY <2>1, ListCut DEF Sl, OnceInv, TypeOK
  <1> HIDE DEF due, rest
  <1>3. /\ awake \in Seq(Ids) /\ Once(awake) /\ ToSet(awake) = D \cup Rd
    <2>1. /\ Reverse(due) \in Seq(Ids) /\ Once(Reverse(due)) /\ ToSet(Reverse(due)) = D
      BY <1>2, Reversed
    <2>2. D \cap Rd = {} /\ ready \in Seq(Ids) /\ Once(ready)
      BY <1>2 DEF ApartInv, OnceInv, TypeOK
    <2> QED
      BY <2>1, <2>2, ListsJoined DEF Rd
  <1> HIDE DEF awake, D
  <1>4. to \in (D \cup Rd) \ {current} /\ to \in Ids
    <2>1. \E u \in ToSet(awake) : u # current
      BY <1>0, <1>3
    <2>2. to \in ToSet(awake) \ {current}
      BY <1>0, <1>3, <2>1, NextIsAnother
    <2> QED
      BY <1>2, <1>3, <2>2, ListsAre
  <1> HIDE DEF to
  <1>5. /\ pc[to] \notin {"none", "gone", "switch", "restore"} /\ saved[to] = to
    <2>1. pc[to] \notin {"none", "gone", "switch", "restore"}
      <3>1. CASE to \in Rd
        BY <3>1 DEF AtInv
      <3>2. CASE to \in Sl
        BY <1>0, <1>4, <3>2 DEF AtInv, RunInv
      <3> QED
        BY <1>2, <1>4, <3>1, <3>2
    <2> QED
      BY <1>0, <1>4, <2>1 DEF StackInv
  <1>6. /\ Sl' = Sl \ D /\ sleeping' \in Seq(Ids) /\ Once(sleeping') /\ D \subseteq Sl
    BY <1>1, <1>2 DEF Sl
  <1>7. Wt' = Wt /\ \A x \in Objects : Line(x)' = Line(x)
    BY <1>0, LinesKept, ObjectsKept DEF objects
  <1>8. /\ \A t \in Sl \cup Wt : pc[t] = "user" /\ t # current
        /\ \A t \in De : pc[t] = "gone"
        /\ D \cap Rd = {} /\ D \cap De = {} /\ D \cap Doom = {} /\ D \cap Wt = {}
    <2>1. \A t \in Ids : pc[t] \notin {"switch", "restore"}
      BY <1>0 DEF RunInv
    <2>2. Sl \cap Rd = {} /\ Wt \cap Rd = {}
      BY DEF ApartInv
    <2>3. D \cap Rd = {} /\ D \cap De = {} /\ D \cap Doom = {} /\ D \cap Wt = {}
      BY <1>6 DEF ApartInv
    <2> QED
      BY <1>0, <2>1, <2>2, <2>3, ListsAre DEF AtInv
  <1>a. CASE /\ toDelete[current] /\ ~Protected(current) /\ ready' = RemoveFirst(awake, current)
             /\ deletion' = <<current>> \o deletion
             /\ Restored(to) /\ pc' = [pc EXCEPT ![run] = "gone"]
    <2>1. /\ run' = to /\ saved' = [saved EXCEPT ![to] = NULL]
      BY <1>5, <1>a DEF Restored
    <2>2. /\ \A t \in Ids \ {current} : pc'[t] = pc[t]
          /\ pc'[current] = "gone" /\ pc[current] = "returned"
          /\ current \notin {Idle, Gc} /\ mq[current] = NULL
      <3>1. pc[current] = "returned"
        BY <1>0, <1>a DEF FlagInv, RunInv
      <3> QED
        BY <1>0, <1>a, <3>1 DEF TypeOK, FlagInv, AtInv
    <2>3. /\ ready' \in Seq(Ids) /\ Once(ready') /\ Rd' = (D \cup Rd) \ {current}
      BY <1>3, <1>a, ElementUnlinked DEF Rd
    <2>4. /\ current \notin Sl /\ current \notin De /\ current \notin Doom /\ current \notin Wt
          /\ frees[current] = 0
      BY <1>0 DEF ApartInv, FreesInv
    <2>5. deletion' \in Seq(Ids) /\ Once(deletion') /\ De' = De \cup {current}
      BY <1>0, <1>a, <2>4, PutInFront DEF De, OnceInv, TypeOK
    <2>6. Doom' = Doom /\ Doom \subseteq Ids
      BY <1>0, <2>2, IdsAre, DoomIs DEF Doom, garbage
    <2>7. TypeOK'
      <3>1. /\ saved' \in [Ids -> Ids \cup {NULL}]
            /\ pc' \in [Ids -> {"none", "user", "idle", "gc", "gcpop", "gcfree",
                                "switch", "restore", "freeing", "returned", "gone"}]
        BY <1>a, <2>1 DEF TypeOK
      <3> QED
        BY <1>0, <1>1, <1>4, <1>6, <2>1, <2>3, <2>5, <3>1
           DEF TypeOK, new, clock, objects, garbage
    <2>8. OnceInv'
      BY <1>6, <1>7, <2>3, <2>5 DEF OnceInv, Objects
    <2>9. ApartInv'
      BY <1>6, <1>7, <1>8, <2>3, <2>4, <2>5, <2>6 DEF ApartInv, LinesApart, Objects
    <2>10. FreesInv'
      BY <1>0, <1>6, <1>7, <2>2, <2>3, <2>4, <2>5, <2>6 DEF FreesInv, garbage
    <2>11. AtInv'
      BY <1>0, <1>6, <1>7, <1>8, <2>2, <2>3, <2>4, <2>5, <2>6, ListsAre DEF AtInv
    <2>12. RunInv' /\ GcInv'
      <3>1. \A t \in Ids : pc'[t] \notin {"switch", "restore", "gcpop"}
        BY <1>0, <2>2, IdsAre DEF RunInv, GcInv
      <3> QED
        BY <1>0, <1>4, <1>5, <2>1, <2>2, <3>1, IdsAre DEF RunInv, GcInv, garbage
    <2>13. FlagInv' /\ IdsInv'
      BY <1>0, <2>2 DEF FlagInv, IdsInv, objects, new
    <2>14. StackInv'
      <3>1. current' \in Rd' /\ run' = current'
        BY <1>1, <1>4, <2>1, <2>3
      <3>2. \A t \in Ids \ {to} : saved'[t] = saved[t]
        BY <2>1 DEF TypeOK
      <3> QED
        BY <1>0, <2>1, <2>2, <3>1, <3>2 DEF StackInv
    <2>15. WaitInv'
      <3>1. \A q \in Queues : Called(q) \subseteq Called(q)'
        BY <1>0, <2>2, <2>3, Ordo2Assumption DEF Called, objects
      <3>2. Rd' \subseteq Ids
        BY <2>3, ElementsAre DEF Rd
      <3>3. MessagesInv'
        BY <1>0, <3>1, <3>2, MessagesKept DEF objects
      <3> QED
        BY <1>0, <3>3 DEF WaitInv, MessagesInv, objects
    <2> QED
      BY <2>7, <2>8, <2>9, <2>10, <2>11, <2>12, <2>13, <2>14, <2>15
  <1>b. CASE ready' = awake /\ Switched(current, to) /\ UNCHANGED <<deletion, pc>>
    <2>1. run' = to /\ saved' = [saved EXCEPT ![current] = current, ![to] = NULL]
      BY <1>0, <1>4, <1>5, <1>b DEF Switched, TypeOK
    <2>2. ready' \in Seq(Ids) /\ Once(ready') /\ Rd' = D \cup Rd /\ De' = De
      BY <1>3, <1>b DEF Rd, De
    <2>3. Doom' = Doom /\ Doom \subseteq Ids /\ deletion \in Seq(Ids)
      BY <1>0, <1>b, DoomIs DEF Doom, garbage, TypeOK
    <2>4. TypeOK'
      <3>1. saved' \in [Ids -> Ids \cup {NULL}]
        BY <1>0, <2>1 DEF TypeOK
      <3> QED
        BY <1>0, <1>1, <1>4, <1>6, <1>b, <2>1, <2>2, <3>1
           DEF TypeOK, new, clock, objects, garbage
    <2>5. OnceInv'
      BY <1>6, <1>7, <1>b, <2>2 DEF OnceInv, Objects
    <2>6. ApartInv'
      BY <1>6, <1>7, <1>8, <2>2, <2>3 DEF ApartInv, LinesApart, Objects
    <2>7. FreesInv'
      BY <1>0, <1>6, <1>7, <1>b, <2>2, <2>3 DEF FreesInv, garbage
    <2>8. AtInv'
      BY <1>0, <1>6, <1>7, <1>8, <1>b, <2>2, <2>3, ListsAre DEF AtInv
    <2>9. RunInv' /\ GcInv'
      <3>1. \A t \in Ids : pc[t] \notin {"switch", "restore", "gcpop"}
        BY <1>0, IdsAre DEF RunInv, GcInv
      <3> QED
        BY <1>0, <1>4, <1>5, <1>b, <2>1, <3>1, IdsAre DEF RunInv, GcInv, garbage
    <2>10. FlagInv' /\ IdsInv'
      BY <1>0, <1>b DEF FlagInv, IdsInv, objects, new
    <2>11. StackInv'
      <3>1. current' \in Rd' /\ run' = current'
        BY <1>1, <1>4, <2>1, <2>2
      <3>2. \A t \in Ids \ {to} : saved'[t] = IF t = current THEN current ELSE saved[t]
        BY <1>0, <2>1 DEF TypeOK
      <3> QED
        BY <1>0, <1>b, <2>1, <3>1, <3>2 DEF StackInv
    <2>12. WaitInv'
      <3>1. \A q \in Queues : Called(q) \subseteq Called(q)'
        BY <1>0, <2>2 DEF Called, objects
      <3>2. Rd' \subseteq Ids
        BY <2>2, ElementsAre DEF Rd
      <3>3. MessagesInv'
        BY <1>0, <3>1, <3>2, MessagesKept DEF objects
      <3> QED
        BY <1>0, <3>3 DEF WaitInv, MessagesInv, objects
    <2> QED
      BY <2>4, <2>5, <2>6, <2>7, <2>8, <2>9, <2>10, <2>11, <2>12
  <1> QED
    BY <1>1, <1>a, <1>b

LEMMA StepIInv == IInv /\ FreeingInv /\ [OrderedNext]_vars => IInv'
  <1> SUFFICES ASSUME IInv, FreeingInv, [OrderedNext]_vars PROVE IInv'
    OBVIOUS
  <1>1. CASE Tick
    BY <1>1, TickStep
  <1>2. CASE Switch
    BY <1>2, SwitchStep
  <1>3. CASE Restore
    BY <1>3, RestoreStep
  <1>4. CASE gc
    BY <1>4, GcTakeStep, GcPopStep, GcFreeStep DEF gc
  <1>5. CASE createGThread
    BY <1>5, createGThreadStep
  <1>6. CASE exitCurrentThread
    BY <1>6, exitCurrentThreadStep
  <1>7. CASE \E d \in Durations : gSleep(d)
    BY <1>7, gSleepStep
  <1>8. CASE \E s \in Sems : SemCalls(s)
    BY <1>8, newSemaphoreStep, deleteSemaphoreStep, semTakeStep, semGiveStep DEF SemCalls
  <1>9. CASE \E q \in Queues : QueueCalls(q)
    BY <1>9, newMessageQueueStep, receiveMessageStep, SendNothingStep, sendMessageStep
       DEF QueueCalls
  <1>10. CASE OrderedTimer
    BY <1>10, yieldStep
  <1>11. CASE OrderedReturn
    BY <1>11, ReturnStep
  <1>12. CASE \E t \in Ids : OrderedKill(t)
    BY <1>12, KillStep
  <1>13. CASE FreeSemaphore
    BY <1>13, FreeSemaphoreStep
  <1>14. CASE UNCHANGED vars
    <2> USE DEF IInv, vars
    <2>1. /\ OnceInv' /\ ApartInv' /\ FreesInv' /\ AtInv' /\ RunInv' /\ GcInv' /\ IdsInv'
          /\ StackInv' /\ FlagInv' /\ Rd' = Rd
      BY <1>14, NoThreadMoves, ObjectsKept DEF new, lists, kernel, garbage
    <2>2. TypeOK' /\ WaitInv'
      BY <1>14, <2>1 DEF TypeOK, WaitInv, Called
    <2> QED
      BY <2>1, <2>2
  <1> QED
    BY <1>1, <1>2, <1>3, <1>4, <1>5, <1>6, <1>7, <1>8, <1>9, <1>10, <1>11, <1>12, <1>13, <1>14
       DEF OrderedNext, Common

\* Nothing happens between the test and the free() of a semaphore, but that time
\* goes by.
LEMMA StepFreeing == IInv /\ FreeingInv /\ [OrderedNext]_vars => FreeingInv'
  <1> SUFFICES ASSUME IInv, FreeingInv, [OrderedNext]_vars PROVE FreeingInv'
    OBVIOUS
  <1>0. run \in Ids /\ pc = [t \in Ids |-> pc[t]]
    BY DEF IInv, TypeOK
  <1>1. CASE Tick \/ UNCHANGED vars
    BY <1>1 DEF Tick, vars, kernel, objects, FreeingInv
  <1>2. CASE FreeSemaphore
    <2>1. pc' = [pc EXCEPT ![run] = "user"] /\ run' = run
      BY <1>2 DEF FreeSemaphore
    <2> QED
      BY <1>0, <2>1 DEF FreeingInv
  <1>3. ASSUME NEW s \in Sems, deleteSemaphore(s) PROVE FreeingInv'
    <2>1. /\ pc[run] = "user" /\ pc' = [pc EXCEPT ![run] = "freeing"] /\ run' = run
          /\ mq' = [mq EXCEPT ![run] = s] /\ sem[s].inWait = <<>> /\ sem' = sem
      BY <1>3 DEF deleteSemaphore, Calls, InUser
    <2>2. mq'[run] = s
      BY <1>0, <2>1 DEF IInv, TypeOK
    <2>3. \A t \in Ids : pc'[t] = "freeing" => t = run
      BY <1>0, <2>1 DEF FreeingInv
    <2> QED
      BY <2>1, <2>2, <2>3 DEF FreeingInv
  <1>4. ASSUME pc[run] # "freeing",
               \/ pc' = pc
               \/ \E t \in Ids, l \in {"user", "gone", "switch", "restore", "returned", "gc",
                                       "gcpop", "gcfree"} : pc' = [pc EXCEPT ![t] = l]
        PROVE  FreeingInv'
    <2>1. \A t \in Ids : pc[t] # "freeing"
      BY <1>4 DEF FreeingInv
    <2>2. \A t \in Ids : pc'[t] # "freeing"
      BY <1>0, <1>4, <2>1
    <2> QED
      BY <2>2 DEF FreeingInv
  <1>5. CASE Switch \/ Restore \/ gc
    BY <1>0, <1>4, <1>5, IdsAre DEF Switch, Restore, gc, GcTake, GcPop, GcFree
  <1>6. CASE createGThread \/ exitCurrentThread \/ \E d \in Durations : gSleep(d)
    BY <1>0, <1>4, <1>6 DEF createGThread, exitCurrentThread, gSleep, Calls, InUser, Leaves
  <1>7. ASSUME NEW s \in Sems, (\E i \in 0..1 : newSemaphore(s, i)) \/ semTake(s) \/ semGive(s)
        PROVE  FreeingInv'
    BY <1>0, <1>4, <1>7 DEF newSemaphore, semTake, semGive, Calls, InUser, Leaves, kernel
  <1>8. ASSUME NEW q \in Queues, QueueCalls(q) PROVE FreeingInv'
    BY <1>0, <1>4, <1>8
       DEF QueueCalls, newMessageQueue, receiveMessage, SendNothing, sendMessage, Calls, InUser,
           Leaves, kernel
  <1>9. CASE OrderedTimer
    BY <1>0, <1>4, <1>9 DEF OrderedTimer, Timer, yield
  <1>10. CASE OrderedReturn \/ \E t \in Ids : OrderedKill(t)
    BY <1>0, <1>4, <1>10 DEF OrderedReturn, Return, OrderedKill, killThreadById, Calls, InUser
  <1> QED
    BY <1>1, <1>2, <1>3, <1>5, <1>6, <1>7, <1>8, <1>9, <1>10 DEF OrderedNext, Common, SemCalls

LEMMA Inductive == OrderedSpec => []IInv
  <1>1. Init => FreeingInv
    BY DEF Init, FreeingInv
  <1> QED
    BY <1>1, InitIInv, StepIInv, StepFreeing, PTL DEF OrderedSpec

-----------------------------------------------------------------------------
(* The theorems.                                                            *)

\* The kernel's variables keep their types: no list is walked past its end.
THEOREM TypesKept == OrderedSpec => []TypeOK
  BY Inductive, PTL DEF IInv

LEMMA TimesIs ==
    ASSUME NEW T, NEW list \in Seq(T), Once(list), NEW t
    PROVE  /\ Times(list, t) = IF t \in ToSet(list) THEN 1 ELSE 0
           /\ Contains(list, t) <=> t \in ToSet(list)
  <1> DEFINE I == {i \in DOMAIN list : list[i] = t}
  <1>1. CASE t \in ToSet(list)
    <2>1. PICK i \in 1..Len(list) : list[i] = t
      BY <1>1, ElementsAre
    <2>2. I = {i}
      BY <2>1 DEF Once
    <2>3. Cardinality(I) = 1
      BY <2>2, FS_Singleton
    <2> QED
      BY <1>1, <2>1, <2>3 DEF Times, Contains
  <1>2. CASE t \notin ToSet(list)
    <2>1. \A i \in 1..Len(list) : list[i] # t
      BY <1>2, ElementsAre
    <2>2. I = {}
      BY <2>1
    <2>3. Cardinality(I) = 0
      BY <2>2, FS_EmptySet
    <2> QED
      BY <1>2, <2>1, <2>3 DEF Times, Contains
  <1> QED
    BY <1>1, <1>2

\* A thread that was created is in one list, once, or freed, once: the next
\* pointer of its block, that all lists share, is never in two chains. OrderedSpec
\* keeps the timer out of deleteSemaphore (scheduler.c:395-399), where a thread
\* that waits for what is freed would be lost.
THEOREM EveryThreadHasOnePlace == OrderedSpec => []OnePlace
  <1>1. IInv => OnePlace
    <2> SUFFICES ASSUME IInv, NEW t \in Ids
                 PROVE  Places(t) + frees[t] = IF pc[t] = "none" THEN 0 ELSE 1
      BY DEF OnePlace
    <2> USE DEF IInv
    <2> DEFINE Ss == {s \in Sems : Contains(sem[s].inWait, t)}
               Qs == {q \in Queues : Contains(queue[q].inWait, t)}
               at(S) == IF t \in S THEN 1 ELSE 0
    <2>1. Times(ready, t) = at(Rd) /\ Times(sleeping, t) = at(Sl) /\ Times(deletion, t) = at(De)
      BY TimesIs DEF TypeOK, OnceInv, Rd, Sl, De
    <2>2. /\ \A s \in Sems : Contains(sem[s].inWait, t) <=> t \in ToSet(Line(s))
          /\ \A q \in Queues : Contains(queue[q].inWait, t) <=> t \in ToSet(Line(q))
          /\ Sems \subseteq Objects /\ Queues \subseteq Objects
      <3>1. /\ \A s \in Sems : s \in Objects /\ Line(s) = sem[s].inWait
            /\ \A q \in Queues : q \in Objects /\ Line(q) = queue[q].inWait
        BY Ordo2Assumption DEF Objects, Line
      <3>2. \A x \in Objects : Contains(Line(x), t) <=> t \in ToSet(Line(x))
        BY ListsAre, TimesIs DEF OnceInv
      <3> QED
        BY <3>1, <3>2
    <2>3. \A x, y \in Objects : t \in ToSet(Line(x)) /\ t \in ToSet(Line(y)) => x = y
      BY DEF ApartInv, LinesApart
    <2>4. Cardinality(Ss) = (IF Ss = {} THEN 0 ELSE 1) /\ Cardinality(Qs) = (IF Qs = {} THEN 0 ELSE 1)
      <3>1. \A x, y \in Ss : x = y
        BY <2>2, <2>3
      <3>2. \A x, y \in Qs : x = y
        BY <2>2, <2>3
      <3> QED
        BY <3>1, <3>2, AtMostOne
    <2>5. Cardinality(Ss) + Cardinality(Qs) = at(Wt)
      <3>1. t \in Wt <=> \E x \in Objects : t \in ToSet(Line(x))
        BY DEF Wt
      <3>2. Ss # {} => t \in Wt
        BY <2>2, <3>1
      <3>3. Qs # {} => t \in Wt
        BY <2>2, <3>1
      <3>4. t \in Wt => Ss # {} \/ Qs # {}
        BY <2>2, <3>1 DEF Objects
      <3>5. ~(Ss # {} /\ Qs # {})
        BY <2>2, <2>3, Ordo2Assumption
      <3> QED
        BY <2>4, <3>2, <3>3, <3>4, <3>5
    <2>6. (IF pc[Gc] = "gcfree" /\ doomed = t THEN 1 ELSE 0) = at(Doom)
      BY DEF Doom
    <2>7. Places(t) = at(Rd) + at(Sl) + at(De) + Cardinality(Ss) + Cardinality(Qs) + at(Doom)
      BY <2>1, <2>6 DEF Places
    <2> HIDE DEF Ss, Qs
    <2>8. Places(t) = at(Rd) + at(Sl) + at(De) + at(Wt) + at(Doom)
      <3>1. Cardinality(Ss) \in Nat /\ Cardinality(Qs) \in Nat
        BY <2>4
      <3> QED
        BY <2>5, <2>7, <3>1
    <2>9. t \in Rd \cup Sl \cup De \cup Doom \cup Wt => at(Rd) + at(Sl) + at(De) + at(Wt) + at(Doom) = 1
      BY DEF ApartInv
    <2> QED
      BY <2>8, <2>9 DEF FreesInv
  <1> QED
    BY <1>1, Inductive, PTL

\* The processor is on the stack of the current thread, which is activable,
\* except before a switch; contexts bring their own stacks back, and the
\* stack in use was not freed.
THEOREM ProcessorOnItsStack == OrderedSpec => []OwnStack
  <1>1. IInv => OwnStack
    <2> SUFFICES ASSUME IInv PROVE OwnStack
      OBVIOUS
    <2> USE DEF IInv
    <2>1. Contains(ready, current)
      BY TimesIs DEF StackInv, TypeOK, OnceInv, Rd
    <2>2. run \in Rd \cup Sl \cup De \cup Doom \cup Wt /\ run \in Ids
      BY DEF StackInv, RunInv, TypeOK
    <2>3. frees[run] = 0
      BY <2>2 DEF FreesInv
    <2> QED
      BY <2>1, <2>3 DEF OwnStack, StackInv
  <1> QED
    BY <1>1, Inductive, PTL

\* Nobody waits for a semaphore that has a coin; the messages of a queue that
\* threads still wait for are spoken for by receivers that were woken.
THEOREM NoWakeUpIsLost == OrderedSpec => []NoLostWakeUp
  <1>1. IInv => NoLostWakeUp
    <2> SUFFICES ASSUME IInv PROVE NoLostWakeUp
      OBVIOUS
    <2> USE DEF IInv
    <2>1. \A t : Contains(ready, t) <=> t \in Rd
      BY TimesIs DEF TypeOK, OnceInv, Rd
    <2>2. \A q \in Queues : {t \in Ids : mq[t] = q /\ Contains(ready, t)} = Called(q)
      BY <2>1, ListsAre DEF Called
    <2> QED
      BY <2>2 DEF NoLostWakeUp, WaitInv
  <1> QED
    BY <1>1, Inductive, PTL
==============================================================================
