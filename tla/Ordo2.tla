-------------------------------- MODULE Ordo2 --------------------------------
(***************************************************************************)
(* Kernel 2.0 (kernel/ordo2.0): threads on one processor, preempted by a   *)
(* timer signal that does nothing while itEnabled is FALSE.  A call runs   *)
(* with the timer off up to its enableInterrupt(), which the blocking ones *)
(* make before they switch contexts: the window between the two, and the   *)
(* steps of gc() and of deleteSemaphore(), which never turn the timer off, *)
(* are actions of their own.  The handler, yield(), is one action: the     *)
(* next strike is 80 ms away.                                              *)
(*                                                                         *)
(* Threads are named by their ids, stacks by the thread they were created  *)
(* for.  saved[t] is the stack that restoring t's context brings back      *)
(* (NULL: the context is out of date), run the stack the processor is on.  *)
(* The lists that are chained through next are sequences.                  *)
(***************************************************************************)
EXTENDS Integers, SequencesExt

CONSTANTS
    MaxId,       \* bound on the ids that createGThread hands out
    Sems,        \* semaphores
    Queues,      \* message queues
    Data,        \* what messages carry
    Durations,   \* the arguments of gSleep()
    MaxTime,     \* bound on the clock
    MaxCoins,    \* bound on the coins of a semaphore
    MaxMessages, \* bound on the messages of a queue
    NULL

ASSUME Ordo2Assumption ==
    /\ MaxId \in Nat /\ MaxId >= 5 /\ MaxTime \in Nat /\ MaxCoins \in Nat \ {0}
    /\ MaxMessages \in Nat
    /\ Durations \subseteq Nat /\ NULL \notin Nat \cup Queues /\ Sems \cap Queues = {}

\* The ids initGThreadingSystem gives: the counter moves twice for a thread.
Main == 0
Idle == 2
Gc == 4
Ids == {Main, Idle, Gc} \cup {i \in 5..MaxId : i % 2 = 1}

VARIABLES
    itEnabled,    \* the timer may switch threads
    counter,      \* the thread id counter
    ready,        \* the activable threads, from firstThread on
    current, run, \* currentThread; the stack the processor is on
    saved,        \* the stack each context brings back
    sleeping,     \* threadInWaitingState
    timeToWait, now, \* the wake-up times; the clock
    deletion,     \* threadForDeletion
    toDelete,     \* the flag of each context: its function has returned
    sem, queue,   \* the semaphores and the message queues
    pc,           \* where each stack is
    mq,           \* the queue a stack is receiving from, the semaphore it is to free
    doomed,       \* gc()'s local toDeletion
    frees         \* how often the stack of each thread has been freed

vars == <<itEnabled, counter, ready, current, run, saved, sleeping, timeToWait, now,
          deletion, toDelete, sem, queue, pc, mq, doomed, frees>>
kernel == <<current, run, saved, pc>>
lists == <<ready, sleeping, deletion>>
clock == <<timeToWait, now>>
garbage == <<doomed, frees>>
new == <<counter, toDelete>>
objects == <<sem, queue, mq>>

-----------------------------------------------------------------------------
(* The list of the activable threads.                                       *)

Index(list, t) == SelectInSeq(list, LAMBDA x : x = t)

\* currentThread->next, or the first thread at the end of the list.
NextOf(list, t) ==
    IF Index(list, t) = Len(list) THEN list[1] ELSE list[Index(list, t) + 1]

\* Mutant: the pointer to a thread that leaves the list is kept.
SuccessorStale(t) == current
\* removeGThreadFromActivable(t): who is currentThread when t has gone.
Successor(t) == IF t = current THEN NextOf(ready, t) ELSE current

\* Mutant: the thread stays in the list.
StillThere(t) == ready
WithoutIt(t) == RemoveFirst(ready, t)

\* t->next = list; list = t
Pushed(list, t) == <<t>> \o list

-----------------------------------------------------------------------------
(* initGThreadingSystem, up to the end of the first createGThread.          *)

NoObject == [alive |-> FALSE, counter |-> 0, inWait |-> <<>>]
NoQueue == [alive |-> FALSE, inBox |-> <<>>, inWait |-> <<>>]

Init ==
    /\ itEnabled = TRUE /\ counter = 6
    /\ ready = <<5, Gc, Idle, Main>> /\ current = Main /\ run = Main
    /\ saved = [t \in Ids |-> IF t \in {5, Gc, Idle} THEN t ELSE NULL]
    /\ sleeping = <<>> /\ timeToWait = [t \in Ids |-> 0] /\ now = 0
    /\ deletion = <<>> /\ toDelete = [t \in Ids |-> FALSE]
    /\ sem = [s \in Sems |-> NoObject] /\ queue = [q \in Queues |-> NoQueue]
    /\ pc = [t \in Ids |-> IF t \in {5, Main} THEN "user"
                           ELSE IF t = Idle THEN "idle"
                           ELSE IF t = Gc THEN "gc" ELSE "none"]
    /\ mq = [t \in Ids |-> NULL]
    /\ doomed = NULL /\ frees = [t \in Ids |-> 0]

-----------------------------------------------------------------------------
(* Switches of contexts.                                                    *)

\* Mutant: the running stack is not saved.
SwitchedUnsaved(from, to) == run' = saved[to] /\ saved' = [saved EXCEPT ![to] = NULL]
\* mctx_switch of the context of `from` to that of `to`.
Switched(from, to) ==
    LET s == [saved EXCEPT ![from] = run]
    IN  run' = s[to] /\ saved' = [s EXCEPT ![to] = NULL]
\* mctx_restore: the running stack is not kept.
Restored(to) == run' = saved[to] /\ saved' = [saved EXCEPT ![to] = NULL]

\* The end of a blocking call, or of exitCurrentThread: the timer is on,
\* another thread is currentThread, and the switch is still to come.
Leaves(t, l) ==
    /\ current' = Successor(t)
    /\ itEnabled' = TRUE
    /\ pc' = [pc EXCEPT ![run] = l]
    /\ UNCHANGED <<run, saved>>

Switch ==
    /\ pc[run] = "switch"
    /\ Switched(run, current)
    /\ pc' = [pc EXCEPT ![run] = "user"]
    /\ UNCHANGED <<itEnabled, new, lists, clock, current, objects, garbage>>

Restore ==
    /\ pc[run] = "restore"
    /\ Restored(current)
    /\ pc' = [pc EXCEPT ![run] = "gone"]
    /\ UNCHANGED <<itEnabled, new, lists, clock, current, objects, garbage>>

-----------------------------------------------------------------------------
(* yield(), the handler of the timer.                                       *)

\* Mutant: sleepers wake up too late.
DueLate ==
    CHOOSE k \in 0..Len(sleeping) :
        /\ \A i \in 1..k : timeToWait[sleeping[i]] < now
        /\ k < Len(sleeping) => timeToWait[sleeping[k + 1]] >= now
\* How many sleepers at the head of the list have had their time.
Due ==
    CHOOSE k \in 0..Len(sleeping) :
        /\ \A i \in 1..k : timeToWait[sleeping[i]] <= now
        /\ k < Len(sleeping) => timeToWait[sleeping[k + 1]] > now

\* The first three threads do not exit: ids 0, 1 and 2.
Protected(t) == t \in 0..2

\* Mutant: the turn goes to the head of the list.
FirstTurn(list) == IF list[1] = current THEN list[2] ELSE list[1]
\* Whose turn is next.
Turn(list) == NextOf(list, current)

\* Each thread that is woken is put before the first one; then the current
\* thread exits, if its function has returned, or keeps its place.
yield ==
    LET awake == Reverse(SubSeq(sleeping, 1, Due)) \o ready
        to == Turn(awake)
    IN  /\ sleeping' = SubSeq(sleeping, Due + 1, Len(sleeping))
        /\ current' = to
        /\ \/ /\ toDelete[current] /\ ~Protected(current)
              /\ ready' = RemoveFirst(awake, current)
              /\ deletion' = Pushed(deletion, current)
              /\ Restored(to)
              /\ pc' = [pc EXCEPT ![run] = "gone"]
           \/ /\ ~toDelete[current] \/ Protected(current)
              /\ ready' = awake
              /\ Switched(current, to)
              /\ UNCHANGED <<deletion, pc>>
        /\ UNCHANGED <<itEnabled, new, clock, objects, garbage>>

Timer == itEnabled /\ yield

Tick ==
    /\ now < MaxTime /\ now' = now + 1
    /\ UNCHANGED <<itEnabled, new, lists, kernel, timeToWait, objects, garbage>>

-----------------------------------------------------------------------------
(* Threads.                                                                 *)

InUser == pc[run] = "user"
\* A user thread that is not in the middle of receiveMessage.
Calls == InUser /\ mq[run] = NULL

createGThread ==
    LET t == counter + 1 IN
    /\ Calls /\ t \in Ids
    /\ counter' = counter + 2
    /\ ready' = Pushed(ready, t)
    /\ saved' = [saved EXCEPT ![t] = t]
    /\ pc' = [pc EXCEPT ![t] = "user"]
    /\ itEnabled' = TRUE
    /\ UNCHANGED <<toDelete, current, run, sleeping, deletion, clock, objects, garbage>>

\* Only activable threads are found; the block and the stack are freed at once.
killThreadById(id) ==
    /\ Calls
    /\ itEnabled' = TRUE
    /\ \/ /\ ~Protected(id) /\ Contains(ready, id)
          /\ ready' = WithoutIt(id)
          /\ current' = Successor(id)
          /\ frees' = [frees EXCEPT ![id] = @ + 1]
          /\ pc' = [pc EXCEPT ![id] = "gone"]
       \/ /\ Protected(id) \/ ~Contains(ready, id)
          /\ UNCHANGED <<ready, current, frees, pc>>
    /\ UNCHANGED <<new, run, saved, sleeping, deletion, clock, objects, doomed>>

\* How many sleepers a new one is put behind: those that wake up before t.
SleepsBefore(t) ==
    CHOOSE k \in 0..Len(sleeping) :
        /\ \A i \in 1..k : timeToWait[sleeping[i]] < t
        /\ k < Len(sleeping) => timeToWait[sleeping[k + 1]] >= t

gSleep(seconds) ==
    LET t == now + seconds IN
    /\ Calls /\ t <= MaxTime
    /\ timeToWait' = [timeToWait EXCEPT ![current] = t]
    /\ sleeping' = InsertAt(sleeping, SleepsBefore(t) + 1, current)
    /\ ready' = WithoutIt(current)
    /\ Leaves(current, "switch")
    /\ UNCHANGED <<new, deletion, now, objects, garbage>>

exitCurrentThread ==
    /\ Calls /\ ~Protected(current)
    /\ ready' = WithoutIt(current)
    /\ deletion' = Pushed(deletion, current)
    /\ Leaves(current, "restore")
    /\ UNCHANGED <<new, sleeping, clock, objects, garbage>>

\* The function of a thread returns into mctx_creat_boot.
Return ==
    /\ Calls /\ run # Main
    /\ toDelete' = [toDelete EXCEPT ![run] = TRUE]
    /\ pc' = [pc EXCEPT ![run] = "returned"]
    /\ UNCHANGED <<itEnabled, counter, lists, current, run, saved, clock, objects, garbage>>

-----------------------------------------------------------------------------
(* gc(), with the timer on.                                                 *)

GcTake ==
    /\ pc[run] = "gc" /\ deletion # <<>>
    /\ doomed' = Head(deletion)
    /\ pc' = [pc EXCEPT ![run] = "gcpop"]
    /\ UNCHANGED <<itEnabled, new, lists, current, run, saved, clock, objects, frees>>

\* Mutant: the list is emptied.
PoppedAll(list) == <<>>
Popped(list) == Tail(list)
GcPop ==
    /\ pc[run] = "gcpop"
    /\ deletion' = Popped(deletion)
    /\ pc' = [pc EXCEPT ![run] = "gcfree"]
    /\ UNCHANGED <<itEnabled, new, ready, sleeping, current, run, saved, clock, objects, garbage>>

GcFree ==
    /\ pc[run] = "gcfree"
    /\ frees' = [frees EXCEPT ![doomed] = @ + 1]
    /\ doomed' = NULL
    /\ pc' = [pc EXCEPT ![run] = "gc"]
    /\ UNCHANGED <<itEnabled, new, lists, current, run, saved, clock, objects>>

-----------------------------------------------------------------------------
(* Semaphores.                                                              *)

newSemaphore(s, init) ==
    /\ Calls /\ ~sem[s].alive
    /\ sem' = [sem EXCEPT ![s] = [alive |-> TRUE, counter |-> init, inWait |-> <<>>]]
    /\ UNCHANGED <<itEnabled, new, lists, kernel, clock, queue, mq, garbage>>

\* The timer may strike between the test and free(), and a thread that waits for
\* the semaphore by then is in no list any more.
deleteSemaphore(s) ==
    /\ Calls /\ sem[s].alive /\ sem[s].inWait = <<>>
    /\ mq' = [mq EXCEPT ![run] = s]
    /\ pc' = [pc EXCEPT ![run] = "freeing"]
    /\ UNCHANGED <<itEnabled, new, lists, current, run, saved, clock, sem, queue, garbage>>

FreeSemaphore ==
    /\ pc[run] = "freeing"
    /\ sem' = [sem EXCEPT ![mq[run]] = NoObject]
    /\ mq' = [mq EXCEPT ![run] = NULL]
    /\ pc' = [pc EXCEPT ![run] = "user"]
    /\ UNCHANGED <<itEnabled, new, lists, current, run, saved, clock, queue, garbage>>

\* A thread that finds a coin goes on with the timer off.
semTake(s) ==
    /\ Calls /\ sem[s].alive
    /\ \/ /\ sem[s].counter = 0
          /\ sem' = [sem EXCEPT ![s].inWait = Pushed(@, current)]
          /\ ready' = WithoutIt(current)
          /\ Leaves(current, "switch")
       \/ /\ sem[s].counter # 0
          /\ sem' = [sem EXCEPT ![s].counter = @ - 1]
          /\ itEnabled' = FALSE
          /\ UNCHANGED <<ready, kernel>>
    /\ UNCHANGED <<new, sleeping, deletion, clock, queue, mq, garbage>>

Given(x) ==
    IF x.inWait = <<>> THEN [x EXCEPT !.counter = @ + 1] ELSE [x EXCEPT !.inWait = Tail(@)]
\* The first of the waiting threads is put before the first activable one.
Woken(waiting) == IF waiting = <<>> THEN ready ELSE Pushed(ready, Head(waiting))

semGive(s) ==
    /\ Calls /\ sem[s].alive /\ sem[s].counter < MaxCoins
    /\ sem' = [sem EXCEPT ![s] = Given(@)]
    /\ ready' = Woken(sem[s].inWait)
    /\ itEnabled' = TRUE
    /\ UNCHANGED <<new, sleeping, deletion, kernel, clock, queue, mq, garbage>>

-----------------------------------------------------------------------------
(* Message queues.                                                          *)

newMessageQueue(q) ==
    /\ Calls /\ ~queue[q].alive
    /\ queue' = [queue EXCEPT ![q] = [NoQueue EXCEPT !.alive = TRUE]]
    /\ itEnabled' = TRUE
    /\ UNCHANGED <<new, lists, kernel, clock, sem, mq, garbage>>

\* With no message the thread blocks, and looks again when it is woken.
receiveMessage(q) ==
    /\ InUser /\ mq[run] \in {NULL, q} /\ queue[q].alive
    /\ \/ /\ queue[q].inBox # <<>>
          /\ queue' = [queue EXCEPT ![q].inBox = Tail(@)]
          /\ mq' = [mq EXCEPT ![run] = NULL]
          /\ itEnabled' = TRUE
          /\ UNCHANGED <<ready, kernel>>
       \/ /\ queue[q].inBox = <<>>
          /\ queue' = [queue EXCEPT ![q].inWait = Pushed(@, current)]
          /\ mq' = [mq EXCEPT ![run] = q]
          /\ ready' = WithoutIt(current)
          /\ Leaves(current, "switch")
    /\ UNCHANGED <<new, sleeping, deletion, clock, sem, garbage>>

\* Mutant: only the message that finds an empty box wakes a receiver.
WokenWhenEmpty(q) ==
    IF queue[q].inBox = <<>> /\ queue[q].inWait # <<>> THEN 1 ELSE 0
\* How many receivers a message wakes.
Wakes(q) == IF queue[q].inWait # <<>> THEN 1 ELSE 0
sendMessage(q, d) ==
    /\ Calls /\ queue[q].alive /\ Len(queue[q].inBox) < MaxMessages
    /\ queue' = [queue EXCEPT ![q].inBox = Append(@, d),
                              ![q].inWait = SubSeq(@, Wakes(q) + 1, Len(@))]
    /\ ready' = SubSeq(queue[q].inWait, 1, Wakes(q)) \o ready
    /\ itEnabled' = TRUE
    /\ UNCHANGED <<new, sleeping, deletion, kernel, clock, sem, mq, garbage>>

\* A message of size 0: the call returns with the timer off.
SendNothing(q) ==
    /\ Calls /\ queue[q].alive
    /\ itEnabled' = FALSE
    /\ UNCHANGED <<new, lists, kernel, clock, objects, garbage>>

-----------------------------------------------------------------------------
SemCalls(s) ==
    (\E i \in 0..1 : newSemaphore(s, i)) \/ deleteSemaphore(s) \/ semTake(s) \/ semGive(s)
QueueCalls(q) ==
    \/ newMessageQueue(q) \/ receiveMessage(q) \/ SendNothing(q)
    \/ \E d \in Data : sendMessage(q, d)
gc == GcTake \/ GcPop \/ GcFree

Common ==
    \/ Tick \/ Switch \/ Restore \/ FreeSemaphore \/ gc
    \/ createGThread \/ exitCurrentThread \/ \E d \in Durations : gSleep(d)
    \/ (\E s \in Sems : SemCalls(s)) \/ (\E q \in Queues : QueueCalls(q))
Next == Common \/ Timer \/ Return \/ \E t \in Ids : killThreadById(t)
Spec == Init /\ [][Next]_vars

(***************************************************************************)
(* The runs in which the code does what it is meant to.  The timer strikes *)
(* neither between enableInterrupt and the switch of contexts, nor while   *)
(* gc() takes a thread off its list, nor between the test and the free()   *)
(* of deleteSemaphore; nobody kills himself, the collector or a thread     *)
(* that is in receiveMessage; a thread does not return with the timer off. *)
(***************************************************************************)
OrderedTimer == pc[run] \notin {"switch", "restore", "gcpop", "freeing"} /\ Timer
OrderedReturn == itEnabled /\ Return
OrderedKill(t) == t \notin {run, Gc} /\ mq[t] = NULL /\ killThreadById(t)
OrderedNext == Common \/ OrderedTimer \/ OrderedReturn \/ \E t \in Ids : OrderedKill(t)
OrderedSpec == Init /\ [][OrderedNext]_vars

\* The timer strikes again and again and does nothing when it finds the flag
\* down; a thread that has the processor executes the kernel's instructions.
Fairness ==
    /\ SF_vars(OrderedTimer) /\ WF_vars(Switch) /\ WF_vars(Restore) /\ WF_vars(FreeSemaphore)
    /\ SF_vars(GcTake) /\ WF_vars(GcPop) /\ SF_vars(GcFree) /\ WF_vars(Tick)
FairOrderedSpec == OrderedSpec /\ Fairness

-----------------------------------------------------------------------------
(* Properties.                                                              *)

\* The variables stay in their types: no list is walked past its end. Calls
\* are made on semaphores and queues that exist.
TypeOK ==
    /\ itEnabled \in BOOLEAN /\ counter \in Nat
    /\ ready \in Seq(Ids) /\ sleeping \in Seq(Ids) /\ deletion \in Seq(Ids)
    /\ current \in Ids /\ run \in Ids /\ saved \in [Ids -> Ids \cup {NULL}]
    /\ timeToWait \in [Ids -> Nat] /\ now \in 0..MaxTime
    /\ toDelete \in [Ids -> BOOLEAN]
    /\ sem \in [Sems -> [alive : BOOLEAN, counter : 0..MaxCoins, inWait : Seq(Ids)]]
    /\ queue \in [Queues -> [alive : BOOLEAN, inBox : Seq(Data), inWait : Seq(Ids)]]
    /\ pc \in [Ids -> {"none", "user", "idle", "gc", "gcpop", "gcfree",
                       "switch", "restore", "freeing", "returned", "gone"}]
    /\ mq \in [Ids -> Queues \cup Sems \cup {NULL}] /\ doomed \in Ids \cup {NULL}
    /\ frees \in [Ids -> Nat]

Times(list, t) == Cardinality({i \in DOMAIN list : list[i] = t})
Places(t) ==
    Times(ready, t) + Times(sleeping, t) + Times(deletion, t)
    + Cardinality({s \in Sems : Contains(sem[s].inWait, t)})
    + Cardinality({q \in Queues : Contains(queue[q].inWait, t)})
    + (IF pc[Gc] = "gcfree" /\ doomed = t THEN 1 ELSE 0)

\* A thread that was created is in one list, once, whatever it went through,
\* or freed, once; all lists share the next pointer of its block. A semaphore
\* may be freed under a thread that came to wait for it after deleteSemaphore
\* looked (scheduler.c:395-399): OrderedTimer rules that out.
OnePlace == \A t \in Ids : Places(t) + frees[t] = IF pc[t] = "none" THEN 0 ELSE 1

\* The processor is on the stack of currentThread, which is activable, except
\* in the window before a switch; a context that lives brings its own stack
\* back, and the stack in use is not one that was freed.
OwnStack ==
    /\ Contains(ready, current) /\ frees[run] = 0
    /\ pc[run] \notin {"switch", "restore"} => run = current
    /\ \A t \in Ids \ {run} : pc[t] \notin {"none", "gone"} => saved[t] = t

\* Nobody waits for a semaphore that has a coin, and threads that wait for a
\* message have been left behind only by messages that others were woken for.
NoLostWakeUp ==
    /\ \A s \in Sems : sem[s].counter > 0 => sem[s].inWait = <<>>
    /\ \A q \in Queues : queue[q].inWait # <<>> =>
          Len(queue[q].inBox) <= Cardinality({t \in Ids : mq[t] = q /\ Contains(ready, t)})

\* As long as threads turn the timer on again, an activable thread gets the
\* processor, sleepers wake up when their time has come, and the collector
\* frees the stacks of the threads that have exited.
ReadyRuns == []<>itEnabled => \A t \in Ids : []<>(run = t \/ ~Contains(ready, t))
SleepersWake ==
    []<>itEnabled => []<>(\A i \in DOMAIN sleeping : timeToWait[sleeping[i]] > now)
ExitedAreFreed ==
    []<>itEnabled => []<>(\A t \in Ids : pc[t] = "gone" => frees[t] = 1)
==============================================================================
