-------------------------------- MODULE Ordo3 --------------------------------
(***************************************************************************)
(* Kernel 3.0 (kernel/ordo3.0): threads on one processor, preempted by a   *)
(* timer signal.  "Safe mode" (interrupt.c) keeps the timer out, so what   *)
(* runs in safe mode up to a switch of contexts is one action; code that   *)
(* runs with the timer on is cut where a preemption makes a difference.    *)
(*                                                                         *)
(* A thread is named by its ctx, and its stack by the ctx it was created   *)
(* with: saved[c] is the stack that loading c brings back (NULL: its       *)
(* pointers are out of date), run is the stack the processor is on,        *)
(* current is current_thread.  The ids of the table threads are the ctx's  *)
(* names.  Lists of sleeping and waiting threads, which the code chains    *)
(* through next, are sequences.                                            *)
(***************************************************************************)
EXTENDS Integers, Sequences, FiniteSets

CONSTANTS
    Ctx, Main, Idle,   \* control blocks; those of main() and idle()
    Sems,              \* semaphores that user code takes and gives
    Queues,            \* message queues that user code uses
    WaitMq,            \* the queue on which the dead are announced
    Data,              \* what user messages carry
    Killable,          \* the threads that are killed
    Waiters,           \* the threads that call wait()
    Durations,         \* the arguments of sleep()
    MaxTime,           \* bound on the clock
    MaxCoins,          \* bound on the coins of a semaphore
    MaxLevel,          \* bound on the inhibition level that user code leaks
    NULL

ASSUME Ordo3Assumption ==
    /\ IsFiniteSet(Ctx) /\ Main \in Ctx /\ Idle \in Ctx /\ Main # Idle
    /\ NULL \notin Ctx \cup Queues \cup {WaitMq}
    /\ WaitMq \notin Queues /\ Sems \cap (Queues \cup {WaitMq}) = {}
    /\ Killable \subseteq Ctx \ {Main, Idle} /\ Waiters \subseteq Ctx \ {Idle}
    /\ Durations \subseteq Nat /\ MaxTime \in Nat /\ MaxCoins \in Nat
    /\ MaxLevel \in Nat

R == INSTANCE Ring

\* A message queue is named like the semaphore that counts its messages.
AllQueues == Queues \cup {WaitMq}
AllSems == Sems \cup AllQueues

VARIABLES
    it, irq,      \* the inhibition level; the timer may interrupt
    ring,         \* the ready threads
    current, run, \* current_thread; the stack the processor is on
    saved,        \* the stack each ctx can bring back; NULL while it runs
    threads,      \* the table of threads
    zombi,        \* the kill flags
    sleeping,     \* thread_in_waiting
    time, now,    \* the wake-up times; the clock
    store,        \* of each semaphore or queue: what its structures hold
    pc,           \* where each stack is
    mq, got,      \* the queue a stack receives from; what it has read
    yielding      \* the processor is inside yield()

vars == <<it, irq, ring, current, run, saved, threads, zombi, sleeping, time, now,
          store, pc, mq, got, yielding>>

-----------------------------------------------------------------------------
(* interrupt.c and hw.c.                                                    *)

\* disable_it at the start of a call and enable_it at its end.
Balanced == it' = it /\ irq' = (it = 0)
\* Mutant: the level is not brought back to 0.
EnableWithoutFloor == irq' = (irq \/ it <= 1) /\ it' = it - 1
enable_it == irq' = (irq \/ it <= 1) /\ it' = IF it > 0 THEN it - 1 ELSE 0
reset_it == it' = 0 /\ irq' = TRUE

-----------------------------------------------------------------------------
(* What the calls do to semaphores, queues and the ring.                    *)

New(coins) == [alive |-> TRUE, counter |-> coins, waiting |-> <<>>, messages |-> <<>>]
Deleted == [New(0) EXCEPT !.alive = FALSE]

\* Mutant: the woken thread is not unlinked.
GiveKeeps(st, s) ==
    IF st[s].waiting = <<>> THEN [st EXCEPT ![s].counter = @ + 1] ELSE st
\* Mutant: the coin is added although a thread is woken with it.
GiveTwice(st, s) ==
    [st EXCEPT ![s].counter = @ + 1,
               ![s].waiting = IF @ = <<>> THEN @ ELSE Tail(@)]

\* sem_give: a coin, or the first waiting thread is unlinked ...
Give(st, s) ==
    IF st[s].waiting = <<>> THEN [st EXCEPT ![s].counter = @ + 1]
    ELSE [st EXCEPT ![s].waiting = Tail(@)]

\* ... and chained behind the current thread c.
GiveRing(r, c, st, s) ==
    IF st[s].waiting = <<>> THEN r ELSE R!WakeAfter(r, c, Head(st[s].waiting))

\* Mutant: the message takes the place of those that were there.
SendForgets(st, q, d) == [Give(st, q) EXCEPT ![q].messages = <<d>>]
\* send_message: the message is linked, then a coin is given.
Send(st, q, d) == [Give(st, q) EXCEPT ![q].messages = Append(@, d)]

-----------------------------------------------------------------------------
(***************************************************************************)
(* scheduler(to_save), called n levels deep with c current, ring r and     *)
(* stores st, while the stacks are at p.  If c is a zombie its death is    *)
(* announced, which may wake a waiter, it leaves the ring and its          *)
(* successor runs.  A stack that has run before comes back in scheduler()  *)
(* and leaves safe mode; a new one starts in its function with the level   *)
(* it finds.  to_save is NULL for a context that nobody will load again.   *)
(***************************************************************************)
\* Mutant: the running stack is not saved.
SaveNothing(toSave) == saved
Save(toSave) == IF toSave = NULL THEN saved ELSE [saved EXCEPT ![toSave] = run]

\* Mutant: the kill flag is never looked at.
NeverDies(c) == FALSE
Dies(c) == zombi[c]

scheduler(toSave, c, r, st, p, n) ==
    LET r2 == GiveRing(r, c, st, WaitMq)
        c2 == IF Dies(c) THEN r2.next[c] ELSE c
        p2 == IF Dies(c) THEN [p EXCEPT ![c] = "dead"] ELSE p
    IN  /\ current' = c2
        /\ ring' = IF Dies(c) THEN R!Remove(r2, c) ELSE r
        /\ store' = IF Dies(c) THEN Send(st, WaitMq, c) ELSE st
        /\ run' = Save(toSave)[c2]
        /\ saved' = [Save(toSave) EXCEPT ![c2] = NULL]
        /\ IF p2[run'] = "start"
           THEN /\ it' = it + n + 1 /\ irq' = FALSE
                /\ pc' = [p2 EXCEPT ![run'] = "user"]
           ELSE reset_it /\ pc' = p2

\* The current thread goes to the front of the list of s.
Block(s, p, n) ==
    scheduler(current, ring.next[current], R!Remove(ring, current),
              [store EXCEPT ![s].waiting = <<current>> \o @], p, n)

At(l) == ~yielding /\ pc[run] = l
InUser == At("user") /\ run # Idle
\* A call that leaves the threads, their lists and their stacks alone.
KeepsThreads == UNCHANGED <<ring, current, run, saved, sleeping, time, now, yielding>>

-----------------------------------------------------------------------------
(* The state in which start_scheduler() leaves the kernel.                  *)
Init ==
    /\ it = 0 /\ irq = TRUE
    /\ ring = LET other == [c \in Ctx |-> IF c = Main THEN Idle
                                          ELSE IF c = Idle THEN Main ELSE NULL]
              IN  [next |-> other, last |-> other]
    /\ current = Main /\ run = Main
    /\ saved = [c \in Ctx |-> IF c = Idle THEN Idle ELSE NULL]
    /\ threads = {Idle}
    /\ zombi = [c \in Ctx |-> FALSE]
    /\ sleeping = <<>> /\ time = [c \in Ctx |-> 0] /\ now = 0
    /\ store = [s \in AllSems |-> IF s = WaitMq THEN New(0) ELSE Deleted]
    /\ pc = [c \in Ctx |-> IF c = Main THEN "user" ELSE IF c = Idle THEN "start" ELSE "none"]
    /\ mq = [c \in Ctx |-> NULL] /\ got = [c \in Ctx |-> NULL]
    /\ yielding = FALSE

-----------------------------------------------------------------------------
(* yield(), called by the timer or by idle().                               *)

Yield ==
    /\ ~yielding
    /\ yielding' = TRUE
    /\ it' = it + 1 /\ irq' = FALSE
    /\ UNCHANGED <<ring, current, run, saved, threads, zombi, sleeping, time, now, store, pc, mq, got>>
Timer == irq /\ Yield
IdleYields == run = Idle /\ Yield

\* Mutant: a wake-up time that has passed is not seen.
DueExactly == sleeping # <<>> /\ time[Head(sleeping)] = now
Due == sleeping # <<>> /\ time[Head(sleeping)] <= now

WakeSleeper ==
    /\ yielding /\ Due
    /\ ring' = R!InsertAfter(ring, current, Head(sleeping))
    /\ sleeping' = Tail(sleeping)
    /\ UNCHANGED <<it, irq, current, run, saved, threads, zombi, time, now, store, pc, mq, got, yielding>>

\* The level counts yield()'s own disable_it already.
SwitchToNext ==
    /\ yielding /\ ~Due
    /\ yielding' = FALSE
    /\ LET c == ring.next[current]
       IN  scheduler(ring.last[c], c, ring, store, pc, 0)
    /\ UNCHANGED <<threads, zombi, sleeping, time, now, mq, got>>

Tick ==
    /\ ~yielding /\ now < MaxTime
    /\ now' = now + 1
    /\ UNCHANGED <<it, irq, ring, current, run, saved, threads, zombi, sleeping, time, store, pc, mq, got, yielding>>

-----------------------------------------------------------------------------
(* Threads: create_thread, sleep, kill, delete_current_thread, wait.        *)

Create(new) ==
    /\ InUser /\ pc[new] = "none"
    /\ ring' = R!InsertAfter(ring, current, new)
    /\ threads' = threads \cup {new}
    /\ zombi' = [zombi EXCEPT ![new] = FALSE]
    /\ saved' = [saved EXCEPT ![new] = new]
    /\ pc' = [pc EXCEPT ![new] = "start"]
    /\ reset_it
    /\ UNCHANGED <<current, run, sleeping, time, now, store, mq, got, yielding>>

\* Mutant: the sleeper goes to the front of the list.
SleepsFirst(t) == 0
\* How many sleepers the new one is put behind: those at the head of the
\* list whose time is before t.
SleepsBefore(t) ==
    CHOOSE k \in 0..Len(sleeping) :
        /\ \A i \in 1..k : time[sleeping[i]] < t
        /\ k < Len(sleeping) => time[sleeping[k + 1]] >= t

Sleep(seconds) ==
    /\ InUser /\ now + seconds <= MaxTime
    /\ LET t == now + seconds
           k == SleepsBefore(t)
       IN  /\ time' = [time EXCEPT ![current] = t]
           /\ sleeping' = SubSeq(sleeping, 1, k) \o <<current>>
                              \o SubSeq(sleeping, k + 1, Len(sleeping))
    /\ scheduler(current, ring.next[current], R!Remove(ring, current), store, pc, 1)
    /\ UNCHANGED <<threads, zombi, now, mq, got, yielding>>

Kill(victim) ==
    /\ InUser /\ victim \in threads
    /\ zombi' = [zombi EXCEPT ![victim] = TRUE]
    /\ Balanced
    /\ KeepsThreads /\ UNCHANGED <<threads, store, pc, mq, got>>

\* The function of a thread returns into delete_current_thread.
Exit ==
    /\ InUser /\ run # Main
    /\ LET r == GiveRing(ring, current, store, WaitMq)
       IN  scheduler(NULL, r.next[current], R!Remove(r, current),
                     Send(store, WaitMq, current), [pc EXCEPT ![run] = "dead"], 1)
    /\ UNCHANGED <<threads, zombi, sleeping, time, now, mq, got, yielding>>

\* wait() frees the thread it was told of, then clears its entry; both with
\* the timer on.
FreeDead ==
    /\ At("reap")
    /\ pc' = [pc EXCEPT ![run] = "clear", ![got[run]] = "freed"]
    /\ KeepsThreads /\ UNCHANGED <<it, irq, threads, zombi, store, mq, got>>

ClearEntry ==
    /\ At("clear")
    /\ threads' = threads \ {got[run]}
    /\ pc' = [pc EXCEPT ![run] = "user", ![got[run]] = "none"]
    /\ got' = [got EXCEPT ![run] = NULL]
    /\ KeepsThreads /\ UNCHANGED <<it, irq, zombi, store, mq>>

-----------------------------------------------------------------------------
(* semaphore.c.  sem_take, sem_give and the calls on queues look at the id   *)
(* first, and change nothing when it is that of nothing.                    *)

NewSemaphore(s, init) ==
    /\ InUser /\ ~store[s].alive
    /\ store' = [store EXCEPT ![s] = New(init)]
    /\ Balanced
    /\ KeepsThreads /\ UNCHANGED <<threads, zombi, pc, mq, got>>

HasCoin(s) == store[s].counter > 0

SemTake(s) ==
    /\ InUser /\ store[s].alive
    /\ \/ /\ HasCoin(s)
          /\ store' = [store EXCEPT ![s].counter = @ - 1]
          /\ Balanced
          /\ UNCHANGED <<ring, current, run, saved, pc>>
       \/ /\ ~HasCoin(s)
          /\ Block(s, pc, 1)
    /\ UNCHANGED <<threads, zombi, sleeping, time, now, mq, got, yielding>>

SemGive(s) ==
    /\ InUser /\ store[s].alive /\ store[s].counter < MaxCoins
    /\ store' = Give(store, s)
    /\ ring' = GiveRing(ring, current, store, s)
    /\ Balanced
    /\ UNCHANGED <<current, run, saved, threads, zombi, sleeping, time, now, pc, mq, got, yielding>>

\* del_semaphore, and del_message_queue of the queue s.  When a thread waits
\* for it, the call enables the timer but keeps a level.  del_semaphore does not
\* look at the id (semaphore.c:53 follows the table's NULL): that user code
\* deletes only semaphores that exist is an assumption about it.
Refused(s) == store[s].waiting # <<>>
Delete(s) ==
    /\ InUser /\ store[s].alive
    /\ \/ /\ Refused(s) /\ it < MaxLevel
          /\ it' = it + 1 /\ irq' = TRUE
          /\ UNCHANGED store
       \/ /\ ~Refused(s)
          /\ store' = [store EXCEPT ![s] = Deleted]
          /\ Balanced
    /\ KeepsThreads /\ UNCHANGED <<threads, zombi, pc, mq, got>>

-----------------------------------------------------------------------------
(* m_queue.c.                                                               *)

NewQueue(q) == NewSemaphore(q, 0)

SendMessage(q, d) ==
    /\ InUser /\ store[q].alive /\ Len(store[q].messages) < MaxCoins
    /\ store' = Send(store, q, d)
    /\ ring' = GiveRing(ring, current, store, q)
    /\ Balanced
    /\ UNCHANGED <<current, run, saved, threads, zombi, sleeping, time, now, pc, mq, got, yielding>>

\* What follows a receive_message(q): wait() goes on with the id it got, a
\* user thread has no more need of it.
After(q) == IF q = WaitMq THEN "reap" ELSE "user"

\* With a coin the message is read and unlinked in safe mode; without one
\* the thread blocks, to come back in the middle of the call.
ReceiveMessage(q) ==
    /\ InUser /\ store[q].alive
    /\ \/ /\ HasCoin(q)
          /\ got' = [got EXCEPT ![run] = IF q = WaitMq THEN Head(store[q].messages) ELSE NULL]
          /\ store' = [store EXCEPT ![q].counter = @ - 1, ![q].messages = Tail(@)]
          /\ pc' = [pc EXCEPT ![run] = After(q)]
          /\ Balanced
          /\ UNCHANGED <<ring, current, run, saved, mq>>
       \/ /\ ~HasCoin(q)
          /\ mq' = [mq EXCEPT ![run] = q]
          /\ Block(q, [pc EXCEPT ![run] = "woken"], 2)
          /\ UNCHANGED got
    /\ UNCHANGED <<threads, zombi, sleeping, time, now, yielding>>

\* After blocking, scheduler() has left safe mode for the rest of the call:
\* the first message is read, and then unlinked.
ReadFirst ==
    /\ At("woken") /\ store[mq[run]].messages # <<>>
    /\ got' = [got EXCEPT ![run] = Head(store[mq[run]].messages)]
    /\ pc' = [pc EXCEPT ![run] = "unlink"]
    /\ KeepsThreads /\ UNCHANGED <<it, irq, threads, zombi, store, mq>>

UnlinkFirst ==
    /\ At("unlink") /\ store[mq[run]].messages # <<>>
    /\ store' = [store EXCEPT ![mq[run]].messages = Tail(@)]
    /\ pc' = [pc EXCEPT ![run] = After(mq[run])]
    /\ mq' = [mq EXCEPT ![run] = NULL]
    /\ enable_it
    /\ got' = [got EXCEPT ![run] = IF mq[run] = WaitMq THEN @ ELSE NULL]
    /\ KeepsThreads /\ UNCHANGED <<threads, zombi>>

wait == run \in Waiters /\ ReceiveMessage(WaitMq)

-----------------------------------------------------------------------------
Kernel == IdleYields \/ WakeSleeper \/ SwitchToNext \/ Tick
Calls ==
    \/ \E c \in Ctx : Create(c)
    \/ \E d \in Durations : Sleep(d)
    \/ Exit \/ FreeDead \/ ClearEntry \/ ReadFirst \/ UnlinkFirst
    \/ \E s \in Sems : SemTake(s) \/ SemGive(s) \/ \E i \in 0..1 : NewSemaphore(s, i)
    \/ \E q \in Queues : NewQueue(q) \/ \E d \in Data : SendMessage(q, d)
Receive == wait \/ \E q \in Queues : ReceiveMessage(q)

Next ==
    \/ Kernel \/ Calls \/ Receive \/ Timer
    \/ \E c \in Killable : Kill(c)
    \/ \E s \in Sems \cup Queues : Delete(s)
Spec == Init /\ [][Next]_vars

\* A receiver that was woken has not read its message yet, or not unlinked it.
Receiving(q) == {t \in Ctx : /\ pc[t] \in {"woken", "unlink"} /\ mq[t] = q
                              /\ \A i \in DOMAIN store[q].waiting : store[q].waiting[i] # t}

(***************************************************************************)
(* The runs in which the code does what it is meant to: the timer strikes  *)
(* neither between the sem_give that wakes a thread and the call that      *)
(* repairs the ring, nor between the two halves of the work of a woken     *)
(* receiver or of wait(); a queue is deleted only when nobody is receiving *)
(* from it; and a thread that is receiving is not killed.  In all runs     *)
(* user code deletes only semaphores that exist (Delete).                  *)
(***************************************************************************)
TimerIsSafe == R!Chained(ring) /\ pc[run] \notin {"unlink", "clear"}
OrderedTimer == TimerIsSafe /\ Timer
OrderedNext ==
    \/ Kernel \/ Calls \/ OrderedTimer
    \/ ~zombi[run] /\ Receive
    \/ \E c \in Killable : pc[c] \notin {"woken", "unlink", "reap", "clear"} /\ Kill(c)
    \/ \E s \in Sems \cup Queues : Receiving(s) = {} /\ Delete(s)
OrderedSpec == Init /\ [][OrderedNext]_vars

(***************************************************************************)
(* The timer strikes every 8 ms, whatever the threads do, and is lost when *)
(* it finds it inhibited (hw.c:22): with SF it finds it enabled now and    *)
(* then.  A thread runs with the timer off from its first instruction to   *)
(* its first blocking call; the last conjunct asks that it returns.  What  *)
(* wait() does after it has been told of a death is the kernel's own.      *)
(***************************************************************************)
FairOrderedSpec ==
    /\ OrderedSpec
    /\ SF_vars(OrderedTimer) /\ WF_vars(IdleYields) /\ WF_vars(WakeSleeper)
    /\ WF_vars(SwitchToNext) /\ SF_vars(Tick) /\ WF_vars(UnlinkFirst)
    /\ WF_vars(FreeDead) /\ WF_vars(ClearEntry)
    /\ WF_vars(~irq /\ Exit)

-----------------------------------------------------------------------------
(* Properties.                                                              *)

InList(c, s) == \E i \in DOMAIN s : s[i] = c
NoRepeat(s) == \A i, j \in DOMAIN s : s[i] = s[j] => i = j
Live(c) == pc[c] \in {"user", "start", "woken", "unlink", "reap", "clear"}
Blocked(c) == \E s \in AllSems : InList(c, store[s].waiting)

\* The variables stay in their types: the processor is on the stack of a thread,
\* so none was loaded that nobody saved.
TypeOK ==
    /\ it \in Nat /\ irq \in BOOLEAN /\ yielding \in BOOLEAN
    /\ ring \in R!Rings /\ current \in Ctx /\ run \in Ctx
    /\ saved \in [Ctx -> Ctx \cup {NULL}] /\ threads \subseteq Ctx
    /\ zombi \in [Ctx -> BOOLEAN] /\ time \in [Ctx -> Nat] /\ now \in Nat
    /\ sleeping \in Seq(Ctx)
    /\ store \in [AllSems -> [alive : BOOLEAN, counter : Nat, waiting : Seq(Ctx),
                               messages : Seq(Data \cup Ctx)]]
    /\ pc \in [Ctx -> {"none", "start", "user", "woken", "unlink", "reap", "clear", "dead", "freed"}]
    /\ mq \in [Ctx -> AllQueues \cup {NULL}] /\ got \in [Ctx -> Data \cup Ctx \cup {NULL}]

\* Ready threads, the running one and idle() among them, form one ring in both
\* directions, once the back link that sem_give leaves is put right.
OneRing ==
    LET r == R!Repaired(ring, current) IN
    /\ R!Chained(r) /\ {current, Idle} \subseteq R!Members(r)
    /\ \A S \in SUBSET R!Members(r) :
          current \in S /\ (\A c \in S : r.next[c] \in S) => S = R!Members(r)

\* The processor is on the stack of current_thread, and every other thread's
\* ctx brings its own stack back (switch_to_ctx).
OwnStack ==
    /\ run = current
    /\ \A c \in Ctx : Live(c) /\ c # current => saved[c] = c

\* A thread that lives is in exactly one place: the ring, the list of the
\* sleepers or the list of one semaphore, and there once; a dead one in none.
OnePlace ==
    /\ NoRepeat(sleeping) /\ \A s \in AllSems : NoRepeat(store[s].waiting)
    /\ \A c \in Ctx :
          Cardinality({s \in AllSems : InList(c, store[s].waiting)})
          + (IF c \in R!Members(ring) THEN 1 ELSE 0)
          + (IF InList(c, sleeping) THEN 1 ELSE 0) = IF Live(c) THEN 1 ELSE 0

\* yield() looks at the head of the sleepers only: the head wakes up first.
SleepersSorted ==
    \A i, j \in DOMAIN sleeping : i < j => time[sleeping[i]] <= time[sleeping[j]]

\* What the calls keep of the lists that share the next and last pointers of
\* the threads, each call moving a thread from one to another.
ListsOK == OneRing /\ OnePlace /\ SleepersSorted

\* Nobody waits for a semaphore that has a coin (no lost wake-up), and a queue
\* holds one message for each of its coins and woken receivers.
CoinsExact ==
    /\ \A s \in AllSems : store[s].counter > 0 => store[s].waiting = <<>>
    /\ \A q \in AllQueues :
          Len(store[q].messages) = store[q].counter + Cardinality(Receiving(q))

\* Each death is announced once and reaped once: a dead thread's id is in the
\* queue or with one wait(), and no other id is in either.
DeadOnce ==
    LET id == store[WaitMq].messages
        With(l, c) == {t \in Ctx : pc[t] = l /\ got[t] = c}
    IN  /\ NoRepeat(id)
        /\ \A c \in Ctx :
              /\ InList(c, id) => pc[c] = "dead"
              /\ Cardinality(With("reap", c)) + (IF InList(c, id) THEN 1 ELSE 0)
                    = IF pc[c] = "dead" THEN 1 ELSE 0
              /\ Cardinality(With("clear", c)) = IF pc[c] = "freed" THEN 1 ELSE 0

\* A killed thread dies, unless it blocks on a semaphore or a queue first.
KilledDies ==
    \A c \in Killable :
        (Live(c) /\ zombi[c] /\ ~Blocked(c)) ~> (~Live(c) \/ Blocked(c))

\* A sleeper wakes up.
SleepersWake == \A c \in Ctx : InList(c, sleeping) ~> c \in R!Members(ring)

-----------------------------------------------------------------------------
(* What comments of the code say, and what its runs do not keep.            *)

\* As long as the queue exists, what a receiver unlinks and frees is the
\* message it has read (m_queue.c:60-74).
UnlinksWhatItRead ==
    \A t \in Ctx : pc[t] = "unlink" /\ store[mq[t]].alive =>
        LET m == store[mq[t]].messages IN m # <<>> /\ Head(m) = got[t]
==============================================================================
