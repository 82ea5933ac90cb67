# A verification development for cofiTyHome

cofiTyHome is a home automation server in C. It reads the frames of wireless
sensors from a gateway, keeps the last value of each sensor, evaluates rules
over these values and the clock, and answers by sending frames to actuators. A
GUI connects over TCP to configure it, to read values and to trigger actions.
The server brings its own memory allocator; the repository also holds three
generations of a cooperative thread kernel (`ordo`, `ordo2.0`, `ordo3.0`).

This directory holds TLA+ models of that code, the TLC configurations that
check them on small instances, and theorems about them that TLAPS checks.

## 1. Inventory

| component | source | state | operations |
|---|---|---|---|
| memory allocator | `kernel/memory/memory.c` | the circular free list (`freep`, `base`, headers in `heap`), a mutex | `initMemory`, `gMalloc`, `gFree`, `getGMemFree`, `destroyMemory` |
| kernel 3.0: interrupts | `ordo3.0/interrupt.c`, `hw.c` | the nesting counter `it`, the timer signal mask | `disable_it`, `enable_it`, `reset_it`, the timer handler |
| kernel 3.0: scheduler | `ordo3.0/scheduler.c` | the ring of ready threads, `current_thread`, sleepers, the table `threads`, the contexts | `start_scheduler`, `create_thread`, `yield`, `sleep`, `kill`, `delete_current_thread`, `wait` |
| kernel 3.0: semaphores, queues | `ordo3.0/semaphore.c`, `m_queue.c` | a counter and a waiting list per semaphore, a list of messages per queue | `new_`/`del_semaphore`, `sem_take`, `sem_give`, `new_`/`del_message_queue`, `send_message`, `receive_message` |
| kernel 2.0 | `ordo2.0/scheduler.c`, `gThread.c`, `gSetJmp.c` | singly linked lists of activable, sleeping and dead threads, the flag `itEnabled` | `createGThread`, `killThreadById`, `gSleep`, `exitCurrentThread`, `yield`, `gc`, semaphores, message queues |
| kernel 1 | `ordo/gThreads.c` | a ring of threads on copied stacks | create, yield, exit |
| sensors | `server/src/sensors.c` | the list of sensors with their last values, `sensorsMutex` | `decodeTrame` and one decoder per kind of sensor, `getSensor`, `cleanSensors` |
| rules | `server/src/rules.c`, `initCheckRules.c` | the list of rules, the semaphore `checkRules` | `applyRules`, the tests, `initRules`, `stopRules`, `cleanRules` |
| timed check | `server/src/timedCheck.c` | the alarm period | the SIGALRM handler, start, stop |
| actions, actuators | `server/src/actions.c`, `actionneurs.c` | lists of actions and actuators | `applyAction`, the frame builders (hex, checksum), open/close |
| sensor network | `server/src/sensorsNetwork.c` | a socket, a POSIX message queue, two threads | reassembly of frames, sending, start, stop |
| GUI network | `server/src/guiNetwork.c` | the list of clients with two threads each | accept, receive, send, `cleanClient` |
| GUI commands | `server/src/guiInterface.c`, `logWatch.c` | none of its own, the log watchers' flags | initialise, command, update, history, edit, edit data |
| configuration | `server/parse/rules.y`, `rules.l` | `parsedFlag`, `progState`, the parser's current pointers | `parseAll`, `parseConfig`, `reparseFiles` |
| life cycle | `server/src/main.c`, `init.c` | the terminal loop | `init`, `destroy`, `cleanMemory`, reload |

### How the parts interact

* **Shared memory under one mutex.** `sensorsMutex` is meant for the list of
  sensors. `decodeTrame` (gateway's thread), `applyRules` (rules' thread),
  `parseFile` (whoever loads) and parts of the GUI's commands take it. The lists
  of actions, rules and actuators, which point into each other and into the
  sensors, have no mutex of their own.
* **A semaphore.** `checkRules` counts the reasons to walk the rules: one for each
  frame of a known sensor, one for each alarm.
* **A POSIX message queue.** `/SensorsMsgSend` takes frames from every thread
  that applies an action to the one thread that writes to the gateway. It holds
  a few frames; `mq_send` blocks when it is full.
* **Signals.** SIGALRM runs `catchedAlarm` in whatever thread it finds, and
  interrupts `epoll_wait` of the terminal's thread. In the kernels a timer signal
  runs the scheduler on the stack of the interrupted thread.
* **The parser** is called by `init`, by the terminal's `reload` and by a GUI that
  sends a file. It frees all lists (`cleanMemory`), builds them anew, and on a
  mistake either ends the process or loads what is on disk, depending on the
  global `progState`.
* **The allocator** is called by all of the server's threads.
* **The kernels** are programs of their own. The server runs on POSIX threads.

### What is hard here, and what makes each part correct

| part | hard behaviour | correct means |
|---|---|---|
| allocator | a circular list that is cut and merged in place, walked from a pointer that moves; one read of it before the mutex is taken | held blocks are disjoint, the list covers the rest and nothing else, NULL only when there is no room, every walk ends |
| kernel 3.0 | a switch in the middle of any call that is not in safe mode; one `next` pointer for ring, sleepers and waiting lists; a safe mode that does not survive a block | each thread in one list, each context with its own stack, no lost wake-up, one message per coin, a dead thread reaped once, the killed die and the sleeping wake |
| server threads | frames, alarms and loads in any order; a full queue with the mutex held; commands without the mutex; loads that fail halfway | no pointer into a freed list, no frame forgotten, a walk sees one state, memory and disk agree after a load, nobody waits for ever |
| gateway's stream | `recv` and `send` cut frames anywhere; a queue that outlives the server | each frame sent and decoded once, whole and in order |
| GUI's clients | two threads per client that start one after the other; commands cut anywhere, many frames long, in several clients at once; queues of answers that outlive the server | commands whole and carried out in order, answers to whoever asked |
| kernel 2.0 | as 3.0; blocking calls open the timer before they switch, the collector never closes it | as 3.0; whoever exited is freed once |
| kernel 1 | as 2.0, with less in it | as 2.0 |

The list of hazards in `PROJECT.json` has one entry per place in the code where
one of these can go wrong, with the properties that would show it or the reason
why none does yet.

## 2. Modules

```
Allocator  <--implements--  Memory   <-- MCMemory,  MemoryProofs
                Ring  <--   Ordo3    <-- MCOrdo3,   Ordo3Proofs
                            Ordo2    <-- MCOrdo2,   Ordo2Proofs
                            Server   <-- MCServer,  ServerProofs
Channel    <--implements--  Wire     <-- WireProofs
                            Clients  <-- ClientsProofs
       Wire, Clients, Frames <-- Network <-- MCNetwork, NetworkProofs
       ListFacts <-- Ordo3Proofs, Ordo2Proofs, ClientsProofs
       WireProofs, ClientsProofs <-- NetworkProofs
```

`Server` and `Network` are two cuts through the same program. `Server` has the
lists, their mutex and the threads that walk them, with whole frames and
commands. `Network` has the connections byte by byte and what a command becomes
on its way from a GUI to the gateway, with lists that do not change.

Each component has a module with its constants and assumptions, its state, one
action per operation or per piece of an operation that others can see, and its
properties; an `MC...` module with the definitions that a configuration cannot
hold; a configuration per run; and, where there are proofs, a `...Proofs` module.
Operators marked "Mutant" in a module are broken variants of the operator that
follows them. They are used to make sure that each property fails when the code
is wrong, and nothing else refers to them.

### Memory, Allocator: `kernel/memory/memory.c`

The heap is an array of units of `sizeof(Header)` bytes. `ptr`, `size`, `sCode`
are the fields of the headers at every unit and of `base`, which lies outside of
the heap at either side. Stale headers inside blocks are kept as the code keeps
them, so `gFree` can meet them. `live` is a history variable: the blocks that
callers hold.

| actions | code |
|---|---|
| `InitMemory`, `DestroyMemory` | `initMemory` (65-79) with its `gFree` of the whole heap, `destroyMemory` (211-215) |
| `MallocEnter`, `MallocLock` | the read of `freep` and the size test (160-163), the lock (166-174) |
| `MallocNext`, `MallocExact`, `MallocCut`, `MallocFail` | one turn of the loop and its three exits (174-205) |
| `FreeEnter`, `FreeReject`, `FreeLock` | the tests of the pointer (89-112), which release the mutex, and the lock |
| `FreeSearch`, `FreeInsert` | the search (115-124), the link and both merges (126-147) |
| `SumEnter` .. `SumDone` | `getGMemFree` (234-251) |
| `ClientWrites` | a caller fills its own block, possibly with what looks like a header |

A locked section touches the list only, and the one read of shared state without
the mutex is that of `freep`, so one turn of a loop is one action.

`Spec` is the code as it is. **`OrderedSpec`** leaves out one thing: between a
caller's read of `freep` (line 160) and its lock (line 166) nobody else moves.
`Spec` breaks without it (run `memory_race_grant`), and everything else is
stated about `OrderedSpec`, which is also what a caller with a lock of its own
around each call would see.

`Allocator` is what `memory.h` promises: a set of held blocks, a request that is
granted in any gap or refused when there is none, a release. The refinement
(`ImplementsAllocator`) maps the held blocks to `live` and the pending requests
to `nunits`. Searching, merging and the cursor are invisible to it.

### Ring, Ordo3: `kernel/ordo3.0`

A thread is named by its `struct ctx`, a stack by the thread it was created for.
`saved[c]` is the stack that loading `c` brings back and `run` the stack that the
processor is on. A switch that saves into the wrong context is therefore
visible as a wrong name. `ring` has both pointers of each context (`Ring` has
the three operations that the code does on them, one of them with the wrong back
link as in `sem_give`). What runs in safe mode, up to a switch, is one action.
Code that runs with the timer on is cut where a preemption makes a difference:
the two halves of a woken `receive_message` (`ReadFirst`, `UnlinkFirst`) and of
`wait` (`FreeDead`, `ClearEntry`).

| actions | code |
|---|---|
| `Timer`, `IdleYields`, `WakeSleeper`, `SwitchToNext` | the handler, `idle()`, `yield()` in three steps |
| `scheduler` (operator) | `scheduler()` and `switch_to_ctx`, with the death of a zombie |
| `Create`, `Sleep`, `Kill`, `Exit`, `wait` | `create_thread`, `sleep`, `kill`, `delete_current_thread`, `wait` |
| `NewSemaphore`, `SemTake`, `SemGive`, `Delete` | `semaphore.c`; a refused `Delete` leaks a level of inhibition as the code does |
| `NewQueue`, `SendMessage`, `ReceiveMessage` | `m_queue.c` |
| `enable_it`, `reset_it`, `Balanced` | the level `it` and the flag `irq` that a call leaves |

**`OrderedSpec`** excludes, by name: a timer between a `sem_give` that woke a
thread and the call that repairs the ring, and between the two halves named
above; a queue deleted while somebody is receiving from it; a thread killed
while it is receiving or reaping. The first two are findings with runs of their own
under `Spec`. The others are in the list of hazards. Declared assumption of both
specifications: user code deletes only semaphores that exist. `del_semaphore` reads
through the table's entry before it looks (semaphore.c:53), so it follows NULL for
one that does not; `Delete` has no such call.

### Server: the threads around `sensorsMutex`

The configuration is four lists. A list is the content it was parsed from, `None`
when empty, or `Bad` when parsing stopped inside of it. `Ends(L, S)` is what the
parser itself does when list `L` has been read and the lists are `S`: it goes on, it
exits (`setConditionName`, rules.c:145-148, over a property that the sensor does not
have, whoever sent the file) or it follows NULL (a sensor that no file has). `held[t]` are the lists
into which thread `t` has pointers at the moment. `dangling` collects the
threads and lists whose pointers go into something freed. `fresh` is a history
variable: the sensors whose last frame no walk has seen. `missed` is another: those
whose frame was walked while a load had freed the rules, so that no rule was applied.

| actions | code |
|---|---|
| `Receive`, `DecodeKnown`, `DecodeUnknown`, `Write` | `sensorsNetwork.c`, `decodeTrame` and the decoders |
| `SemWait`, `StartWalk`, `ApplyRule`, `EndWalk` | `tryCheckingRules`, `applyRules`, one rule at a time with all its conditions (`conditionOK`), `applyAction` |
| `Alarm`, `Interrupt`, `startT`, `stopT` | `timedCheck.c`; `Interrupt` is the alarm that ends `epoll_wait` |
| `Send` | the thread that writes to the gateway |
| `Command`, `Apply`, `ReadHead`, `WalkSensors`, `WalkActions`, `History`, `EndHistory` | `guiInterface.c`: command, initialise and history |
| `CommandCrashes`, `UpdateCrashes`, `HistoryCrashes` | the same where a name is not found and NULL is followed |
| `Type`, `Reload`, `NewFile` | the terminal's line, `reload`, a file from a GUI |
| `Clean`, `StartParse`, `Parse`, `EndParse`, `Done` | `cleanMemory`, `parseAll` and `reparseFiles`, `clean()`, the `mv` of the new file |
| `Edit` | somebody edits a configuration file on disk |

**`OrderedSpec`** has the order that the mutex would give if `cleanMemory` took
it and `parseFile` kept it over a mistake until `clean()` has freed what there is.
It restricts two things and nothing else: a list is freed only when nobody holds
the mutex (`Alone`), and the steps that begin with the mutex (`Locked`: a frame that
is decoded, the start of a walk, the locked part of initialise and update) wait
while lists are freed or half built (`Settled`). What takes no mutex in the code is
as free as in `Spec`: a GUI's command searches the actions (actions.c:29), its
initialise reads the head of the sensors and walks the actions (guiInterface.c:47,
117), its history searches the sensors (guiInterface.c:317), all of them also in the
middle of a load. The crashes and the alarm that leaves EINTR behind are in it as well.

`PointersLive` says that nobody follows a stale pointer. Neither specification keeps it:
a mutex in `cleanMemory` would not protect those who do not take it. `WalksLive`
says it of the sensors' and the rules' threads, and `OrderedSpec` keeps that. Without
the order `PointersLive` fails by the rules' thread alone (run `server_reload`, which
has no GUI). `TypedIsServed` fails in `server_terminal`.

### Ordo2: `kernel/ordo2.0`

Threads and stacks are named as in Ordo3 (`saved`, `run`). All lists are chained
through one `next` pointer and used from the front, so they are sequences here;
`OnePlace` says that the pointer is in one list at a time. Ids are those the code
gives, with a counter that moves twice for a thread (main 0, idle 2, the
collector 4, user threads 5, 7, ...).

| actions | code |
|---|---|
| `Timer`, `yield`, `Tick` | the handler (248-274): wakes sleepers, lets a returned function exit, switches; the clock |
| `gSleep`, `semTake`, `receiveMessage`, `exitCurrentThread`, then `Switch` or `Restore` | the blocking calls up to `enableInterrupt()`, and the switch that follows it |
| `createGThread`, `killThreadById`, `Return` | 209-237, 281-312, `mctx_creat_boot` (gThread.c:108) |
| `GcTake`, `GcPop`, `GcFree` | the three statements of `gc()` (53-58) |
| `newSemaphore` .. `SendNothing` | 385-530; a call that ends with the timer off leaves it off |
| `deleteSemaphore`, `FreeSemaphore` | the test of `inWait` (395) and the free (399), with the timer on all the while |

**`OrderedSpec`** leaves out a timer between `enableInterrupt()` and the switch,
inside line 56 of `gc()`, and between the test and the free of `deleteSemaphore`
(395-399), where the code never disables interrupts: a thread that comes to wait in
between blocks on freed memory and is in no list any more. It also leaves out a thread
that kills itself, the collector or a receiver; and a function that returns with the timer off, which would spin for
ever (gThread.c:113). The code protects ids 0, 1 and 2 ("the first three ones"), but
the third one is 4, so the collector can be killed; and `killThreadById` looks for
activable threads only, although `scheduler.h` speaks of sleeping ones as well.

### Wire, Channel: `server/src/sensorsNetwork.c`

A byte is the number of its frame and its place in it, so a stream shows where
each byte came from. `SendPart(k)` is one `send` that takes `k` bytes; what the
next one asks for is `k` again, as in line 88, and may go past the end of the
frame: such bytes have a place behind `FrameLen`. `Recv(n, junk)` is one `recv`
of `n` bytes with what `strlen` finds behind a full buffer, `Byte` one turn of the
loop of lines 54-62. `Disconnect` is a server that stops and one that starts:
sockets and buffers are new, the queue and what is in it stay.

`Channel` says what this is for: numbered messages go in and come out whole,
once each and in order, and a stop may lose the one in hand. The refinement maps
the frame being sent and the queue to what waits.

### Clients, Frames, Network: `guiNetwork.c`, `actionneurs.c`, `actions.c`

| actions | code |
|---|---|
| `Accept`, `StartRec`, `StartSend` | `guiNetworkConnexion` (175-217), where a client's first thread runs before the second exists |
| `RecvChunk`, `ParseByte`, `cleanClient` | `guiMsgRec`: `recv`, the count of brackets, the end of a client |
| `Overruns` (in `Reads`) | a `recv` that fills `buff`, or a text with no room in `traite` (guiNetwork.c:67-68, 77-88) |
| `CarriesOut` | `processCommand` step by step: a frame through `sensorsNetworkSend` or an answer through `guiNetworkSend`, each of which may block; a function that the actuator does not have is a NULL that is called (actions.c:23) |
| `TakeAnswer`, `SendAnswer` | `guiMsgSend` |
| `Stop`, `StartAgain` | the end of the server (`Ends`): wanted, by SIGPIPE, by a `recv` that fails when a GUI is gone (ECONNRESET, guiNetwork.c:81) or by a thread id that is not set yet; and its next life |

`cleanClient` runs in one of the two threads it cancels. That thread ends at
`close()`, its next cancellation point, so the rest of the function (lines 55-59,
with the unlinking and the `gFree`) is never executed: the client stays in the
list and its socket and queue stay open. The model does what the code does: a
`zombie`.

The buffers have their sizes. `ChunkLen` is that of `buff`; a `recv` that fills it leaves
no terminator for `strlen`. `TextFits(c)` says whether command `c` has room in
`traite`. Nothing in the code looks at either: at an overrun the model's server ends
(`up' = FALSE`), and nothing is claimed about what the real one does. `AnswerFits(s)`
says whether an answer is no longer than a message of its queue: `guiNetworkSend`
ignores the result of `mq_send`, so a longer one (EMSGSIZE) is dropped, as in
the model, and its GUI waits for nothing.

`Frames` has the conversions and the checksum as operators over characters, and
which names of functions each type of actuator knows; only plugs send frames.

`Network` composes the three. A plan, chosen at the start, says what the GUIs and
the gateway will do in this run; in which order they do it, and when, is open.

## 3. Runs

States are distinct states; all passing runs together take about ten minutes.

| run | specification, instance | what it shows |
|---|---|---|
| `memory` | `FairOrderedSpec`; 2 callers that forge headers, 4 units, `base` above; 248,307 states | `NoOverlap`, `HeadersIntact`, `FreeListOK` with stale and forged headers in blocks; `SumExact`; `ImplementsAllocator`, NULL only when there is no room included; `SectionsEnd`: every walk of the circle ends and frees the mutex |
| `memory_race_grant` | `Spec`; 2 callers | **violated** `GrantIsFresh`: two callers get the same memory |
| `ordo3_life` | `FairOrderedSpec`; 2 workers, sleeps of 1 and 2, `wait` from anywhere, one worker killed; 55,903 states | `ListsOK`: one ring, sorted sleepers, each thread in one place; `DeadOnce`; `KilledDies` and `SleepersWake` |
| `ordo3_ipc` | `OrderedSpec`; 3 workers, a semaphore and a queue that come and go, all killable; 391,189 states | `ListsOK`, `OwnStack`, and `CoinsExact`: no lost wake-up, no message without its coin, also when a receiver overtakes a woken one |
| `ordo3_stack` | `Spec`; 2 workers, 1 semaphore | **violated** `OwnStack`: a stack saved into another thread's context |
| `ordo3_unlink` | `Spec`; 2 workers, 1 queue | **violated** `UnlinksWhatItRead`: one message read twice, one lost |
| `server_safe` | `OrderedSpec`; 1 sensor and an unknown one, 1 GUI, 2 contents and bad files, a reload from the terminal, a queue of one; 3,364,272 states | `WalksLive`, `NotifiedOrDone`, `WalkSeesOneState`, `DiskMatches`, `OnlyDiskStops` |
| `server_live` | `FairOrderedSpec`; 1 sensor, 1 GUI that sends good and bad files, the alarm switched off and on; 78,516 states | `Evaluated`, `CommandsSent`, `LoadsEnd` |
| `server_reload` | `Spec`; no GUI, a reload from the terminal | **violated** `PointersLive` |
| `server_terminal` | `FairSpec`; no GUI | **violated** `TypedIsServed` |
| `ordo2` | `FairOrderedSpec`; main, idle, the collector, 2 user threads, a semaphore and a queue; 299,855 states | `OnePlace`, `OwnStack`, `NoLostWakeUp`; `ReadyRuns`, `SleepersWake`, `ExitedAreFreed` as long as threads turn the timer on again |
| `network` | `FairSpec`; 2 connections, frames of 3 bytes, buffers of 4, queues of 1, two lives; 224,483 states | `NothingTorn`, `DecodedInStep`, `CommandsWhole`, `CarriedOutInOrder`, `OwnAnswers`, `FramesRight`, `ImplementsChannel`, `EverythingArrives` |

`TypeOK` is checked once per component. Each property of a passing run is also
run against a broken variant of one operator, which must violate it. Examples:
a merge across a gap, a missing range test, a wake-up that leaves the thread in
the list, a removal that forgets one link, a walk without the mutex, a post for
changed values only, a bad file that is parsed as if at start.

### Bounds, and why they are enough

* **Memory.** Four units of three bytes and one byte left over (the real heap
  does not end at a unit either). The requests are 0 (one unit, the smallest
  block), 3 (two units), 6 (three units) and 14, which is more than the heap has
  (declined at once). Three blocks side by side with one unit left fit in, freed
  in any order: that is every case of merging, on either side and on both, and
  every place of the block in the circle, with `base` above it. Two callers give
  every interleaving outside of the mutex; a third could only wait for it. The
  theorems do not depend on any of this.
* **Ordo3.** Two workers beside `main` and `idle` are enough for a thread to
  die, be reaped and be created again while another one sleeps or waits; the clock
  goes to 2 so that sleepers of equal, earlier and later times queue up. Three
  workers are needed for a receiver to overtake one that was woken while a third
  sends. `MaxCoins` = 1 bounds what callers add to a semaphore or queue and
  `MaxLevel` = 2 the levels that refused deletions leak; no property depends on
  larger ones. The workers (and `Data`) are interchangeable in `ordo3_ipc`,
  which has no liveness property, so symmetry is sound there.
* **Server.** One sensor with two values makes both a changed and an unchanged
  frame. Two versions of the files whose rules differ, and files with a
  mistake, make every outcome of a load; the new rules name a property that the old
  sensors do not have (`MCEnds`), so a load also ends in the parser's own `exit()`. `MqSize` = 1 makes the queue full after
  one frame, so the walk that blocks with the mutex held is met. `MaxTokens`
  bounds the semaphore: a frame and an alarm are taken in only when there is
  `Room`, a test made before the mutex is taken, so the bound never blocks a
  holder of it. One load at a time is modelled (see section 6).
* **Ordo2.** Two user threads beside the three of the system: one can be killed
  or exit while another sleeps, waits or receives, and the collector is at work.
  One thread is created by `Init`, the other by a call. `MaxTime` = 1 lets sleepers
  queue up behind each other; two messages and one coin are what a wake-up can
  be lost over.
* **Network.** Three bytes are a first, a middle and a last one; `BuffLen` = 4 makes
  `recv` cut frames at every place and also fill the buffer; queues of one block
  after one message. A command is four bytes with an inner bracket and arrives in
  chunks of up to three, or fills the buffer of four. Seven plans: the gateway alone; a
  client, a stop and a second life; an action with a function that its plug does not
  have; a command that is too long for `traite` and an answer that is too long for its
  queue; two clients that may leave, twice; a gateway that leaves. Two ids
  with the smallest and largest sums make both ends of the checksum. Histories are
  bounded by the plans.
* The runs that end in a violation have the smallest instance that shows it.

Deadlock is checked in all runs but `network`, where plans come to their end and
nothing is left to do. A server that has exited or crashed stutters by a
disjunct of its own in `Server`; the two allocator calls that are declined are steps that
change nothing.

### Fairness, and what justifies it

* **Memory**: weak fairness of a thread's steps inside the mutex. The operating
  system schedules it; nothing else can be waited for in there.
* **Ordo3**: strong fairness of the timer, which strikes every 8 ms whatever the
  threads do but is lost when it finds itself inhibited (hw.c:22); weak fairness
  would let it be off at every strike. Strong fairness of the clock. Weak
  fairness of the kernel's own steps (`yield`'s loop, the idle thread, the rest
  of a `wait` or receive), since the processor goes on. One assumption about
  user code: a thread that was just started runs with the timer off until its first
  blocking call, and is assumed to return if it makes none (`~irq /\ Exit`).
  Nothing in the kernel enforces that, and `SleepersWake` does not hold
  without it. No user thread has to make any call.
* **Server**: weak fairness of what a thread can always do. Strong fairness where
  others can take turns with it: taking the mutex, a place in the queue, and in
  `OrderedSpec` freeing lists, which waits for the mutex, and what begins with the
  mutex, which waits for loads. Nobody has to send frames, type, edit or ask, and who
  walks a list for a GUI may stop there; only `server_terminal` counts on lines that
  can be served being served. No alarm is counted on, with one exception that
  `Evaluated` names: a frame that was walked while a load had freed the rules
  (`missed`) is made up for at the next alarm only, so that part has the premise that
  the alarm rings again and again while it is on.
* **Ordo2**: strong fairness of the timer and of the collector's first and last
  step, which the timer takes turns with; weak fairness of a switch and of the
  clock. The three properties have a premise, `[]<>itEnabled`: a call that finds
  a coin, or sends nothing, leaves the timer off (lines 417-420, 498-501), and the
  kernel depends on the thread that did it to turn it on again. No user thread has to
  make any call.
* **Network**: weak fairness of each thread of the server, since `send` takes at
  least a byte and `recv` returns what is there; strong fairness of `CarriesOut`,
  which waits with others for a place in a queue. GUIs, gateway and whoever
  stops and starts the server need not do anything. `EverythingArrives` is about
  the times at which the server runs and the gateway is there: a full queue stays full
  otherwise.

## 4. Theorems

Proved with TLAPS for all values of the constants that satisfy the modules'
named assumptions, which TLC evaluates in every run of the module:

* `MemoryAssumption`, `WireAssumption`: sizes are numbers, and positive where the C
  constants are; the heap ends within a unit, and `base` lies outside of it.
* `ServerAssumption`: the names of the threads are different, and none is that of a list;
  what the parser does over a file (`Ends`) is one of three things, any of them.
* `Ordo3Assumption`: finitely many threads, `main` and `idle` among them and never
  killed; `NULL` is none of the names, and a semaphore is not a queue. That user code deletes only semaphores
  that exist is part of the specification (`Delete`) and not of this formula.
* `Ordo2Assumption`: room for at least one user thread beside the three of the
  kernel, and for a coin; `NULL` is neither an id nor a queue.
* `ClientsAssumption`, `BracketsClose`: connections are numbered from 0, and what
  a GUI sends as a command is a text whose brackets are closed by the last of its
  bytes and by none before. Nothing is assumed about the form of the text besides
  that. Which texts fit `traite` and which answers fit a message is any predicate
  (`TextFits`, `AnswerFits`).
* `PlansAssumption`: every life of the server has finitely many commands, and a step
  of a command knows which command it belongs to and its place there (`StepsOf`, what
  the runs give for `Steps`, makes them so).

| theorem | says |
|---|---|
| `MemoryTypeOK` | `OrderedSpec => []TypeOK`: no walk leaves the heap or the list |
| `MemoryNoOverlap` | held blocks are disjoint and within the heap |
| `MemoryHeadersIntact` | headers of held blocks are intact, and `gFree` accepts every one of them |
| `MemoryFreeListOK` | the free list is one sorted circle of merged chunks that covers what is not held |
| `MemorySumExact` | `OrderedSpec => SumExact`: what `getGMemFree` returns is what is free while it holds the mutex, for a list of any length |
| `MemoryImplementsAllocator` | `OrderedSpec => ImplementsAllocator`: `gMalloc` grants from what is free, `gFree` gives back the block it was called for, and NULL is returned only when no gap is large enough |
| `Ordo3Proofs`: `TypesKept`, `ProcessorOnItsStack`, `ListsKept`, `NoWakeUpIsLost`, `DeathsAnnouncedOnce` | `OrderedSpec` of kernel 3.0 implies `TypeOK`, `OwnStack`, `ListsOK`, `CoinsExact`, `DeadOnce`, with any number of threads, semaphores and queues. `TypeOK` includes that no stack is loaded that nobody saved; it is not about `del_semaphore` of a semaphore that does not exist |
| `Ordo2Proofs`: `TypesKept`, `EveryThreadHasOnePlace`, `ProcessorOnItsStack`, `NoWakeUpIsLost` | `OrderedSpec` of kernel 2.0 implies `TypeOK`, `OnePlace`, `OwnStack`, `NoLostWakeUp`, as long as the timer keeps out of the windows named above, that of `deleteSemaphore` among them |
| `TypeCorrect` | `Spec => []TypeOK` of the server, the queue's limit included |
| `FramesNoticed` | `Spec => []NotifiedOrDone`: in every run, ordered or not, no frame is forgotten |
| `MemoryMatchesDisk` | `Spec => []DiskMatches`: outside of a load the lists are those of the files |
| `GuiGrammarStopsNothing` | `Spec => []OnlyDiskStops`: a mistake in the grammar of a GUI's file does not stop the server; a file in good grammar over which the parser exits does, a GUI's as well |
| `WalksAreAtomic` | `OrderedSpec => WalkSeesOneState`, if `cleanMemory` takes the mutex |
| `NoStalePointers` | `OrderedSpec => []WalksLive`: if `cleanMemory` takes the mutex and `parseFile` keeps it over a mistake, the sensors' and the rules' threads follow no stale pointer, whatever the GUIs' threads do without the mutex; of those it says nothing |
| `WireTypes` | `WireSpec => []WireTypeOK` |
| `WireImplementsChannel` | `WireSpec => ImplementsChannel`: whatever `send` takes, and across restarts |
| `NetworkTypesKept` | `Spec => []TypeOK` of the whole network |
| `NetworkImplementsChannel`, `NetworkTearsNothing`, `NetworkDecodesInStep` | `Spec` of the whole network implies `ImplementsChannel`, `[]NothingTorn`, `[]DecodedInStep` |
| `CommandsStayWhole` | `Spec => []CommandsWhole`: however `recv` cuts the stream, what is handed to `processCommand` are the commands that the GUI sent, in order, until a `recv` fills `buff` or a text is too long for `traite`: there the model ends |
| `FramesInOrder` | `Spec => []CarriedOutInOrder`: of each GUI the frames enter the queue in the order of its commands, each once, none left out |
| `AnswersInOrder` | `Spec => []OwnAnswers`: each GUI gets the answers to its own commands, each once, in their order; while it stays none is lost that fits a message of its queue |

**Memory.** The free list is not a variable. It is the set of chunks that `ptr`
links, and the invariant says that such a set exists (`FreeListOK`). That is
inductive only together with where each walk stands: `IInv` adds who holds the
mutex and what was read before (`LockInv`), that a block being freed is held and
freed by one call only (`FreeInv`), and that each walk is at a member of the list
and `prevp` right before `p` (`WalkInv` inside `ListInv`). Two lemmas carry
the proof: a chunk linked in behind its predecessor leaves one sorted circle
(`InsertCircle`), and so does unlinking one (`RemoveCircle`). One lemma per
action follows; `FreeInsert`, with merges on both sides, is by far the longest. The
arithmetic of bytes is used at one place: the pointer behind any header passes
`gFree`'s range test, for the heap does not end at a unit's end.

What a walk has found out so far is in `WInv`, which adds two parts to `IInv`:
`SeenInv` says which chunks a walk has passed, going round from where it
started, that `gMalloc` found each of them too small (`Refused`), and that the sum
of `getGMemFree` is the number of units in them (`Summed`, a cardinality of a set
of units); `IdleInv` that a caller outside of a call asks for nothing. No induction
over the list is needed, for each turn of a loop adds one chunk to those passed
(`OneChunkMore`). When the walk is round, all chunks have been passed. Since they
are merged (`Coalesced`) and cover what is not held (`Covers`), a gap that is large
enough would lie in one of them (`NoRoom`), so NULL is `Allocator`'s `Refuse`. A
block that is granted is cut from a free chunk (`TakenIsFree`), which makes
`MallocExact` and `MallocCut` a `Grant`. The rest of the step simulation
(`MemoryStepSimulates`) are stutters.

**Kernel 3.0.** `scheduler()` goes through several states in one step: it wakes
sleepers, moves on, kills and buries what it meets, and starts over. So the parts of
the invariant are operators over values (the members of the ring, the sleepers,
the stores, the places of the threads), and the lemmas about one state on the way
can be used for each of them. `Loop` says that who follows `next` from a thread
meets all of the ring. The ring may have one wrong back link, the one that
`sem_give` leaves until the giver goes on, so `Loop` is kept of the ring as it is
after that repair (`Repaired`). `PlacesGood` says that a thread is in one list,
once, and where in its call a thread in each list stands; `CoinsGood` that a queue
has as many messages as coins and woken receivers together (`Rec`); `DeadGood` that
each dead thread is either in the queue of `wait()` or known to one waiter;
`StacksGood` that the context of every thread off the processor brings its
own stack back; `IdleGood` that `idle()` is never blocked or killed, so the ring
is never empty; `BusyInv` that the code the timer may not interrupt is run by the
current thread.

**Kernel 2.0.** All lists share one `next` pointer. `OnceInv` and `ApartInv` say that
no list holds a thread twice and no two lists share one, `FreesInv` that a thread
that was created is in a list or freed, once, `AtInv`, `RunInv` and `GcInv` what a
thread in each list is doing, and who may be between two lists at the moment.
`StackInv` is about the stacks, `IdsInv` about ids that have not been given yet.
Behind `NoLostWakeUp` stands `WaitInv`: as long as threads wait for a queue, each of
its messages is spoken for by a receiver that was woken and has not taken it.

**Lists.** `ListFacts` has what both kernels and the command parser need to know about
lists: what `Append`, `Head`, `Tail`, a concatenation and a removal do to the members,
to the number of occurrences and to `Once`, and that a non-empty set of numbers has
a least one.

**Server.** `TypeOK` and `NotifiedOrDone` are inductive for all of `Spec` with what
the mutex's holder is doing (`LockInv`), and that a frame, a command or a load
under way has its data (`FrameInv`, `AskInv`, `LoadInv`). `WalkSeesOneState`
follows from `LockInv` and the guards. `WalksLive` needs to know
that the two threads have pointers only while they hold the mutex, and none into
what is half built (`HeldInv`), how far a load has freed them (`FreedInv`: only the rules outlive
what they point to, and only for one step), and where a half built list can be
(`BadInv`). `DiskMatches` and `OnlyDiskStops` need how far a load has got with
which file: what was parsed so far is what is on the disk, or somebody has edited
it since, or the load began from the file of a GUI, which is only moved into its
place when it is good. An exit of the parser itself (`Ends`) is a stop of its own in
`OnlyDiskStops`.

**Wire and Network.** The refinement is a step simulation: `TakeFrame` and a
partial send are stutters of `Channel`, the last send is `GiveOut`, a stop is `Lose`
or a stutter. `NothingTorn` is about pairs of neighbours in `out`; it is inductive
with the place where the stream stands (`OrderInv`): the last byte sent is the one before
the next of the frame in hand, frames in hand and in the queue are newer than it,
and older than what comes. `DecodedInStep` needs the whole way of a byte:
`StreamInv` says that what was decoded, what is collected, the buffer and the pipe
together are the gateway's bytes without a gap. `NetworkProofs` shows that every
action of `Network` is a step of `Wire` or leaves its variables alone, and gets the
rest from there.

**Clients.** `CommandsWhole` needs what `guiMsgRec` has read and counted. The bytes
collected, those that `recv` returned and those that wait are, place by place, what
is left of the commands the GUI has said (`Waits`); what is collected is the beginning
of the next one, and the count of open brackets is the depth at that place
(`BracketsClose` has a depth for each). So the count is 0 again at the end of a
command and nowhere else (`CutByte`), wherever the stream was cut. `NetworkInv` puts
this together with the invariants of `Wire` and with what `TypeOK` needs to
know about what was recorded (`Recorded`, `WireBounds`).

`CarriedOutInOrder` and `OwnAnswers` say two things of what was done (the frames in
`carried`, the answers in the queue, in hand and received) and of what is left in
`todo`: together they are ordered (`Precedes`: by life, by command, by place), and as
a set they are what the commands handed on so far are to do (`StepsDue`). Ordered and
the right set is each one once and in order. `InStep` states this of one client, over values
instead of variables, with the bound that keeps it: what was done belongs to the commands
handed on so far (`Past`), what is left to the last of them (`Ahead`). Each thing a step does
to one client is then one lemma (`StepSaid`, `StepBegins`, `StepFrame`, `StepAnswer`,
`StepTaken`, `StepSent`, `StepLost`, `StepAgain`); a frame of another client is
behind everything of its own client and comparable to nothing of this one (`StepBeside`).
That what is handed on is the next command said, so that the lists of steps are known,
comes from `CutByte`.

**What is only model-checked.** Liveness (`SectionsEnd`, `KilledDies`,
`SleepersWake`, `Evaluated`, `CommandsSent`, `LoadsEnd`, `ReadyRuns`,
`ExitedAreFreed`, `EverythingArrives`): fairness and `ENABLED`
are out of the prover's reach. `FramesRight`: what the conversions compute from
a string of digits is an induction over data.

## 5. What the models found in the code

1. `gMalloc` reads `freep` before it takes the mutex (memory.c:160): two
   threads can be granted the same memory. Run `memory_race_grant`.
2. `sem_give` chains the woken thread with the wrong back link
   (semaphore.c:149). A timer strike before the giver blocks saves its stack into
   another thread's context. Run `ordo3_stack`.
3. A receiver that blocked runs the rest of `receive_message` outside safe mode
   (m_queue.c:61): two receivers take one message. Run `ordo3_unlink`.
4. `cleanMemory` frees the lists without the mutex (init.c:53). Run
   `server_reload`.
5. The terminal's loop tests `errno` without the result of `epoll_wait`
   (main.c:44): after the first alarm that interrupts it no line is served. Run
   `server_terminal`.

What the modelling showed without a run of its own, because no comment of the
code says otherwise or because `OrderedSpec` excludes it: with two killable threads a
killed one of kernel 3.0 can live on behind dying ones (scheduler.c:239); kernel
2.0 may switch from a thread that has already left the list (scheduler.c:352) and
its collector can be killed (scheduler.c:288); after a partial send the server
may send memory behind a frame (sensorsNetwork.c:88); a full receive buffer has
no terminator (sensorsNetwork.c:54, guiNetwork.c:87) and `traite` no limit
(guiNetwork.c:88); a long answer is lost silently (guiInterface.c:131, 226, 355, 452, 518);
a GUI's rules file that names a property its sensor does not have ends the server
(rules.c:147), although guiInterface.c:457 says "Check new configuration file and replace if
valid"; a GUI's history, initialise and command walk lists without the mutex while a load frees them
(guiInterface.c:47, 117, 317, actions.c:29); kernel 2.0 frees a semaphore that a thread came to wait for after
the test (scheduler.c:395-399); kernel 3.0 follows NULL when a semaphore is deleted that does not exist
(semaphore.c:53); `cleanClient` does not get past `close()`
(guiNetwork.c:54); the answers an earlier life of the server left in a queue go to the
next client with the same number (guiNetwork.c:208). Read and not modelled: the presence
sensor's bit is tested in the character of the digit, shifted, and against the
character `'1'` (sensors.c:64-69), which only the lower-case digits `b` and `c` pass,
so with a gateway that writes capitals the sensor always says 1; a clock condition
becomes a moment of the day the rules are loaded (rules.y:531-538) and answers the
same from the next midnight on.

## 6. Not modelled, and the plan

Left out on purpose: what a block contains beyond a forged header; a second `gFree` of
the same block; what the server does behind an overrun buffer; its exits with "No Memory"
(rules.y:411, 441, 465 and others); `del_semaphore` of a semaphore of kernel 3.0 that does not exist; ids and
tables of 256 entries in kernel 3.0; logging and what the history answers with; JSON; the
grammar (a file is good or bad); the time of day (a clock condition in a rule may answer
either); in `Server`, that an action is several frames, as in `Network`; the decoders' bit arithmetic; virtual keys
and the processes of the scripted action (actionneurs.c:592-638), whose statics
several threads share; the links of the list of clients, which only the end of the
server walks, and `destroy` itself, which cancels threads inside of locks and calls
whose state then is undefined; kernel 1, which kernel 2.0 contains; log viewers,
vendored headers, demo programs.

The order was: the allocator, which everything in the server stands on; kernel
3.0, the current one and the most concurrent code; the server's threads; kernel 2.0;
the connections; and then the proofs, in the same order. What would come next:

1. **Server**: two loads at once, from a GUI and from the terminal.
