-------------------------------- MODULE Server --------------------------------
(***************************************************************************)
(* The server around sensorsMutex: the thread that receives the sensors'   *)
(* frames (sensorsNetwork.c, sensors.c), the one that applies the rules    *)
(* (initCheckRules.c, rules.c, actions.c), the alarm (timedCheck.c), the   *)
(* one that sends frames to the actuators, the GUI clients' commands       *)
(* (guiInterface.c) and the two ways to load the configuration again, from *)
(* the terminal (main.c) and from a GUI (parse/rules.y).                   *)
(*                                                                         *)
(* The configuration is four linked lists; a list is what file it was      *)
(* parsed from, None when it is empty, and Bad when parsing stopped half   *)
(* way.  Pointers are followed by name: dangling holds the threads and the *)
(* lists that keep a pointer into a list that has been freed.  A server    *)
(* that follows a NULL pointer has crashed; one that follows a stale one   *)
(* goes on, and nothing is claimed of what it does then.                   *)
(***************************************************************************)
EXTENDS Integers, Sequences

CONSTANTS
    Rec, Rul, Main,    \* the threads of the sensors, the rules, the terminal
    Guis,              \* the receiving threads of the GUI clients
    Sensors, Aliens,   \* ids in the file of sensors, and others on the air
    Values,            \* what a sensor can say; 0 is what it starts with
    Contents, Bad,     \* what a file can hold: valid contents, or a mistake
    Rules(_),          \* the rules in a file of rules
    Ends(_, _),        \* what the parser does over names that do not fit
    Commands,          \* the frames that the actions send
    Editable, Sendable, \* the lists whose files are changed on disk, by GUIs
    Lines,             \* what is typed on the terminal
    MaxTokens, MqSize, \* bounds: coins in checkRules; the queue's own size
    None

\* A condition compares what a sensor says, or the clock whatever the sensor.
Tests == {"=", ">=", "<=", ">", "<", "before", "after"}
Condition == [sensor : Sensors, test : Tests, than : Values]
Rule == [when : SUBSET Condition, do : Commands]

Lists == {"sensors", "actuators", "actions", "rules"}
Threads == {Rec, Rul, Main} \cup Guis

ASSUME ServerAssumption ==
    /\ Rec # Rul /\ Rec # Main /\ Rul # Main /\ {Rec, Rul, Main} \cap Guis = {}
    /\ Threads \cap Lists = {}
    /\ Sensors \cap Aliens = {} /\ 0 \in Values /\ Values \subseteq Int
    /\ Bad \notin Contents /\ None \notin Contents \cup {Bad} \cup Threads \cup Lists
    /\ \A c \in Contents : Rules(c) \in Seq(Rule)
    /\ \A L \in Lists, S \in [Lists -> Contents \cup {Bad, None}] :
          Ends(L, S) \in {"up", "exited", "crashed"}
    /\ Editable \cup Sendable \subseteq Lists /\ Lines \subseteq {"launchT", "stopT", "reload"}
    /\ MaxTokens \in Nat /\ MqSize \in Nat \ {0}

\* cleanMemory and parseAll, in their order; and which list points to which.
CleanOrder == <<"actions", "rules", "actuators", "sensors">>
ParseOrder == <<"sensors", "actuators", "actions", "rules">>
PointsTo == [sensors |-> {}, actuators |-> {}, actions |-> {"actuators"},
             rules |-> {"sensors", "actions"}]

VARIABLES
    up,        \* "up", "exited" or "crashed" (a NULL pointer was followed)
    lock,      \* who holds sensorsMutex
    lists,     \* the configuration in memory
    dangling,
    value,     \* of each sensor
    tokens,    \* the semaphore checkRules
    fresh,     \* history: the sensors with a frame since the last walk began
    missed,    \* history: those whose frame was walked with no rules to apply
    pc,        \* of each thread
    held,      \* the lists into which a thread holds pointers
    frame,     \* what the sensors' thread received last
    next,      \* the rule that applyRules is at
    ask,       \* the command a GUI thread is to send
    mq,        \* the queue /SensorsMsgSend
    alarm,     \* "on", "last" (it rings once more, for nothing) or "off"
    typed,     \* the line that waits on the terminal
    eintr,     \* errno of the terminal's thread is EINTR
    file,      \* the files on disk
    edited,    \* those that were changed since they were parsed
    reload     \* the load under way

config == <<lists, dangling, file, edited, reload>>
terminal == <<alarm, typed, eintr>>
vars == <<up, lock, lists, dangling, value, tokens, fresh, missed, pc, held, frame, next, ask, mq,
          alarm, typed, eintr, file, edited, reload>>

\* A load: who, what it does, at which list, what for, the GUI's file.
LoadStates ==
    [by : Threads \cup {None}, does : {"nothing", "clean", "parse", "done"}, at : 1..5,
     goal : {"all", "reparse", "exit"}, new : Lists \cup {None},
     content : Contents \cup {Bad, None}, ok : BOOLEAN, init : BOOLEAN]
NoReload == [by |-> None, does |-> "nothing", at |-> 1, goal |-> "all", new |-> None,
             content |-> None, ok |-> TRUE, init |-> TRUE]

Init ==
    /\ up = "up" /\ lock = None
    /\ \E c \in Contents : file = [L \in Lists |-> c]
    /\ \A L \in Lists : Ends(L, file) = "up"
    /\ lists = file /\ dangling = {}
    /\ value = [s \in Sensors |-> 0] /\ tokens = 0 /\ fresh = {} /\ missed = {}
    /\ pc = [t \in Threads |-> "idle"] /\ held = [t \in Threads |-> {}]
    /\ frame = None /\ next = 1 /\ ask = [g \in Guis |-> None]
    /\ mq = <<>> /\ alarm = "on" /\ typed = None /\ eintr = FALSE
    /\ edited = {} /\ reload = NoReload

Go(t, from, to) == up = "up" /\ pc[t] = from /\ pc' = [pc EXCEPT ![t] = to]

\* t follows pointers into those of the lists in S that are not empty; they
\* may be stale already.
Hold(t, S) ==
    LET live == {L \in S : lists[L] # None}
    IN  /\ held' = [held EXCEPT ![t] = live]
        /\ dangling' = dangling \cup (IF live \cap dangling # {} THEN {t} ELSE {})
Drop(t) == held' = [held EXCEPT ![t] = {}]

-----------------------------------------------------------------------------
(* The thread of the sensors: sensorsMsgRec and decodeTrame.                *)

\* The bound MaxTokens, such that nobody waits for it with the mutex.
Room == tokens + (IF pc[Rec] = "idle" THEN 0 ELSE 1) < MaxTokens

Receive ==
    /\ Go(Rec, "idle", "decode") /\ Room
    /\ frame' \in [id : Sensors, says : Values] \cup [id : Aliens, says : {0}]
    /\ UNCHANGED <<up, lock, value, tokens, fresh, missed, held, next, ask, mq, terminal, config>>

\* Mutant: the list of sensors is not protected.
LockIsIgnored(t) == UNCHANGED lock
Lock(t) == lock = None /\ lock' = t
\* Mutant: the mutex is kept.
KeepsLock == UNCHANGED lock
Unlock == lock' = None

Known == lists["sensors"] # None /\ frame.id \in Sensors

DecodeKnown ==
    /\ Go(Rec, "decode", "write") /\ Known
    /\ Lock(Rec)
    /\ Hold(Rec, {"sensors"})
    /\ UNCHANGED <<up, lists, value, tokens, fresh, missed, frame, next, ask, mq, terminal, file, edited, reload>>

DecodeUnknown ==
    /\ Go(Rec, "decode", "idle") /\ ~Known /\ lock = None
    /\ frame' = None
    /\ UNCHANGED <<up, lock, value, tokens, fresh, missed, held, next, ask, mq, terminal, config>>

\* Mutant: a frame with the value that is known already is not posted.
PostChange == IF value[frame.id] = frame.says THEN tokens ELSE tokens + 1
Post == tokens + 1

\* The sensor's decode function, then sem_post, then the unlock.
Write ==
    /\ Go(Rec, "write", "idle")
    /\ value' = [value EXCEPT ![frame.id] = frame.says]
    /\ fresh' = fresh \cup {frame.id}
    /\ tokens' = Post
    /\ frame' = None
    /\ Unlock /\ Drop(Rec)
    /\ UNCHANGED <<up, missed, next, ask, mq, terminal, config>>

-----------------------------------------------------------------------------
(* The rules: tryCheckingRules and applyRules; the alarm.                   *)

SemWait ==
    /\ Go(Rul, "idle", "woken") /\ tokens > 0
    /\ tokens' = tokens - 1
    /\ UNCHANGED <<up, lock, value, fresh, missed, held, frame, next, ask, mq, terminal, config>>

\* A walk looks at every frame so far, unless a load has freed the rules and
\* not read the new ones.
StartWalk ==
    /\ Go(Rul, "woken", "walk")
    /\ Lock(Rul)
    /\ fresh' = {}
    /\ missed' = IF lists["rules"] \in Contents THEN {} ELSE missed \cup fresh
    /\ IF lists["rules"] = None THEN Drop(Rul) /\ UNCHANGED dangling ELSE Hold(Rul, Lists)
    /\ UNCHANGED <<up, lists, value, tokens, frame, next, ask, mq, terminal, file, edited, reload>>

\* The rules that the walk sees; a list that was freed or half parsed under
\* it has none that the model can name.
Walked == IF lists["rules"] \in Contents THEN Rules(lists["rules"]) ELSE <<>>

\* Mutants: one frame more, and one less, than the queue holds.
FullTooLate == Len(mq) > MqSize
FullTooSoon == Len(mq) >= MqSize - 1
Full == Len(mq) >= MqSize
mq_send(f) == ~Full /\ mq' = Append(mq, f)

\* What conditionOK may answer: any time of the day is as good as another.
conditionOK(c) ==
    LET v == value[c.sensor]
    IN  CASE c.test = "="  -> {v = c.than}
          [] c.test = ">=" -> {v >= c.than}
          [] c.test = "<=" -> {v <= c.than}
          [] c.test = ">"  -> {v > c.than}
          [] c.test = "<"  -> {v < c.than}
          [] c.test \in {"before", "after"} -> BOOLEAN

\* A rule whose conditions all hold sends its frame; mq_send blocks when the
\* queue is full, with the mutex held.
ApplyRule ==
    /\ up = "up" /\ pc[Rul] = "walk" /\ next <= Len(Walked)
    /\ LET r == Walked[next]
       IN  \/ (\E c \in r.when : FALSE \in conditionOK(c)) /\ UNCHANGED mq
           \/ (\A c \in r.when : TRUE \in conditionOK(c)) /\ mq_send(r.do)
    /\ next' = next + 1
    /\ UNCHANGED <<up, lock, value, tokens, fresh, missed, pc, held, frame, ask, terminal, config>>

EndWalk ==
    /\ Go(Rul, "walk", "idle") /\ next > Len(Walked)
    /\ Unlock /\ Drop(Rul) /\ next' = 1
    /\ UNCHANGED <<up, value, tokens, fresh, missed, frame, ask, mq, terminal, config>>

\* catchedAlarm posts and sets the alarm again; catchedAlarmDone, the handler
\* after stopTimedCheck, does neither.
Ring ==
    /\ up = "up" /\ alarm # "off" /\ Room
    /\ tokens' = IF alarm = "on" THEN tokens + 1 ELSE tokens
    /\ alarm' = IF alarm = "on" THEN "on" ELSE "off"
    /\ UNCHANGED <<up, lock, value, fresh, missed, pc, held, frame, next, ask, mq, typed, config>>

\* The signal is taken by whatever thread; the calls they wait in go on, but
\* for epoll_wait, which the terminal's thread makes.
Alarm == Ring /\ UNCHANGED eintr
Interrupt == Ring /\ pc[Main] = "idle" /\ typed = None /\ eintr' = TRUE

\* sensorsMsgSend takes the oldest frame of the queue to the gateway.
Send ==
    /\ up = "up" /\ mq # <<>> /\ mq' = Tail(mq)
    /\ UNCHANGED <<up, lock, value, tokens, fresh, missed, pc, held, frame, next, ask, terminal, config>>

-----------------------------------------------------------------------------
(* A GUI's command: applyActionByName, without the mutex.                   *)

Command(g, c) ==
    /\ Go(g, "idle", "apply") /\ lists["actions"] # None
    /\ Hold(g, {"actions", "actuators"})
    /\ ask' = [ask EXCEPT ![g] = c]
    /\ UNCHANGED <<up, lock, lists, value, tokens, fresh, missed, frame, next, mq, terminal, file, edited, reload>>

\* getAction finds nothing, and applyAction reads from NULL.
CommandCrashes(g) ==
    /\ up = "up" /\ pc[g] = "idle" /\ lists["actions"] \notin Contents
    /\ up' = "crashed"
    /\ UNCHANGED <<lock, value, tokens, fresh, missed, pc, held, frame, next, ask, mq, terminal, config>>

Apply(g) ==
    /\ Go(g, "apply", "idle")
    /\ mq_send(ask[g])
    /\ ask' = [ask EXCEPT ![g] = None]
    /\ Drop(g)
    /\ UNCHANGED <<up, lock, value, tokens, fresh, missed, frame, next, terminal, config>>

-----------------------------------------------------------------------------
(* A GUI asks for the lists: processTypeInitialise reads the head of the    *)
(* sensors, takes the mutex, walks them, and then the actions without it.   *)

ReadHead(g) ==
    /\ Go(g, "idle", "sensors")
    /\ Hold(g, {"sensors"})
    /\ UNCHANGED <<up, lock, lists, value, tokens, fresh, missed, frame, next, ask, mq, terminal, file, edited, reload>>

WalkSensors(g) ==
    /\ Go(g, "sensors", "actions") /\ lock = None
    /\ Hold(g, {"actions"})
    /\ UNCHANGED <<up, lock, lists, value, tokens, fresh, missed, frame, next, ask, mq, terminal, file, edited, reload>>

WalkActions(g) ==
    /\ Go(g, "actions", "idle") /\ Drop(g)
    /\ UNCHANGED <<up, lock, value, tokens, fresh, missed, frame, next, ask, mq, terminal, config>>

\* processTypeHistory: for each line of the log the sensor is searched, without
\* the mutex.
History(g) ==
    /\ Go(g, "idle", "history")
    /\ Hold(g, {"sensors"})
    /\ UNCHANGED <<up, lock, lists, value, tokens, fresh, missed, frame, next, ask, mq, terminal, file, edited, reload>>

EndHistory(g) ==
    /\ Go(g, "history", "idle") /\ Drop(g)
    /\ UNCHANGED <<up, lock, value, tokens, fresh, missed, frame, next, ask, mq, terminal, config>>

\* processTypeUpdate and processTypeHistory: a sensor that is not found is read
\* all the same.
Missing == lists["sensors"] \notin Contents \/ Aliens # {}

UpdateCrashes(g) ==
    /\ up = "up" /\ pc[g] = "idle" /\ lock = None /\ Missing
    /\ up' = "crashed" /\ lock' = g
    /\ UNCHANGED <<value, tokens, fresh, missed, pc, held, frame, next, ask, mq, terminal, config>>

HistoryCrashes(g) ==
    /\ up = "up" /\ pc[g] = "idle" /\ Missing
    /\ up' = "crashed"
    /\ UNCHANGED <<lock, value, tokens, fresh, missed, pc, held, frame, next, ask, mq, terminal, config>>

-----------------------------------------------------------------------------
(* The terminal: main's loop.  It comes back to epoll_wait for as long as   *)
(* errno is EINTR, and nothing clears errno.                                *)

Type(line) ==
    /\ up = "up" /\ typed = None /\ typed' = line
    /\ UNCHANGED <<up, lock, value, tokens, fresh, missed, pc, held, frame, next, ask, mq, alarm, eintr, config>>

Serve(line, to) ==
    /\ Go(Main, "idle", to) /\ ~eintr /\ typed = line /\ typed' = None

startT ==
    /\ Serve("launchT", "idle") /\ alarm' = "on"
    /\ UNCHANGED <<up, lock, value, tokens, fresh, missed, held, frame, next, ask, mq, eintr, config>>

stopT ==
    /\ Serve("stopT", "idle") /\ alarm' = IF alarm = "on" THEN "last" ELSE alarm
    /\ UNCHANGED <<up, lock, value, tokens, fresh, missed, held, frame, next, ask, mq, eintr, config>>

-----------------------------------------------------------------------------
(* Loading the configuration again.  Only one load at a time is modelled.   *)

\* Somebody edits a file.
Edit(L, c) ==
    /\ up = "up" /\ file[L] # c
    /\ file' = [file EXCEPT ![L] = c] /\ edited' = edited \cup {L}
    /\ UNCHANGED <<up, lock, lists, dangling, value, tokens, fresh, missed, pc, held, frame, next, ask, mq, terminal, reload>>

\* "reload" in the terminal: cleanMemory, parseAll.
Reload ==
    /\ Serve("reload", "load") /\ reload = NoReload
    /\ reload' = [NoReload EXCEPT !.by = Main, !.does = "clean"]
    /\ UNCHANGED <<up, lock, lists, dangling, value, tokens, fresh, missed, held, frame, next, ask, mq, alarm, eintr, file, edited>>

\* A GUI sends the new file c for L: processTypeEData, reparseFiles.
NewFile(g, L, c) ==
    /\ Go(g, "idle", "load") /\ reload = NoReload
    /\ reload' = [NoReload EXCEPT !.by = g, !.does = "clean", !.goal = "reparse",
                                  !.new = L, !.content = c]
    /\ UNCHANGED <<up, lock, lists, dangling, value, tokens, fresh, missed, held, frame, next, ask, mq, terminal, file, edited>>

\* One list of cleanMemory is freed, whoever points into it.
Clean ==
    /\ up = "up" /\ reload.does = "clean" /\ reload.at <= 4
    /\ LET L == CleanOrder[reload.at]
       IN  /\ lists' = [lists EXCEPT ![L] = None]
           /\ dangling' = (dangling \ {L})
                 \cup {M \in Lists \ {L} : lists[M] # None /\ L \in PointsTo[M]}
                 \cup {t \in Threads : L \in held[t]}
    /\ reload' = [reload EXCEPT !.at = @ + 1]
    /\ UNCHANGED <<up, lock, value, tokens, fresh, missed, pc, held, frame, next, ask, mq, terminal, file, edited>>

\* Mutant: a file that a GUI sends is parsed as if the server started.
AlwaysInit == TRUE
IsInit == reload.goal # "reparse"

\* After cleanMemory: the files are parsed, or clean() exits.
StartParse ==
    /\ up = "up" /\ reload.does = "clean" /\ reload.at > 4
    /\ IF reload.goal = "exit"
       THEN up' = "exited" /\ UNCHANGED reload
       ELSE /\ reload' = [reload EXCEPT !.does = "parse", !.at = 1, !.ok = TRUE, !.init = IsInit]
            /\ UNCHANGED up
    /\ UNCHANGED <<lock, lists, dangling, value, tokens, fresh, missed, pc, held, frame, next, ask, mq, terminal, file, edited>>

\* parseFile, under the mutex: the sensors start at 0 again.  The parser itself
\* exits over a rule that names a property its sensor does not have, and crashes
\* over a sensor that no file has; there is always memory left.
Parse ==
    /\ up = "up" /\ reload.does = "parse" /\ reload.at <= 4 /\ reload.ok
    /\ lock = None
    /\ LET L == ParseOrder[reload.at]
           c == IF reload.goal = "reparse" /\ L = reload.new THEN reload.content ELSE file[L]
       IN  /\ lists' = [lists EXCEPT ![L] = c]
           /\ up' = Ends(L, lists')
           /\ reload' = [reload EXCEPT !.at = @ + 1, !.ok = c # Bad]
           /\ edited' = IF c = file[L] THEN edited \ {L} ELSE edited
           /\ value' = IF L = "sensors" THEN [s \in Sensors |-> 0] ELSE value
           /\ fresh' = IF L = "sensors" THEN {} ELSE fresh
           /\ missed' = IF L = "sensors" THEN {} ELSE missed
    /\ UNCHANGED <<lock, dangling, tokens, pc, held, frame, next, ask, mq, terminal, file>>

\* Mutant: clean() does not load the files on disk again.
NoFallback == [NoReload EXCEPT !.by = reload.by, !.does = "done"]
\* Mutant: clean() loads the GUI's file again.
SameAgain == [reload EXCEPT !.does = "clean", !.at = 1]
\* clean(): the rest of a failed load; a GUI's load falls back to parseAll.
Fallback == [NoReload EXCEPT !.by = reload.by, !.does = "clean",
                             !.goal = IF reload.init THEN "exit" ELSE "all"]

EndParse ==
    /\ up = "up" /\ reload.does = "parse" /\ (reload.at > 4 \/ ~reload.ok)
    /\ reload' = IF reload.ok THEN [reload EXCEPT !.does = "done"] ELSE Fallback
    /\ UNCHANGED <<up, lock, lists, dangling, value, tokens, fresh, missed, pc, held, frame, next, ask, mq, terminal, file, edited>>

\* A GUI's file that was parsed takes the place of the old one (mv).
Done ==
    /\ up = "up" /\ reload.does = "done"
    /\ file' = IF reload.goal = "reparse" THEN [file EXCEPT ![reload.new] = reload.content] ELSE file
    /\ edited' = IF reload.goal = "reparse" THEN edited \ {reload.new} ELSE edited
    /\ pc' = [pc EXCEPT ![reload.by] = "idle"]
    /\ reload' = NoReload
    /\ UNCHANGED <<up, lock, lists, dangling, value, tokens, fresh, missed, held, frame, next, ask, mq, terminal>>

-----------------------------------------------------------------------------
(* The threads, each on its own.                                            *)

Asks(g) ==
    \/ \E c \in Commands : Command(g, c)
    \/ ReadHead(g) \/ History(g)
    \/ \E L \in Sendable, c \in Contents \cup {Bad} : NewFile(g, L, c)
    \/ CommandCrashes(g) \/ HistoryCrashes(g)

\* The steps of a load after its first list is freed.
Loads == StartParse \/ Parse \/ EndParse \/ Done

\* The steps that begin with the mutex.
Decode == DecodeKnown \/ DecodeUnknown
Locked ==
    \/ Decode \/ StartWalk
    \/ \E g \in Guis : WalkSensors(g) \/ UpdateCrashes(g)

Rest ==
    \/ Receive \/ Write \/ SemWait \/ ApplyRule \/ EndWalk \/ Send \/ Alarm \/ Interrupt
    \/ \E g \in Guis : Asks(g) \/ Apply(g) \/ WalkActions(g) \/ EndHistory(g)
    \/ \E L \in Editable, c \in Contents \cup {Bad} : Edit(L, c)
    \/ \E line \in Lines : Type(line)
    \/ startT \/ stopT \/ Reload
    \/ Loads
    \/ up # "up" /\ UNCHANGED vars

Next == Rest \/ Clean \/ Locked

Spec == Init /\ [][Next]_vars

(* cleanMemory frees the lists without the mutex that the walks take, and a *)
(* file with a mistake leaves half a list behind until clean() comes to it. *)
(* OrderedSpec has the order that the mutex would give if cleanMemory took  *)
(* it, and if parseFile kept it over a mistake until clean() has freed what *)
(* there is: the lists are freed when nobody has the mutex, and whoever     *)
(* wants it waits until they are.  All other steps are those of Next.       *)
Alone == lock = None
Settled == reload.does # "clean" /\ reload.ok

OrderedNext == Rest \/ (Alone /\ Clean) \/ (Settled /\ Locked)

OrderedSpec == Init /\ [][OrderedNext]_vars

\* Threads run.  The mutex and the queue let everyone pass who asks again
\* and again.  Nobody has to send frames, type, edit or ask, no alarm is
\* counted on, and who walks a list for a GUI or serves the terminal may stop.
Fairness ==
    /\ WF_vars(Write) /\ WF_vars(SemWait) /\ WF_vars(EndWalk) /\ WF_vars(Send)
    /\ SF_vars(ApplyRule) /\ \A g \in Guis : SF_vars(Apply(g))
    /\ SF_vars(Parse) /\ WF_vars(StartParse) /\ WF_vars(EndParse) /\ WF_vars(Done)

FairSpec ==
    /\ Spec /\ Fairness
    /\ SF_vars(Decode) /\ SF_vars(StartWalk) /\ WF_vars(Clean)
    /\ SF_vars(startT \/ stopT \/ Reload)
FairOrderedSpec ==
    /\ OrderedSpec /\ Fairness
    /\ SF_vars(Settled /\ Decode) /\ SF_vars(Settled /\ StartWalk) /\ SF_vars(Alone /\ Clean)

-----------------------------------------------------------------------------
(* Properties.                                                              *)

\* The types; with them, the queue never holds more than it may.
TypeOK ==
    /\ up \in {"up", "exited", "crashed"} /\ lock \in Threads \cup {None}
    /\ lists \in [Lists -> Contents \cup {Bad, None}] /\ dangling \subseteq Lists \cup Threads
    /\ value \in [Sensors -> Values] /\ tokens \in 0..MaxTokens
    /\ fresh \subseteq Sensors /\ missed \subseteq Sensors
    /\ pc \in [Threads -> {"idle", "decode", "write", "woken", "walk", "apply", "sensors",
                           "actions", "history", "load"}]
    /\ held \in [Threads -> SUBSET Lists]
    /\ frame \in [id : Sensors \cup Aliens, says : Values] \cup {None}
    /\ next \in Nat \ {0} /\ ask \in [Guis -> Commands \cup {None}]
    /\ mq \in Seq(Commands) /\ Len(mq) <= MqSize
    /\ alarm \in {"on", "last", "off"} /\ eintr \in BOOLEAN
    /\ typed \in Lines \cup {None}
    /\ file \in [Lists -> Contents \cup {Bad}] /\ edited \subseteq Lists
    /\ reload \in LoadStates

\* Neither thread follows a pointer into a list that was freed, or into one that
\* a file with a mistake left half built.
Live(T) ==
    /\ dangling \cap T = {}
    /\ \A t \in T : \A L \in held[t] : lists[L] # Bad

\* Nobody does: "liste de capteurs protegee par mutex" (sensors.c:37).
PointersLive == Live(Threads)

\* The threads that follow pointers under the mutex do not, the rules' through
\* actions and actuators, however a load frees and fills one list after another.
WalksLive == Live({Rec, Rul})

\* A frame that was taken in is looked at: a coin is there for the thread of
\* the rules, or the thread is on its way, for every sensor whose frame came
\* after the last walk began ("notification nouvelle trame", sensors.c:52).
NotifiedOrDone == fresh # {} => tokens > 0 \/ pc[Rul] = "woken"

\* A walk over the rules sees one state of the sensors and of the lists from
\* its first rule to its last, whatever comes in meanwhile.
WalkSeesOneState ==
    [][pc[Rul] = "walk" => value' = value /\ lists' = lists]_vars

\* When no load is under way, the lists in memory are those of the files on
\* disk, except for files that were changed since: also after a GUI's file
\* was refused halfway through, and after it was moved into place.
DiskMatches ==
    up = "up" /\ reload = NoReload =>
        \A L \in Lists : L \in edited \/ lists[L] = file[L]

\* A mistake in the grammar of a file that a GUI sends never stops the server:
\* it stops over a file on disk, which has a mistake still or was changed since
\* it was read (clean, rules.y:759-768), or because of what a file says in good
\* grammar (setConditionName, rules.c:145-148, reached from rules.y:480), a GUI's
\* file as well.
OnlyDiskStops ==
    up = "exited" =>
        \E L \in Lists : file[L] = Bad \/ L \in edited \/ Ends(L, lists) = "exited"

\* A frame of a known sensor is followed by a walk without the help of the alarm.
\* The walk has rules to apply, except in the middle of a load, and what is
\* missed there the alarm makes up for as long as it rings (timedCheck.c:8-11),
\* unless the load gives the sensor its first value again.
WalkFollows(s) ==
    s \in fresh ~> (s \notin fresh /\ (s \in missed => reload # NoReload)) \/ up # "up"
AlarmCatchesUp(s) == s \in missed ~> s \notin missed \/ up # "up"
Evaluated ==
    \A s \in Sensors :
        WalkFollows(s) /\ ([]<><<Alarm /\ alarm = "on">>_vars => AlarmCatchesUp(s))

\* A command that a GUI asked for gets to the queue.
CommandsSent == \A g \in Guis : ask[g] # None ~> ask[g] = None \/ up # "up"

\* A load ends, or the server does; nobody waits for the mutex for ever.
LoadsEnd == reload # NoReload ~> reload = NoReload \/ up # "up"

\* A line that is typed is served (main.c:55, "Traite la commande").
TypedIsServed == typed # None ~> typed = None \/ up # "up"
==============================================================================
