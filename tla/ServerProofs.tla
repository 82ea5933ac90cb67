----------------------------- MODULE ServerProofs -----------------------------
(* What holds of Server for all sensors, files, rules, GUIs and bounds: the *)
(* mutex is held exactly by who walks or writes, so that a walk over the    *)
(* rules sees one state, and no frame is forgotten.                         *)
EXTENDS Server, TLAPS

(* The inductive invariant.                                                 *)

\* What the sensors' thread received; its post has room under the bound.
FrameInv ==
    /\ pc[Rec] # "idle" =>
          frame \in [id : Sensors \cup Aliens, says : Values] /\ tokens < MaxTokens
    /\ pc[Rec] = "write" => frame.id \in Sensors

\* A GUI's thread that is to send a frame has one.
AskInv == \A g \in Guis : pc[g] = "apply" => ask[g] \in Commands

\* A load is neither the sensors' nor the rules' thread's; a GUI's has a file.
LoadInv ==
    /\ reload.by \notin {Rec, Rul} /\ (reload.by # None => pc[reload.by] = "load")
    /\ reload.goal = "reparse" => reload.new \in Lists /\ reload.content \in Contents \cup {Bad}

\* Who holds the mutex between two steps.
LockInv ==
    /\ lock = Rec <=> pc[Rec] = "write"
    /\ lock = Rul <=> pc[Rul] = "walk"

IInv == TypeOK /\ FrameInv /\ AskInv /\ LoadInv /\ LockInv /\ NotifiedOrDone

-----------------------------------------------------------------------------
\* The threads are threads, and different.
LEMMA ThreadsDiffer ==
    /\ Rec \in Threads /\ Rul \in Threads /\ Main \in Threads /\ Guis \subseteq Threads
    /\ Rec # Rul /\ Rec # Main /\ Rul # Main /\ Rec \notin Guis /\ Rul \notin Guis
    /\ None \notin Threads
  BY ServerAssumption DEF Threads

\* The initial state satisfies the invariant.
LEMMA InitIInv == Init => IInv
  <1> SUFFICES ASSUME Init PROVE IInv
    OBVIOUS
  <1> USE ThreadsDiffer
  <1>1. TypeOK
    <2>1. \E c \in Contents : file = [L \in Lists |-> c]
      BY DEF Init
    <2>2. file \in [Lists -> Contents]
      BY <2>1
    <2>3. lists = file
      BY DEF Init
    <2>4. tokens = 0 /\ next = 1 /\ mq = <<>> /\ MaxTokens \in Nat /\ MqSize \in Nat
      BY ServerAssumption DEF Init
    <2>5. tokens \in 0..MaxTokens /\ next \in Nat \ {0} /\ mq \in Seq(Commands) /\ Len(mq) <= MqSize
      BY <2>4
    <2>6. reload \in LoadStates
      BY DEF Init, NoReload, LoadStates
    <2>7. value \in [Sensors -> Values]
      BY ServerAssumption DEF Init
    <2> QED
      BY <2>2, <2>3, <2>5, <2>6, <2>7 DEF Init, TypeOK
  <1>2. pc[Rec] = "idle" /\ pc[Rul] = "idle" /\ \A g \in Guis : pc[g] = "idle"
    BY DEF Init
  <1>3. lock = None /\ reload.by = None /\ reload.goal = "all" /\ fresh = {}
    BY DEF Init, NoReload
  <1> QED
    BY <1>1, <1>2, <1>3 DEF IInv, FrameInv, AskInv, LoadInv, LockInv, NotifiedOrDone

\* What Hold leaves has its types.
LEMMA HoldTyped ==
    ASSUME TypeOK, NEW t \in Threads, NEW S \in SUBSET Lists, Hold(t, S)
    PROVE  held' \in [Threads -> SUBSET Lists] /\ dangling' \subseteq Lists \cup Threads
  BY DEF TypeOK, Hold

\* The rules of a file that can be walked are rules.
LEMMA WalkedTyped == Walked \in Seq(Rule)
  <1>1. CASE lists["rules"] \in Contents
    BY <1>1, ServerAssumption DEF Walked
  <1>2. CASE lists["rules"] \notin Contents
    BY <1>2 DEF Walked
  <1> QED
    BY <1>1, <1>2

\* An element of a sequence is one of its set.
LEMMA ElementTyped ==
    ASSUME NEW S, NEW s \in Seq(S), NEW i \in 1..Len(s)
    PROVE  s[i] \in S
  OBVIOUS

\* A rule of a list of rules has a command.
LEMMA RuleTyped ==
    ASSUME NEW s \in Seq(Rule), NEW i \in 1..Len(s)
    PROVE  s[i].do \in Commands
  <1>1. s[i] \in Rule
    BY ElementTyped
  <1> QED
    BY <1>1 DEF Rule

\* The states of a load are closed under its steps.
LEMMA LoadNext ==
    ASSUME NEW r \in LoadStates, NEW n \in 1..5, NEW b \in BOOLEAN
    PROVE  [r EXCEPT !.at = n] \in LoadStates /\ [r EXCEPT !.at = n, !.ok = b] \in LoadStates
  BY DEF LoadStates
\* A load that begins to parse is a load.
LEMMA LoadStarts ==
    ASSUME NEW r \in LoadStates, NEW b \in BOOLEAN
    PROVE  [r EXCEPT !.does = "parse", !.at = 1, !.ok = TRUE, !.init = b] \in LoadStates
  <1>1. 1 \in 1..5 /\ "parse" \in {"nothing", "clean", "parse", "done"}
    OBVIOUS
  <1> QED
    BY <1>1 DEF LoadStates
\* A load that falls back to cleaning is a load.
LEMMA LoadFalls ==
    ASSUME NEW r \in LoadStates, NEW t \in Threads \cup {None}, NEW g \in {"all", "reparse", "exit"}
    PROVE  [r EXCEPT !.by = t, !.does = "clean", !.goal = g] \in LoadStates
  <1>1. "clean" \in {"nothing", "clean", "parse", "done"}
    OBVIOUS
  <1> QED
    BY <1>1 DEF LoadStates

\* What clean() makes of a load is a load.
LEMMA FallbackTyped == reload \in LoadStates => Fallback \in LoadStates
  <1> SUFFICES ASSUME reload \in LoadStates PROVE Fallback \in LoadStates
    OBVIOUS
  <1>1. reload.by \in Threads \cup {None} /\ reload.init \in BOOLEAN
    BY DEF LoadStates
  <1>2. NoReload \in LoadStates
    BY DEF LoadStates, NoReload
  <1>3. (IF reload.init THEN "exit" ELSE "all") \in {"all", "reparse", "exit"}
    OBVIOUS
  <1> QED
    BY <1>1, <1>2, <1>3, LoadFalls DEF Fallback

\* Every step keeps the invariant.
LEMMA StepIInv == IInv /\ [Next]_vars => IInv'
  <1> SUFFICES ASSUME IInv, [Next]_vars PROVE IInv'
    OBVIOUS
  <1> USE ThreadsDiffer DEF config, terminal, Go

  <1>1. CASE Receive
    <2>1. frame' \in [id : Sensors \cup Aliens, says : Values]
      BY <1>1, ServerAssumption DEF Receive
    <2>2. tokens < MaxTokens
      BY <1>1 DEF Receive, Room, IInv, TypeOK
    <2>3. TypeOK'
      BY <1>1, <2>1, <2>2, ServerAssumption DEF IInv, TypeOK, Receive
    <2>4. FrameInv' /\ AskInv'
      BY <1>1, <2>1, <2>2 DEF IInv, TypeOK, FrameInv, AskInv, Receive
    <2>5. LoadInv'
      BY <1>1 DEF IInv, TypeOK, LoadInv, Receive, Room
    <2>6. LockInv' /\ NotifiedOrDone'
      BY <1>1 DEF IInv, TypeOK, LoadInv, LockInv, NotifiedOrDone, Receive, Room
    <2> QED
      BY <2>3, <2>4, <2>5, <2>6 DEF IInv
  <1>2. CASE Write
    <2>1. TypeOK'
      BY <1>2, ServerAssumption DEF IInv, TypeOK, FrameInv, AskInv, LoadInv, Write, Post, Unlock, Drop
    <2>2. FrameInv' /\ AskInv'
      BY <1>2 DEF IInv, TypeOK, FrameInv, AskInv, Write, Post, Unlock, Drop
    <2>3. LoadInv'
      BY <1>2 DEF IInv, TypeOK, LoadInv, Write, Post, Unlock, Drop
    <2>4. LockInv' /\ NotifiedOrDone'
      BY <1>2 DEF IInv, TypeOK, LoadInv, LockInv, NotifiedOrDone, Write, Post, Unlock, Drop
    <2> QED
      BY <2>1, <2>2, <2>3, <2>4 DEF IInv
  <1>3. CASE SemWait
    <2>1. tokens' \in 0..MaxTokens /\ tokens' <= tokens
      BY <1>3, ServerAssumption DEF IInv, TypeOK, SemWait
    <2>2. TypeOK'
      BY <1>3, <2>1, ServerAssumption DEF IInv, TypeOK, SemWait
    <2>3. FrameInv' /\ AskInv'
      BY <1>3, <2>1, ServerAssumption DEF IInv, TypeOK, FrameInv, AskInv, SemWait
    <2>4. LoadInv'
      BY <1>3 DEF IInv, TypeOK, LoadInv, SemWait
    <2>5. LockInv' /\ NotifiedOrDone'
      BY <1>3 DEF IInv, TypeOK, LoadInv, LockInv, NotifiedOrDone, SemWait
    <2> QED
      BY <2>2, <2>3, <2>4, <2>5 DEF IInv
  <1>4. CASE ApplyRule
    <2>1. next \in 1..Len(Walked)
      BY <1>4 DEF IInv, TypeOK, ApplyRule, Walked
    <2>2. Walked[next].do \in Commands
      BY <2>1, WalkedTyped, RuleTyped
    <2>3. mq' = mq \/ (mq' = Append(mq, Walked[next].do) /\ ~Full)
      BY <1>4 DEF ApplyRule, mq_send
    <2>4. mq' \in Seq(Commands) /\ Len(mq') <= MqSize
      <3>1. MqSize \in Nat
        BY ServerAssumption
      <3>2. mq \in Seq(Commands) /\ Len(mq) <= MqSize
        BY DEF IInv, TypeOK
      <3>3. CASE mq' = mq
        BY <3>2, <3>3
      <3>4. CASE mq' = Append(mq, Walked[next].do) /\ Len(mq) < MqSize
        <4>1. mq' \in Seq(Commands) /\ Len(mq') = Len(mq) + 1
          BY <2>2, <3>2, <3>4
        <4> QED
          BY <3>1, <3>2, <3>4, <4>1
      <3> QED
        BY <2>3, <3>1, <3>2, <3>3, <3>4 DEF Full
    <2>5. next' \in Nat \ {0}
      BY <1>4 DEF IInv, TypeOK, ApplyRule
    <2>6. TypeOK'
      BY <1>4, <2>1, <2>2, <2>3, <2>4, <2>5, ServerAssumption DEF IInv, TypeOK, ApplyRule
    <2>7. FrameInv' /\ AskInv'
      BY <1>4 DEF IInv, TypeOK, FrameInv, AskInv, ApplyRule, Walked, mq_send, Full
    <2>8. LoadInv'
      BY <1>4 DEF IInv, TypeOK, LoadInv, ApplyRule, Walked, mq_send, Full
    <2>9. LockInv' /\ NotifiedOrDone'
      BY <1>4 DEF IInv, TypeOK, LoadInv, LockInv, NotifiedOrDone, ApplyRule, Walked, mq_send, Full
    <2> QED
      BY <2>6, <2>7, <2>8, <2>9 DEF IInv
  <1>5. CASE EndWalk
    <2>1. TypeOK'
      BY <1>5, ServerAssumption DEF IInv, TypeOK, FrameInv, AskInv, LoadInv, EndWalk, Unlock, Drop
    <2>2. FrameInv' /\ AskInv'
      BY <1>5 DEF IInv, TypeOK, FrameInv, AskInv, EndWalk, Unlock, Drop
    <2>3. LoadInv'
      BY <1>5 DEF IInv, TypeOK, LoadInv, EndWalk, Unlock, Drop
    <2>4. LockInv' /\ NotifiedOrDone'
      BY <1>5 DEF IInv, TypeOK, LoadInv, LockInv, NotifiedOrDone, EndWalk, Unlock, Drop
    <2> QED
      BY <2>1, <2>2, <2>3, <2>4 DEF IInv
  <1>6. CASE Send
    <2>1. TypeOK'
      BY <1>6, ServerAssumption DEF IInv, TypeOK, FrameInv, AskInv, LoadInv, Send
    <2>2. FrameInv' /\ AskInv'
      BY <1>6 DEF IInv, TypeOK, FrameInv, AskInv, Send
    <2>3. LoadInv'
      BY <1>6 DEF IInv, TypeOK, LoadInv, Send
    <2>4. LockInv' /\ NotifiedOrDone'
      BY <1>6 DEF IInv, TypeOK, LoadInv, LockInv, NotifiedOrDone, Send
    <2> QED
      BY <2>1, <2>2, <2>3, <2>4 DEF IInv
  <1>7. CASE Alarm
    <2>1. TypeOK'
      BY <1>7, ServerAssumption DEF IInv, TypeOK, FrameInv, AskInv, LoadInv, Alarm, Ring, Room
    <2>2. FrameInv' /\ AskInv'
      BY <1>7 DEF IInv, TypeOK, FrameInv, AskInv, Alarm, Ring, Room
    <2>3. LoadInv'
      BY <1>7 DEF IInv, TypeOK, LoadInv, Alarm, Ring, Room
    <2>4. LockInv' /\ NotifiedOrDone'
      BY <1>7 DEF IInv, TypeOK, LoadInv, LockInv, NotifiedOrDone, Alarm, Ring, Room
    <2> QED
      BY <2>1, <2>2, <2>3, <2>4 DEF IInv
  <1>8. CASE Interrupt
    <2>1. TypeOK'
      BY <1>8, ServerAssumption DEF IInv, TypeOK, FrameInv, AskInv, LoadInv, Interrupt, Ring, Room
    <2>2. FrameInv' /\ AskInv'
      BY <1>8 DEF IInv, TypeOK, FrameInv, AskInv, Interrupt, Ring, Room
    <2>3. LoadInv'
      BY <1>8 DEF IInv, TypeOK, LoadInv, Interrupt, Ring, Room
    <2>4. LockInv' /\ NotifiedOrDone'
      BY <1>8 DEF IInv, TypeOK, LoadInv, LockInv, NotifiedOrDone, Interrupt, Ring, Room
    <2> QED
      BY <2>1, <2>2, <2>3, <2>4 DEF IInv
  <1>9. CASE Clean
    <2>1. reload.at \in 1..4 /\ CleanOrder[reload.at] \in Lists
      BY <1>9 DEF IInv, TypeOK, LoadStates, Clean, CleanOrder, Lists
    <2>2. lists' \in [Lists -> Contents \cup {Bad, None}] /\ dangling' \subseteq Lists \cup Threads
      BY <1>9, <2>1 DEF IInv, TypeOK, Clean
    <2>3. reload' = [reload EXCEPT !.at = @ + 1]
      BY <1>9 DEF Clean
    <2>4. reload \in LoadStates /\ reload.at + 1 \in 1..5
      BY <2>1 DEF IInv, TypeOK
    <2>5. reload' \in LoadStates
      BY <2>3, <2>4, LoadNext
    <2>6. TypeOK'
      BY <1>9, <2>1, <2>2, <2>3, <2>4, <2>5, ServerAssumption DEF IInv, TypeOK, Clean
    <2>7. FrameInv' /\ AskInv'
      BY <1>9 DEF IInv, TypeOK, FrameInv, AskInv, Clean, LoadStates
    <2>8. LoadInv'
      BY <1>9 DEF IInv, TypeOK, LoadInv, Clean, LoadStates
    <2>9. LockInv' /\ NotifiedOrDone'
      BY <1>9 DEF IInv, TypeOK, LoadInv, LockInv, NotifiedOrDone, Clean, LoadStates
    <2> QED
      BY <2>6, <2>7, <2>8, <2>9 DEF IInv
  <1>10. CASE DecodeKnown
    <2>1. held' \in [Threads -> SUBSET Lists] /\ dangling' \subseteq Lists \cup Threads
      BY <1>10, HoldTyped DEF IInv, Lists, DecodeKnown
    <2>2. TypeOK'
      BY <1>10, <2>1, ServerAssumption DEF IInv, TypeOK, DecodeKnown, Lock
    <2>3. FrameInv' /\ AskInv'
      BY <1>10 DEF IInv, TypeOK, FrameInv, AskInv, DecodeKnown, Known, Lock, Hold
    <2>4. LoadInv'
      BY <1>10 DEF IInv, TypeOK, LoadInv, DecodeKnown, Known, Lock, Hold
    <2>5. LockInv' /\ NotifiedOrDone'
      BY <1>10 DEF IInv, TypeOK, LoadInv, LockInv, NotifiedOrDone, DecodeKnown, Known, Lock, Hold
    <2> QED
      BY <2>2, <2>3, <2>4, <2>5 DEF IInv
  <1>11. CASE DecodeUnknown
    <2>1. TypeOK'
      BY <1>11, ServerAssumption DEF IInv, TypeOK, FrameInv, AskInv, LoadInv, DecodeUnknown
    <2>2. FrameInv' /\ AskInv'
      BY <1>11 DEF IInv, TypeOK, FrameInv, AskInv, DecodeUnknown
    <2>3. LoadInv'
      BY <1>11 DEF IInv, TypeOK, LoadInv, DecodeUnknown
    <2>4. LockInv' /\ NotifiedOrDone'
      BY <1>11 DEF IInv, TypeOK, LoadInv, LockInv, NotifiedOrDone, DecodeUnknown
    <2> QED
      BY <2>1, <2>2, <2>3, <2>4 DEF IInv
  <1>12. CASE StartWalk
    <2>1. TypeOK'
      BY <1>12, ServerAssumption DEF IInv, TypeOK, FrameInv, AskInv, LoadInv, StartWalk, Lock, Hold, Drop
    <2>2. FrameInv' /\ AskInv'
      BY <1>12 DEF IInv, TypeOK, FrameInv, AskInv, StartWalk, Lock, Hold, Drop
    <2>3. LoadInv'
      BY <1>12 DEF IInv, TypeOK, LoadInv, StartWalk, Lock, Hold, Drop
    <2>4. LockInv' /\ NotifiedOrDone'
      BY <1>12 DEF IInv, TypeOK, LoadInv, LockInv, NotifiedOrDone, StartWalk, Lock, Hold, Drop
    <2> QED
      BY <2>1, <2>2, <2>3, <2>4 DEF IInv
  <1>13. CASE startT
    <2>1. TypeOK'
      BY <1>13, ServerAssumption DEF IInv, TypeOK, FrameInv, AskInv, LoadInv, startT, Serve
    <2>2. FrameInv' /\ AskInv'
      BY <1>13 DEF IInv, TypeOK, FrameInv, AskInv, startT, Serve
    <2>3. LoadInv'
      BY <1>13 DEF IInv, TypeOK, LoadInv, startT, Serve
    <2>4. LockInv' /\ NotifiedOrDone'
      BY <1>13 DEF IInv, TypeOK, LoadInv, LockInv, NotifiedOrDone, startT, Serve
    <2> QED
      BY <2>1, <2>2, <2>3, <2>4 DEF IInv
  <1>14. CASE stopT
    <2>1. TypeOK'
      BY <1>14, ServerAssumption DEF IInv, TypeOK, FrameInv, AskInv, LoadInv, stopT, Serve
    <2>2. FrameInv' /\ AskInv'
      BY <1>14 DEF IInv, TypeOK, FrameInv, AskInv, stopT, Serve
    <2>3. LoadInv'
      BY <1>14 DEF IInv, TypeOK, LoadInv, stopT, Serve
    <2>4. LockInv' /\ NotifiedOrDone'
      BY <1>14 DEF IInv, TypeOK, LoadInv, LockInv, NotifiedOrDone, stopT, Serve
    <2> QED
      BY <2>1, <2>2, <2>3, <2>4 DEF IInv
  <1>15. CASE Reload
    <2>1. TypeOK'
      BY <1>15, ServerAssumption DEF IInv, TypeOK, FrameInv, AskInv, LoadInv, Reload, Serve, NoReload, LoadStates
    <2>2. FrameInv' /\ AskInv'
      BY <1>15 DEF IInv, TypeOK, FrameInv, AskInv, Reload, Serve, NoReload, LoadStates
    <2>3. LoadInv'
      BY <1>15 DEF IInv, TypeOK, LoadInv, Reload, Serve, NoReload, LoadStates
    <2>4. LockInv' /\ NotifiedOrDone'
      BY <1>15 DEF IInv, TypeOK, LoadInv, LockInv, NotifiedOrDone, Reload, Serve, NoReload, LoadStates
    <2> QED
      BY <2>1, <2>2, <2>3, <2>4 DEF IInv
  <1>16. CASE StartParse
    <2>1. reload \in LoadStates /\ IsInit \in BOOLEAN
      BY DEF IInv, TypeOK, IsInit
    <2>2. reload' \in LoadStates
      BY <1>16, <2>1, LoadStarts DEF StartParse
    <2>3. TypeOK'
      BY <1>16, <2>1, <2>2, ServerAssumption DEF IInv, TypeOK, StartParse
    <2>4. FrameInv' /\ AskInv'
      BY <1>16 DEF IInv, TypeOK, FrameInv, AskInv, StartParse, IsInit, LoadStates
    <2>5. LoadInv'
      <3>1. reload'.by = reload.by /\ reload'.goal = reload.goal /\ reload'.new = reload.new
            /\ reload'.content = reload.content
        BY <1>16, <2>1 DEF StartParse, LoadStates
      <3>2. UNCHANGED pc /\ LoadInv
        BY <1>16 DEF IInv, StartParse
      <3> QED
        BY <3>1, <3>2 DEF LoadInv
    <2>6. LockInv' /\ NotifiedOrDone'
      BY <1>16 DEF IInv, TypeOK, LoadInv, LockInv, NotifiedOrDone, StartParse, IsInit, LoadStates
    <2> QED
      BY <2>3, <2>4, <2>5, <2>6 DEF IInv
  <1>17. CASE Parse
    <2>1. reload.at \in 1..4 /\ ParseOrder[reload.at] \in Lists
      BY <1>17 DEF IInv, TypeOK, LoadStates, Parse, ParseOrder, Lists
    <2>2. PICK c \in Contents \cup {Bad} : /\ lists' = [lists EXCEPT ![ParseOrder[reload.at]] = c]
                                         /\ reload' = [reload EXCEPT !.at = @ + 1, !.ok = c # Bad]
      BY <1>17, <2>1 DEF IInv, TypeOK, LoadInv, Parse
    <2>3. lists' \in [Lists -> Contents \cup {Bad, None}]
      BY <2>1, <2>2 DEF IInv, TypeOK
    <2>4. reload \in LoadStates /\ reload.at + 1 \in 1..5 /\ (c # Bad) \in BOOLEAN
      BY <2>1 DEF IInv, TypeOK
    <2>5. reload' \in LoadStates
      BY <2>2, <2>4, LoadNext
    <2>6. /\ edited' \subseteq Lists /\ value' \in [Sensors -> Values]
          /\ fresh' \subseteq Sensors /\ missed' \subseteq Sensors
      BY <1>17, <2>1, ServerAssumption DEF IInv, TypeOK, Parse
    <2>7. /\ UNCHANGED <<lock, dangling, tokens, pc, held, frame, next, ask, mq, terminal, file>>
          /\ up' \in {"up", "exited", "crashed"}
      <3>1. /\ up' = Ends(ParseOrder[reload.at], lists')
            /\ UNCHANGED <<lock, dangling, tokens, pc, held, frame, next, ask, mq, terminal, file>>
        BY <1>17 DEF Parse
      <3> QED
        BY <2>1, <2>3, <3>1, ServerAssumption
    <2>8. TypeOK'
      BY <2>1, <2>2, <2>3, <2>4, <2>5, <2>6, <2>7 DEF IInv, TypeOK
    <2>9. FrameInv' /\ AskInv'
      BY <1>17 DEF IInv, TypeOK, FrameInv, AskInv, Parse, ParseOrder, LoadStates
    <2>10. LoadInv'
      BY <1>17 DEF IInv, TypeOK, LoadInv, Parse, ParseOrder, LoadStates
    <2>11. LockInv' /\ NotifiedOrDone'
      BY <1>17 DEF IInv, TypeOK, LoadInv, LockInv, NotifiedOrDone, Parse, ParseOrder, LoadStates
    <2> QED
      BY <2>8, <2>9, <2>10, <2>11 DEF IInv
  <1>18. CASE EndParse
    <2>1. reload \in LoadStates /\ [reload EXCEPT !.does = "done"] \in LoadStates
      BY DEF IInv, TypeOK, LoadStates
    <2>2. Fallback \in LoadStates
      BY <2>1, FallbackTyped
    <2>3. reload' \in LoadStates
      BY <1>18, <2>1, <2>2 DEF EndParse
    <2>4. TypeOK'
      BY <1>18, <2>1, <2>2, <2>3, ServerAssumption DEF IInv, TypeOK, EndParse
    <2>5. FrameInv' /\ AskInv'
      BY <1>18 DEF IInv, TypeOK, FrameInv, AskInv, EndParse, Fallback, NoReload, LoadStates
    <2>6. LoadInv'
      BY <1>18 DEF IInv, TypeOK, LoadInv, EndParse, Fallback, NoReload, LoadStates
    <2>7. LockInv' /\ NotifiedOrDone'
      BY <1>18 DEF IInv, TypeOK, LoadInv, LockInv, NotifiedOrDone, EndParse, Fallback, NoReload, LoadStates
    <2> QED
      BY <2>4, <2>5, <2>6, <2>7 DEF IInv
  <1>19. CASE Done
    <2>1. reload' \in LoadStates
      BY <1>19 DEF NoReload, LoadStates, Done
    <2>2. file' \in [Lists -> Contents \cup {Bad}] /\ edited' \subseteq Lists
      BY <1>19 DEF IInv, TypeOK, LoadInv, Done
    <2>3. pc' = [pc EXCEPT ![reload.by] = "idle"]
      BY <1>19 DEF Done
    <2>4. TypeOK'
      BY <1>19, <2>1, <2>2, <2>3 DEF IInv, TypeOK, Done
    <2>5. FrameInv' /\ AskInv'
      BY <1>19 DEF IInv, TypeOK, FrameInv, AskInv, Done, NoReload, LoadStates
    <2>6. LoadInv'
      BY <1>19 DEF IInv, TypeOK, LoadInv, Done, NoReload, LoadStates
    <2>7. LockInv' /\ NotifiedOrDone'
      BY <1>19 DEF IInv, TypeOK, LoadInv, LockInv, NotifiedOrDone, Done, NoReload, LoadStates
    <2> QED
      BY <2>4, <2>5, <2>6, <2>7 DEF IInv
  <1>20. ASSUME NEW g \in Guis, Apply(g) PROVE IInv'
    <2>1. TypeOK'
      BY <1>20, ServerAssumption DEF IInv, TypeOK, FrameInv, AskInv, LoadInv, Apply, mq_send, Full, Drop
    <2>2. FrameInv' /\ AskInv'
      BY <1>20 DEF IInv, TypeOK, FrameInv, AskInv, Apply, mq_send, Full, Drop
    <2>3. LoadInv'
      BY <1>20 DEF IInv, TypeOK, LoadInv, Apply, mq_send, Full, Drop
    <2>4. LockInv' /\ NotifiedOrDone'
      BY <1>20 DEF IInv, TypeOK, LoadInv, LockInv, NotifiedOrDone, Apply, mq_send, Full, Drop
    <2> QED
      BY <2>1, <2>2, <2>3, <2>4 DEF IInv
  <1>21. ASSUME NEW g \in Guis, WalkSensors(g) PROVE IInv'
    <2>1. held' \in [Threads -> SUBSET Lists] /\ dangling' \subseteq Lists \cup Threads
      BY <1>21, HoldTyped DEF IInv, Lists, WalkSensors
    <2>2. TypeOK'
      BY <1>21, <2>1, ServerAssumption DEF IInv, TypeOK, WalkSensors
    <2>3. FrameInv' /\ AskInv'
      BY <1>21 DEF IInv, TypeOK, FrameInv, AskInv, WalkSensors, Hold
    <2>4. LoadInv'
      BY <1>21 DEF IInv, TypeOK, LoadInv, WalkSensors, Hold
    <2>5. LockInv' /\ NotifiedOrDone'
      BY <1>21 DEF IInv, TypeOK, LoadInv, LockInv, NotifiedOrDone, WalkSensors, Hold
    <2> QED
      BY <2>2, <2>3, <2>4, <2>5 DEF IInv
  <1>22. ASSUME NEW g \in Guis, WalkActions(g) PROVE IInv'
    <2>1. TypeOK'
      BY <1>22, ServerAssumption DEF IInv, TypeOK, FrameInv, AskInv, LoadInv, WalkActions, Drop
    <2>2. FrameInv' /\ AskInv'
      BY <1>22 DEF IInv, TypeOK, FrameInv, AskInv, WalkActions, Drop
    <2>3. LoadInv'
      BY <1>22 DEF IInv, TypeOK, LoadInv, WalkActions, Drop
    <2>4. LockInv' /\ NotifiedOrDone'
      BY <1>22 DEF IInv, TypeOK, LoadInv, LockInv, NotifiedOrDone, WalkActions, Drop
    <2> QED
      BY <2>1, <2>2, <2>3, <2>4 DEF IInv
  <1>23. ASSUME NEW g \in Guis, ReadHead(g) PROVE IInv'
    <2>1. held' \in [Threads -> SUBSET Lists] /\ dangling' \subseteq Lists \cup Threads
      BY <1>23, HoldTyped DEF IInv, Lists, ReadHead
    <2>2. TypeOK'
      BY <1>23, <2>1, ServerAssumption DEF IInv, TypeOK, ReadHead
    <2>3. FrameInv' /\ AskInv'
      BY <1>23 DEF IInv, TypeOK, FrameInv, AskInv, ReadHead, Hold
    <2>4. LoadInv'
      BY <1>23 DEF IInv, TypeOK, LoadInv, ReadHead, Hold
    <2>5. LockInv' /\ NotifiedOrDone'
      BY <1>23 DEF IInv, TypeOK, LoadInv, LockInv, NotifiedOrDone, ReadHead, Hold
    <2> QED
      BY <2>2, <2>3, <2>4, <2>5 DEF IInv
  <1>24. ASSUME NEW g \in Guis, CommandCrashes(g) PROVE IInv'
    <2>1. TypeOK'
      BY <1>24, ServerAssumption DEF IInv, TypeOK, FrameInv, AskInv, LoadInv, CommandCrashes
    <2>2. FrameInv' /\ AskInv'
      BY <1>24 DEF IInv, TypeOK, FrameInv, AskInv, CommandCrashes
    <2>3. LoadInv'
      BY <1>24 DEF IInv, TypeOK, LoadInv, CommandCrashes
    <2>4. LockInv' /\ NotifiedOrDone'
      BY <1>24 DEF IInv, TypeOK, LoadInv, LockInv, NotifiedOrDone, CommandCrashes
    <2> QED
      BY <2>1, <2>2, <2>3, <2>4 DEF IInv
  <1>25. ASSUME NEW g \in Guis, UpdateCrashes(g) PROVE IInv'
    <2>1. TypeOK'
      BY <1>25, ServerAssumption DEF IInv, TypeOK, FrameInv, AskInv, LoadInv, UpdateCrashes
    <2>2. FrameInv' /\ AskInv'
      BY <1>25 DEF IInv, TypeOK, FrameInv, AskInv, UpdateCrashes
    <2>3. LoadInv'
      BY <1>25 DEF IInv, TypeOK, LoadInv, UpdateCrashes
    <2>4. LockInv' /\ NotifiedOrDone'
      BY <1>25 DEF IInv, TypeOK, LoadInv, LockInv, NotifiedOrDone, UpdateCrashes
    <2> QED
      BY <2>1, <2>2, <2>3, <2>4 DEF IInv
  <1>26. ASSUME NEW g \in Guis, NEW c \in Commands, Command(g, c) PROVE IInv'
    <2>1. held' \in [Threads -> SUBSET Lists] /\ dangling' \subseteq Lists \cup Threads
      BY <1>26, HoldTyped DEF IInv, Lists, Command
    <2>2. TypeOK'
      BY <1>26, <2>1, ServerAssumption DEF IInv, TypeOK, Command
    <2>3. FrameInv' /\ AskInv'
      BY <1>26 DEF IInv, TypeOK, FrameInv, AskInv, Command, Hold
    <2>4. LoadInv'
      BY <1>26 DEF IInv, TypeOK, LoadInv, Command, Hold
    <2>5. LockInv' /\ NotifiedOrDone'
      BY <1>26 DEF IInv, TypeOK, LoadInv, LockInv, NotifiedOrDone, Command, Hold
    <2> QED
      BY <2>2, <2>3, <2>4, <2>5 DEF IInv
  <1>27. ASSUME NEW g \in Guis, NEW L \in Sendable, NEW c \in Contents \cup {Bad}, NewFile(g, L, c) PROVE IInv'
    <2>1. reload' \in LoadStates
      BY <1>27, ServerAssumption DEF IInv, TypeOK, NewFile, NoReload, LoadStates
    <2>2. TypeOK'
      BY <1>27, <2>1, ServerAssumption DEF IInv, TypeOK, NewFile
    <2>3. FrameInv' /\ AskInv'
      BY <1>27, ServerAssumption DEF IInv, TypeOK, FrameInv, AskInv, NewFile
    <2>4. LoadInv'
      BY <1>27, ServerAssumption DEF IInv, TypeOK, LoadInv, NewFile, NoReload, LoadStates
    <2>5. LockInv' /\ NotifiedOrDone'
      BY <1>27 DEF IInv, TypeOK, LoadInv, LockInv, NotifiedOrDone, NewFile, NoReload, LoadStates
    <2> QED
      BY <2>2, <2>3, <2>4, <2>5 DEF IInv
  <1>28. ASSUME NEW L \in Editable, NEW c \in Contents \cup {Bad}, Edit(L, c) PROVE IInv'
    <2>1. TypeOK'
      BY <1>28, ServerAssumption DEF IInv, TypeOK, FrameInv, AskInv, LoadInv, Edit
    <2>2. FrameInv' /\ AskInv'
      BY <1>28 DEF IInv, TypeOK, FrameInv, AskInv, Edit
    <2>3. LoadInv'
      BY <1>28 DEF IInv, TypeOK, LoadInv, Edit
    <2>4. LockInv' /\ NotifiedOrDone'
      BY <1>28 DEF IInv, TypeOK, LoadInv, LockInv, NotifiedOrDone, Edit
    <2> QED
      BY <2>1, <2>2, <2>3, <2>4 DEF IInv
  <1>29. ASSUME NEW line \in Lines, Type(line) PROVE IInv'
    <2>1. TypeOK'
      BY <1>29, ServerAssumption DEF IInv, TypeOK, FrameInv, AskInv, LoadInv, Type
    <2>2. FrameInv' /\ AskInv'
      BY <1>29 DEF IInv, TypeOK, FrameInv, AskInv, Type
    <2>3. LoadInv'
      BY <1>29 DEF IInv, TypeOK, LoadInv, Type
    <2>4. LockInv' /\ NotifiedOrDone'
      BY <1>29 DEF IInv, TypeOK, LoadInv, LockInv, NotifiedOrDone, Type
    <2> QED
      BY <2>1, <2>2, <2>3, <2>4 DEF IInv
  <1>30. ASSUME NEW g \in Guis, History(g) PROVE IInv'
    <2>1. held' \in [Threads -> SUBSET Lists] /\ dangling' \subseteq Lists \cup Threads
      BY <1>30, HoldTyped DEF IInv, Lists, History
    <2>2. TypeOK'
      BY <1>30, <2>1, ServerAssumption DEF IInv, TypeOK, History
    <2>3. FrameInv' /\ AskInv'
      BY <1>30 DEF IInv, TypeOK, FrameInv, AskInv, History, Hold
    <2>4. LoadInv'
      BY <1>30 DEF IInv, TypeOK, LoadInv, History, Hold
    <2>5. LockInv' /\ NotifiedOrDone'
      BY <1>30 DEF IInv, TypeOK, LoadInv, LockInv, NotifiedOrDone, History, Hold
    <2> QED
      BY <2>2, <2>3, <2>4, <2>5 DEF IInv
  <1>31. ASSUME NEW g \in Guis, EndHistory(g) PROVE IInv'
    <2>1. TypeOK'
      BY <1>31, ServerAssumption DEF IInv, TypeOK, FrameInv, AskInv, LoadInv, EndHistory, Drop
    <2>2. FrameInv' /\ AskInv'
      BY <1>31 DEF IInv, TypeOK, FrameInv, AskInv, EndHistory, Drop
    <2>3. LoadInv'
      BY <1>31 DEF IInv, TypeOK, LoadInv, EndHistory, Drop
    <2>4. LockInv' /\ NotifiedOrDone'
      BY <1>31 DEF IInv, TypeOK, LoadInv, LockInv, NotifiedOrDone, EndHistory, Drop
    <2> QED
      BY <2>1, <2>2, <2>3, <2>4 DEF IInv
  <1>32. ASSUME NEW g \in Guis, HistoryCrashes(g) PROVE IInv'
    <2>1. TypeOK'
      BY <1>32, ServerAssumption DEF IInv, TypeOK, FrameInv, AskInv, LoadInv, HistoryCrashes
    <2>2. FrameInv' /\ AskInv'
      BY <1>32 DEF IInv, TypeOK, FrameInv, AskInv, HistoryCrashes
    <2>3. LoadInv'
      BY <1>32 DEF IInv, TypeOK, LoadInv, HistoryCrashes
    <2>4. LockInv' /\ NotifiedOrDone'
      BY <1>32 DEF IInv, TypeOK, LoadInv, LockInv, NotifiedOrDone, HistoryCrashes
    <2> QED
      BY <2>1, <2>2, <2>3, <2>4 DEF IInv
  <1>33. CASE UNCHANGED vars
    BY <1>33 DEF vars, IInv, TypeOK, FrameInv, AskInv, LoadInv, LockInv, NotifiedOrDone
  <1> QED
    BY <1>1, <1>2, <1>3, <1>4, <1>5, <1>6, <1>7, <1>8, <1>9, <1>10, <1>11, <1>12, <1>13, <1>14, <1>15, <1>16, <1>17, <1>18, <1>19, <1>20, <1>21, <1>22, <1>23, <1>24, <1>25, <1>26, <1>27, <1>28, <1>29, <1>30, <1>31, <1>32, <1>33 DEF Next, Rest, Decode, Locked, Asks, Loads

-----------------------------------------------------------------------------
(* The theorems.                                                            *)

\* The invariant holds in every run of the server, ordered or not.
THEOREM Invariant == Spec => []IInv
  <1> QED
    BY InitIInv, StepIInv, PTL DEF Spec

\* The types of the server's state, and the limit of its queue (Full,
\* sensorsNetwork.c:151).
THEOREM TypeCorrect == Spec => []TypeOK
  <1>1. IInv => TypeOK
    BY DEF IInv
  <1> QED
    BY <1>1, Invariant, PTL

\* No frame is forgotten: as long as the rules were not walked after it, a coin
\* or the woken thread stands for it (sensors.c:52, initCheckRules.c:15), also
\* when loads free the lists without the mutex.
THEOREM FramesNoticed == Spec => []NotifiedOrDone
  <1>1. IInv => NotifiedOrDone
    BY DEF IInv
  <1> QED
    BY <1>1, Invariant, PTL

\* A step of the ordered server is a step of the server.
LEMMA OrderedIsServer == OrderedSpec => Spec
  <1>1. [OrderedNext]_vars => [Next]_vars
    BY DEF OrderedNext, Next
  <1> QED
    BY <1>1, PTL DEF OrderedSpec, Spec

\* While the rules are walked, their thread has the mutex, and every step that
\* writes a value or a list needs it.
LEMMA WalkIsUndisturbed ==
    IInv /\ [OrderedNext]_vars => (pc[Rul] = "walk" => value' = value /\ lists' = lists)
  <1> SUFFICES ASSUME IInv, [OrderedNext]_vars, pc[Rul] = "walk"
               PROVE  value' = value /\ lists' = lists
    OBVIOUS
  <1>1. lock = Rul /\ lock # None /\ pc[Rec] # "write"
    BY ThreadsDiffer DEF IInv, LockInv
  <1> USE DEF config, Go
  <1>2. ~Write
    BY <1>1 DEF Write
  <1>3. ~(Alone /\ Clean)
    BY <1>1 DEF Alone
  <1>4. CASE Loads
    BY <1>1, <1>4 DEF Loads, StartParse, Parse, EndParse, Done
  <1>5. CASE \/ Receive \/ SemWait \/ ApplyRule \/ EndWalk \/ Send \/ Alarm \/ Interrupt
             \/ startT \/ stopT \/ Reload
    BY <1>5 DEF Receive, SemWait, ApplyRule, EndWalk, Send, Alarm, Interrupt, Ring, startT,
                stopT, Reload
  <1>6. CASE \E g \in Guis : Apply(g) \/ WalkActions(g) \/ EndHistory(g)
    BY <1>6 DEF Apply, WalkActions, EndHistory
  <1>7. CASE \/ \E L \in Editable, c \in Contents \cup {Bad} : Edit(L, c)
             \/ \E line \in Lines : Type(line)
    BY <1>7 DEF Edit, Type
  <1>8. CASE Locked
    BY <1>1, <1>8 DEF Locked, Decode, DecodeKnown, DecodeUnknown, StartWalk, Lock, WalkSensors,
                      UpdateCrashes
  <1>9. CASE \E g \in Guis : Asks(g)
    BY <1>9 DEF Asks, Command, ReadHead, History, NewFile, CommandCrashes, HistoryCrashes
  <1>10. CASE UNCHANGED vars
    BY <1>10 DEF vars
  <1> QED
    BY <1>2, <1>3, <1>4, <1>5, <1>6, <1>7, <1>8, <1>9, <1>10 DEF OrderedNext, Rest

\* A walk over the rules sees one state of the sensors and of the lists
\* (applyRules under sensorsMutex, rules.c:24-51), when loads take the mutex.
THEOREM WalksAreAtomic == OrderedSpec => WalkSeesOneState
  <1>1. IInv /\ [OrderedNext]_vars =>
            [pc[Rul] = "walk" => value' = value /\ lists' = lists]_vars
    BY WalkIsUndisturbed
  <1>2. OrderedSpec => []IInv
    BY OrderedIsServer, Invariant, PTL
  <1> QED
    BY <1>1, <1>2, PTL DEF OrderedSpec, WalkSeesOneState

-----------------------------------------------------------------------------
(* The walks under the mutex follow no stale pointer, when loads take it.   *)

\* The two threads that walk hold pointers only under the mutex, and into lists
\* that are there and whole.
HeldInv ==
    /\ Rec \notin dangling /\ Rul \notin dangling
    /\ held[Rec] # {} => pc[Rec] = "write"
    /\ held[Rul] # {} => pc[Rul] = "walk"
    /\ \A t \in {Rec, Rul} : \A L \in held[t] : lists[L] # Bad

\* How far the lists are freed: only the rules outlive the actions they point to.
FreedInv ==
    /\ dangling \cap Lists \subseteq {"rules"}
    /\ dangling \cap Lists # {} => reload.does = "clean" /\ reload.at = 2
    /\ reload.does = "clean" =>
          /\ reload.at > 1 => lists["actions"] = None
          /\ reload.at > 2 => lists["rules"] = None
          /\ reload.at > 3 => lists["actuators"] = None
          /\ reload.at > 4 => lists["sensors"] = None

\* A list with a mistake is there only until clean() has freed it.
BadInv ==
    (\E L \in Lists : lists[L] = Bad) =>
        reload.does = "clean" \/ (reload.does = "parse" /\ ~reload.ok)

SafeInv == IInv /\ HeldInv /\ FreedInv /\ BadInv

\* In the initial state nothing is held, freed or half built.
LEMMA InitSafe == Init => SafeInv
  <1> SUFFICES ASSUME Init PROVE SafeInv
    OBVIOUS
  <1>1. /\ dangling = {} /\ reload = NoReload
        /\ \A t \in Threads : held[t] = {}
        /\ \A L \in Lists : lists[L] # Bad
    BY ServerAssumption DEF Init
  <1>2. reload.does = "nothing"
    BY <1>1 DEF NoReload
  <1> QED
    BY <1>1, <1>2, InitIInv, ThreadsDiffer DEF SafeInv, HeldInv, FreedInv, BadInv

\* When nobody has the mutex, the two threads hold nothing.
LEMMA NobodyHolds ==
    ASSUME SafeInv, lock = None
    PROVE  held[Rec] = {} /\ held[Rul] = {}
  BY ThreadsDiffer DEF SafeInv, IInv, LockInv, HeldInv

\* A step that leaves the lists and the load alone, and with which neither
\* thread takes hold of anything, disturbs nothing.
LEMMA QuietKeeps ==
    ASSUME SafeInv, IInv', UNCHANGED <<lists, dangling, reload>>,
           \A t \in {Rec, Rul} : held'[t] = {} \/ (held'[t] = held[t] /\ pc'[t] = pc[t])
    PROVE  SafeInv'
  <1>1. HeldInv'
    BY DEF SafeInv, HeldInv
  <1>2. FreedInv' /\ BadInv'
    BY DEF SafeInv, FreedInv, BadInv
  <1> QED
    BY <1>1, <1>2 DEF SafeInv

\* A GUI's thread that takes hold of lists disturbs nothing but itself.
LEMMA GuiHolds ==
    ASSUME SafeInv, IInv', NEW g \in Guis, NEW S \in SUBSET Lists, Hold(g, S),
           UNCHANGED <<lists, reload>>, pc'[Rec] = pc[Rec], pc'[Rul] = pc[Rul]
    PROVE  SafeInv'
  <1>1. dangling' = dangling \/ dangling' = dangling \cup {g}
    BY DEF Hold
  <1>2. g # Rec /\ g # Rul /\ g \notin Lists
    BY ThreadsDiffer, ServerAssumption
  <1>3. held'[Rec] = held[Rec] /\ held'[Rul] = held[Rul]
    BY <1>2, ThreadsDiffer DEF Hold, SafeInv, IInv, TypeOK
  <1>4. dangling' \cap Lists = dangling \cap Lists
    BY <1>1, <1>2
  <1>5. HeldInv'
    BY <1>1, <1>2, <1>3 DEF SafeInv, HeldInv
  <1>6. FreedInv' /\ BadInv'
    BY <1>4 DEF SafeInv, FreedInv, BadInv
  <1> QED
    BY <1>5, <1>6 DEF SafeInv

\* A step that begins or ends a load, or goes from one part of it to the next,
\* touches neither the lists nor who holds them.
LEMMA LoadKeeps ==
    ASSUME SafeInv, IInv', UNCHANGED <<lists, dangling, held>>,
           pc'[Rec] = pc[Rec], pc'[Rul] = pc[Rul],
           dangling \cap Lists = {},
           reload'.does = "clean" => reload'.at = 1,
           (\E L \in Lists : lists[L] = Bad) => reload'.does = "clean"
    PROVE  SafeInv'
  <1>1. HeldInv'
    BY DEF SafeInv, HeldInv
  <1>2. FreedInv'
    BY DEF FreedInv
  <1>3. BadInv'
    BY DEF BadInv
  <1> QED
    BY <1>1, <1>2, <1>3 DEF SafeInv

\* Every step of the ordered server keeps it.
LEMMA StepSafe == SafeInv /\ [OrderedNext]_vars => SafeInv'
  <1> SUFFICES ASSUME SafeInv, [OrderedNext]_vars PROVE SafeInv'
    OBVIOUS
  <1> USE ThreadsDiffer DEF config, Go
  <1>0. IInv' /\ IInv
    BY StepIInv DEF SafeInv, OrderedNext, Next
  <1>a. /\ pc \in [Threads -> {"idle", "decode", "write", "woken", "walk", "apply", "sensors",
                               "actions", "history", "load"}]
        /\ held \in [Threads -> SUBSET Lists]
        /\ lists \in [Lists -> Contents \cup {Bad, None}] /\ reload \in LoadStates
    BY <1>0 DEF IInv, TypeOK
  <1>b. \A g \in Guis : g \in Threads /\ g # Rec /\ g # Rul
    OBVIOUS
  <1>c. /\ pc[Rec] # "write" => held[Rec] = {}
        /\ pc[Rul] # "walk" => held[Rul] = {}
    BY DEF SafeInv, HeldInv
  <1>1. CASE Receive \/ DecodeUnknown \/ SemWait
    BY <1>1, <1>0, <1>a, <1>c, QuietKeeps DEF Receive, DecodeUnknown, SemWait
  <1>2. CASE Write \/ EndWalk
    BY <1>2, <1>0, <1>a, QuietKeeps DEF Write, EndWalk, Drop
  <1>3. CASE ApplyRule \/ Send \/ Alarm \/ Interrupt
    BY <1>3, <1>0, QuietKeeps DEF ApplyRule, Send, Alarm, Interrupt, Ring
  <1>4. CASE startT \/ stopT \/ \E line \in Lines : Type(line)
    BY <1>4, <1>0, <1>a, QuietKeeps DEF startT, stopT, Serve, Type
  <1>5. CASE \E L \in Editable, c \in Contents \cup {Bad} : Edit(L, c)
    BY <1>5, <1>0, QuietKeeps DEF Edit
  <1>6. CASE \E g \in Guis : CommandCrashes(g) \/ HistoryCrashes(g) \/ UpdateCrashes(g)
    BY <1>6, <1>0, QuietKeeps DEF CommandCrashes, HistoryCrashes, UpdateCrashes
  <1>7. CASE \E g \in Guis : Apply(g) \/ WalkActions(g) \/ EndHistory(g)
    BY <1>7, <1>0, <1>a, <1>b, QuietKeeps DEF Apply, WalkActions, EndHistory, Drop
  <1>8. ASSUME NEW g \in Guis,
               ReadHead(g) \/ History(g) \/ WalkSensors(g) \/ \E c \in Commands : Command(g, c)
        PROVE  SafeInv'
    <2>1. \E S \in SUBSET Lists : Hold(g, S)
      BY <1>8 DEF ReadHead, History, WalkSensors, Command, Lists
    <2>2. /\ UNCHANGED <<lists, reload>> /\ pc'[Rec] = pc[Rec] /\ pc'[Rul] = pc[Rul]
      BY <1>8, <1>a, <1>b DEF ReadHead, History, WalkSensors, Command
    <2> QED
      BY <2>1, <2>2, <1>0, GuiHolds
  <1>9. CASE Settled /\ (DecodeKnown \/ StartWalk)
    <2>1. dangling \cap Lists = {} /\ \A L \in Lists : lists[L] # Bad
      BY <1>9 DEF SafeInv, FreedInv, BadInv, Settled
    <2>2. PICK t \in {Rec, Rul} :
              /\ (Drop(t) /\ UNCHANGED dangling) \/ \E S \in SUBSET Lists : Hold(t, S)
              /\ UNCHANGED <<lists, reload>>
              /\ pc' = [pc EXCEPT ![t] = IF t = Rec THEN "write" ELSE "walk"]
      BY <1>9 DEF DecodeKnown, StartWalk, Lists
    <2>3. dangling' = dangling
      BY <2>1, <2>2 DEF Hold
    <2>4. /\ \A u \in {Rec, Rul} \ {t} : held'[u] = held[u] /\ pc'[u] = pc[u]
          /\ held'[t] \subseteq Lists /\ pc'[Rec] = (IF t = Rec THEN "write" ELSE pc[Rec])
          /\ pc'[Rul] = (IF t = Rul THEN "walk" ELSE pc[Rul])
      BY <2>2, <1>a DEF Hold, Drop
    <2>5. HeldInv'
      BY <2>1, <2>2, <2>3, <2>4, <1>a DEF SafeInv, HeldInv
    <2>6. FreedInv' /\ BadInv'
      BY <2>2, <2>3 DEF SafeInv, FreedInv, BadInv
    <2> QED
      BY <2>5, <2>6, <1>0 DEF SafeInv
  <1>10. CASE Reload \/ \E g \in Guis, L \in Sendable, c \in Contents \cup {Bad} : NewFile(g, L, c)
    <2>1. reload = NoReload /\ UNCHANGED <<lists, dangling, held>>
      BY <1>10 DEF Reload, NewFile
    <2>2. reload'.does = "clean" /\ reload'.at = 1
      BY <1>10 DEF Reload, NewFile, NoReload
    <2>3. pc'[Rec] = pc[Rec] /\ pc'[Rul] = pc[Rul]
      BY <1>10, <1>a, <1>b DEF Reload, NewFile, Serve
    <2>4. dangling \cap Lists = {}
      BY <2>1 DEF NoReload, SafeInv, FreedInv
    <2> QED
      BY <2>1, <2>2, <2>3, <2>4, <1>0, LoadKeeps
  <1>11. CASE Alone /\ Clean
    <2>1. held[Rec] = {} /\ held[Rul] = {}
      BY <1>11, NobodyHolds DEF Alone
    <2>2. PICK k \in 1..4 : k = reload.at
      BY <1>11, <1>a DEF Clean, LoadStates
    <2>3. /\ reload.does = "clean" /\ lists' = [lists EXCEPT ![CleanOrder[k]] = None]
          /\ dangling' = (dangling \ {CleanOrder[k]})
                \cup {M \in Lists \ {CleanOrder[k]} : lists[M] # None /\ CleanOrder[k] \in PointsTo[M]}
                \cup {t \in Threads : CleanOrder[k] \in held[t]}
          /\ reload' = [reload EXCEPT !.at = @ + 1] /\ UNCHANGED <<held, pc>>
      BY <1>11, <2>2 DEF Clean
    <2>4. reload'.does = "clean" /\ reload'.at = k + 1
      BY <2>2, <2>3, <1>a DEF LoadStates
    <2>5. CleanOrder[k] \in Lists
      BY <2>2 DEF CleanOrder, Lists
    <2>6. HeldInv'
      <3>1. Rec \notin dangling' /\ Rul \notin dangling'
        BY <2>1, <2>3, ServerAssumption DEF SafeInv, HeldInv
      <3> QED
        BY <3>1, <2>1, <2>3 DEF HeldInv
    <2>7. dangling' \cap Lists =
              ((dangling \cap Lists) \ {CleanOrder[k]})
                  \cup {M \in Lists \ {CleanOrder[k]} : lists[M] # None /\ CleanOrder[k] \in PointsTo[M]}
      BY <2>3, ServerAssumption
    <2>8. FreedInv
      BY DEF SafeInv
    <2>9. FreedInv'
      <3>1. CASE k = 1
        BY <3>1, <2>2, <2>3, <2>4, <2>7, <2>8, <1>a DEF FreedInv, CleanOrder, PointsTo, Lists
      <3>2. CASE k = 2
        BY <3>2, <2>2, <2>3, <2>4, <2>7, <2>8, <1>a DEF FreedInv, CleanOrder, PointsTo, Lists
      <3>3. CASE k = 3
        BY <3>3, <2>2, <2>3, <2>4, <2>7, <2>8, <1>a DEF FreedInv, CleanOrder, PointsTo, Lists
      <3>4. CASE k = 4
        BY <3>4, <2>2, <2>3, <2>4, <2>7, <2>8, <1>a DEF FreedInv, CleanOrder, PointsTo, Lists
      <3> QED
        BY <3>1, <3>2, <3>3, <3>4
    <2>10. BadInv'
      BY <2>4 DEF BadInv
    <2> QED
      BY <2>6, <2>9, <2>10, <1>0 DEF SafeInv
  <1>12. CASE StartParse
    <2>1. /\ reload.does = "clean" /\ reload.at > 4 /\ UNCHANGED <<lists, dangling, held, pc>>
          /\ \/ UNCHANGED reload
             \/ reload' = [reload EXCEPT !.does = "parse", !.at = 1, !.ok = TRUE, !.init = IsInit]
      BY <1>12 DEF StartParse
    <2>2. CASE UNCHANGED reload
      BY <2>1, <2>2, <1>0, QuietKeeps
    <2>3. CASE reload' = [reload EXCEPT !.does = "parse", !.at = 1, !.ok = TRUE, !.init = IsInit]
      <3>1. reload'.does = "parse"
        BY <2>3, <1>a DEF LoadStates
      <3>2. dangling \cap Lists = {} /\ \A L \in Lists : lists[L] = None
        <4>1. reload.at = 5
          BY <2>1, <1>a DEF LoadStates
        <4> QED
          BY <2>1, <4>1 DEF SafeInv, FreedInv, Lists
      <3>3. \A L \in Lists : lists[L] # Bad
        BY <3>2, ServerAssumption
      <3> QED
        BY <2>1, <3>1, <3>2, <3>3, <1>0, LoadKeeps
    <2> QED
      BY <2>1, <2>2, <2>3
  <1>13. CASE Parse
    <2>1. held[Rec] = {} /\ held[Rul] = {}
      BY <1>13, NobodyHolds DEF Parse
    <2>2. PICK L \in Lists, c \in Contents \cup {Bad, None} :
              /\ lists' = [lists EXCEPT ![L] = c]
              /\ reload' = [reload EXCEPT !.at = @ + 1, !.ok = c # Bad]
      <3>1. reload.at \in 1..4
        BY <1>13, <1>a DEF Parse, LoadStates
      <3>2. ParseOrder[reload.at] \in Lists
        BY <3>1 DEF ParseOrder, Lists
      <3>3. file[ParseOrder[reload.at]] \in Contents \cup {Bad}
        BY <3>2, <1>0 DEF IInv, TypeOK
      <3>4. reload.content \in Contents \cup {Bad, None}
        BY <1>a DEF LoadStates
      <3> QED
        BY <1>13, <3>2, <3>3, <3>4 DEF Parse
    <2>3. /\ reload.does = "parse" /\ reload.ok /\ UNCHANGED <<dangling, held, pc>>
      BY <1>13 DEF Parse
    <2>4. reload'.does = "parse" /\ reload'.ok = (c # Bad)
      BY <2>2, <2>3, <1>a DEF LoadStates
    <2>5. HeldInv'
      BY <2>1, <2>3 DEF SafeInv, HeldInv
    <2>6. FreedInv'
      BY <2>3, <2>4 DEF SafeInv, FreedInv
    <2>7. BadInv'
      BY <2>2, <2>3, <2>4, <1>a DEF SafeInv, BadInv
    <2> QED
      BY <2>5, <2>6, <2>7, <1>0 DEF SafeInv
  <1>14. CASE EndParse
    <2>1. /\ reload.does = "parse" /\ UNCHANGED <<lists, dangling, held, pc>>
          /\ reload' = IF reload.ok THEN [reload EXCEPT !.does = "done"] ELSE Fallback
      BY <1>14 DEF EndParse
    <2>2. dangling \cap Lists = {} /\ (reload.ok => \A L \in Lists : lists[L] # Bad)
      BY <2>1 DEF SafeInv, FreedInv, BadInv
    <2>3. /\ reload.ok => reload'.does = "done"
          /\ ~reload.ok => reload'.does = "clean" /\ reload'.at = 1
      BY <2>1, <1>a DEF LoadStates, Fallback, NoReload
    <2> QED
      BY <2>1, <2>2, <2>3, <1>0, LoadKeeps
  <1>15. CASE Done
    <2>1. /\ reload.does = "done" /\ UNCHANGED <<lists, dangling, held>> /\ reload' = NoReload
          /\ pc' = [pc EXCEPT ![reload.by] = "idle"]
      BY <1>15 DEF Done
    <2>2. pc'[Rec] = pc[Rec] /\ pc'[Rul] = pc[Rul]
      BY <2>1, <1>0, <1>a DEF IInv, LoadInv
    <2>3. dangling \cap Lists = {} /\ \A L \in Lists : lists[L] # Bad
      BY <2>1 DEF SafeInv, FreedInv, BadInv
    <2>4. reload'.does = "nothing"
      BY <2>1 DEF NoReload
    <2> QED
      BY <2>1, <2>2, <2>3, <2>4, <1>0, LoadKeeps
  <1>16. CASE UNCHANGED vars
    BY <1>16, <1>0, QuietKeeps DEF vars
  <1> QED
    BY <1>1, <1>2, <1>3, <1>4, <1>5, <1>6, <1>7, <1>8, <1>9, <1>10, <1>11, <1>12, <1>13, <1>14,
       <1>15, <1>16 DEF OrderedNext, Rest, Decode, Locked, Asks, Loads

\* The threads that follow pointers under the mutex follow none into a list that
\* was freed or that a file with a mistake left half built (sensors.c:37), if
\* cleanMemory takes the mutex and parseFile keeps it over a mistake. What the
\* GUIs' threads do without the mutex is free in OrderedSpec, and nothing is
\* said of them.
THEOREM NoStalePointers == OrderedSpec => []WalksLive
  <1>1. SafeInv => WalksLive
    BY DEF SafeInv, HeldInv, WalksLive, Live
  <1> QED
    BY <1>1, InitSafe, StepSafe, PTL DEF OrderedSpec

-----------------------------------------------------------------------------
(* Memory and disk: whatever is loaded, edited, refused or moved into place *)
(* in whatever order, also when loads do not take the mutex.                *)

\* A list is the file it was parsed from, unless that was changed since.
Matches(L) == L \in edited \/ lists[L] = file[L]
\* The list whose file a GUI has sent is the file that was sent.
Loaded(L) ==
    IF reload.goal = "reparse" /\ L = reload.new THEN lists[L] = reload.content ELSE Matches(L)

\* What the load under way has loaded so far.
DiskInv ==
    /\ reload.does = "nothing" => \A L \in Lists : Matches(L)
    /\ reload.does = "parse" => \A i \in 1..4 : i < reload.at => Loaded(ParseOrder[i])
    /\ reload.does = "done" => \A L \in Lists : Loaded(L)

\* Something on disk is wrong or new.
DiskChanged == \E L \in Lists : file[L] = Bad \/ L \in edited

\* A load that is to end the server has met a mistake on disk, and the parser
\* ends it over what the lists say.
StopInv ==
    /\ up = "exited" => DiskChanged \/ \E L \in Lists : Ends(L, lists) = "exited"
    /\ reload.goal = "exit" => reload.does = "clean" /\ DiskChanged
    /\ reload.does = "parse" => (reload.init <=> reload.goal # "reparse")
    /\ reload.does = "parse" /\ reload.goal # "reparse" /\ ~reload.ok => DiskChanged

LoadsInv == IInv /\ DiskInv /\ StopInv

\* The four lists, in the order in which they are parsed.
LEMMA ParseOrderCovers ==
    /\ \A i \in 1..4 : ParseOrder[i] \in Lists
    /\ \A L \in Lists : \E i \in 1..4 : ParseOrder[i] = L
    /\ \A i, j \in 1..4 : ParseOrder[i] = ParseOrder[j] => i = j
  <1>1. /\ ParseOrder[1] = "sensors" /\ ParseOrder[2] = "actuators"
        /\ ParseOrder[3] = "actions" /\ ParseOrder[4] = "rules"
    BY DEF ParseOrder
  <1>2. \A i \in 1..4 : i = 1 \/ i = 2 \/ i = 3 \/ i = 4
    OBVIOUS
  <1> QED
    BY <1>1, <1>2 DEF Lists

\* At the start everything was just loaded.
LEMMA InitLoads == Init => LoadsInv
  <1> SUFFICES ASSUME Init PROVE LoadsInv
    OBVIOUS
  <1>1. lists = file /\ up = "up" /\ reload.does = "nothing" /\ reload.goal = "all"
    BY DEF Init, NoReload
  <1> QED
    BY <1>1, InitIInv DEF LoadsInv, DiskInv, StopInv, Matches

\* The steps that neither load, edit nor end anything leave all of this alone.
LEMMA OthersKeepDisk ==
    ASSUME [Next]_vars,
           ~Clean, ~Loads, ~Reload,
           ~\E g \in Guis : CommandCrashes(g) \/ HistoryCrashes(g) \/ UpdateCrashes(g),
           ~\E g \in Guis, L \in Sendable, c \in Contents \cup {Bad} : NewFile(g, L, c),
           ~\E L \in Editable, c \in Contents \cup {Bad} : Edit(L, c)
    PROVE  UNCHANGED <<up, lists, file, edited, reload>>
  <1> USE DEF config, Go
  <1>1. CASE Receive \/ Write \/ SemWait \/ ApplyRule \/ EndWalk \/ Send \/ Alarm \/ Interrupt
    BY <1>1 DEF Receive, Write, SemWait, ApplyRule, EndWalk, Send, Alarm, Interrupt, Ring, Drop
  <1>2. CASE \E g \in Guis : Apply(g) \/ WalkSensors(g) \/ WalkActions(g) \/ EndHistory(g)
    BY <1>2 DEF Apply, WalkSensors, WalkActions, EndHistory
  <1>3. CASE startT \/ stopT \/ \E line \in Lines : Type(line)
    BY <1>3 DEF startT, stopT, Type, Serve
  <1>4. CASE DecodeKnown \/ DecodeUnknown \/ StartWalk
    BY <1>4 DEF DecodeKnown, DecodeUnknown, StartWalk
  <1>5. CASE \E g \in Guis : ReadHead(g) \/ History(g) \/ \E c \in Commands : Command(g, c)
    BY <1>5 DEF ReadHead, History, Command
  <1>6. CASE UNCHANGED vars
    BY <1>6 DEF vars
  <1> QED
    BY <1>1, <1>2, <1>3, <1>4, <1>5, <1>6 DEF Next, Rest, Decode, Locked, Asks

\* Every step keeps what was loaded in step with the disk.
LEMMA StepLoads == LoadsInv /\ [Next]_vars => LoadsInv'
  <1> SUFFICES ASSUME LoadsInv, [Next]_vars PROVE LoadsInv'
    OBVIOUS
  <1> DEFINE Now == <<up, lists, file, edited, reload>>
  <1>0. IInv /\ IInv'
    BY StepIInv DEF LoadsInv
  <1>a. /\ reload \in LoadStates /\ lists \in [Lists -> Contents \cup {Bad, None}]
        /\ file \in [Lists -> Contents \cup {Bad}] /\ edited \subseteq Lists
    BY <1>0 DEF IInv, TypeOK
  <1>b. reload.at \in 1..5 /\ reload.ok \in BOOLEAN /\ reload.init \in BOOLEAN
    BY <1>a DEF LoadStates
  <1>1. CASE UNCHANGED Now
    BY <1>1, <1>0 DEF LoadsInv, DiskInv, StopInv, Loaded, Matches, DiskChanged
  <1>2. CASE \E g \in Guis : CommandCrashes(g) \/ HistoryCrashes(g) \/ UpdateCrashes(g)
    <2>1. up' = "crashed" /\ UNCHANGED <<lists, file, edited, reload>>
      BY <1>2 DEF CommandCrashes, HistoryCrashes, UpdateCrashes, config
    <2> QED
      BY <2>1, <1>0 DEF LoadsInv, DiskInv, StopInv, Loaded, Matches, DiskChanged
  <1>3. CASE Reload \/ \E g \in Guis, L \in Sendable, c \in Contents \cup {Bad} : NewFile(g, L, c)
    <2>1. UNCHANGED <<up, lists, file, edited>>
      BY <1>3 DEF Reload, NewFile, Serve, Go
    <2>2. reload'.does = "clean" /\ reload'.goal # "exit"
      BY <1>3 DEF Reload, NewFile, NoReload
    <2> QED
      BY <2>1, <2>2, <1>0 DEF LoadsInv, DiskInv, StopInv, DiskChanged
  <1>4. CASE Clean
    <2>1. /\ up = "up" /\ UNCHANGED <<up, file, edited>>
          /\ reload' = [reload EXCEPT !.at = @ + 1]
      BY <1>4 DEF Clean
    <2>2. reload'.does = "clean" /\ reload'.goal = reload.goal
      BY <1>4, <2>1, <1>a DEF Clean, LoadStates
    <2> QED
      BY <2>1, <2>2, <1>0 DEF LoadsInv, DiskInv, StopInv, DiskChanged
  <1>5. ASSUME NEW L \in Editable, NEW c \in Contents \cup {Bad}, Edit(L, c)
        PROVE  LoadsInv'
    <2>1. /\ UNCHANGED <<up, lists, reload>> /\ file' = [file EXCEPT ![L] = c]
          /\ edited' = edited \cup {L} /\ L \in Lists
      BY <1>5, ServerAssumption DEF Edit
    <2>2. \A M \in Lists : Matches(M) => Matches(M)'
      BY <2>1, <1>a DEF Matches
    <2>3. \A M \in Lists : Loaded(M) => Loaded(M)'
      BY <2>1, <2>2 DEF Loaded
    <2>4. DiskChanged'
      BY <2>1 DEF DiskChanged
    <2> QED
      BY <2>1, <2>2, <2>3, <2>4, <1>0, ParseOrderCovers DEF LoadsInv, DiskInv, StopInv
  <1>6. CASE StartParse
    <2>1. UNCHANGED <<lists, file, edited>>
      BY <1>6 DEF StartParse
    <2>2. CASE reload.goal = "exit"
      BY <1>6, <2>1, <2>2, <1>0
         DEF StartParse, LoadsInv, DiskInv, StopInv, Loaded, Matches, DiskChanged
    <2>3. CASE reload.goal # "exit"
      <3>1. /\ up' = up
            /\ reload' = [reload EXCEPT !.does = "parse", !.at = 1, !.ok = TRUE, !.init = IsInit]
        BY <1>6, <2>3 DEF StartParse
      <3>2. /\ reload'.does = "parse" /\ reload'.at = 1 /\ reload'.ok = TRUE
            /\ reload'.goal = reload.goal /\ reload'.init = (reload.goal # "reparse")
        BY <3>1, <1>a DEF LoadStates, IsInit
      <3> QED
        <4>1. DiskInv'
          BY <3>2 DEF DiskInv
        <4>2. StopInv'
          BY <2>1, <2>3, <3>1, <3>2 DEF LoadsInv, StopInv, DiskChanged
        <4> QED
          BY <4>1, <4>2, <1>0 DEF LoadsInv
    <2> QED
      BY <2>2, <2>3
  <1>7. CASE Parse
    <2>0. PICK k \in 1..5 : k = reload.at
      BY <1>b
    <2> DEFINE M == ParseOrder[k]
               c == IF reload.goal = "reparse" /\ M = reload.new THEN reload.content ELSE file[M]
    <2>1. /\ up = "up" /\ reload.does = "parse" /\ k \in 1..4 /\ reload.at = k /\ reload.ok
          /\ UNCHANGED file /\ lists' = [lists EXCEPT ![M] = c] /\ up' = Ends(M, lists')
          /\ reload' = [reload EXCEPT !.at = @ + 1, !.ok = c # Bad]
          /\ edited' = IF c = file[M] THEN edited \ {M} ELSE edited
      BY <1>7, <2>0 DEF Parse
    <2>2. M \in Lists
      BY <2>1, ParseOrderCovers
    <2>3. /\ reload'.does = "parse" /\ reload'.at = k + 1 /\ reload'.ok = (c # Bad)
          /\ reload'.goal = reload.goal /\ reload'.new = reload.new
          /\ reload'.content = reload.content /\ reload'.init = reload.init
      BY <2>1, <1>a DEF LoadStates
    <2>4. Loaded(M)'
      BY <2>1, <2>2, <2>3, <1>a DEF Loaded, Matches
    <2>5. \A i \in 1..4 : i < k => Loaded(ParseOrder[i])'
      <3> SUFFICES ASSUME NEW i \in 1..4, i < k PROVE Loaded(ParseOrder[i])'
        OBVIOUS
      <3>1. ParseOrder[i] \in Lists /\ ParseOrder[i] # M
        BY <2>1, ParseOrderCovers
      <3>2. Loaded(ParseOrder[i])
        BY <2>1 DEF LoadsInv, DiskInv
      <3> QED
        BY <2>1, <2>3, <3>1, <3>2, <1>a DEF Loaded, Matches
    <2>6. DiskInv'
      <3>1. \A i \in 1..4 : i < k + 1 => i < k \/ i = k
        BY <2>1
      <3> QED
        BY <2>3, <2>4, <2>5, <3>1 DEF DiskInv
    <2>7. reload.goal # "reparse" /\ c = Bad => DiskChanged'
      BY <2>1, <2>2 DEF DiskChanged
    <2>8. reload.goal # "exit" /\ (reload.init <=> reload.goal # "reparse")
      BY <2>1 DEF LoadsInv, StopInv
    <2>9. StopInv'
      <3>1. up' = "exited" => Ends(M, lists') = "exited"
        BY <2>1
      <3> QED
        BY <2>1, <2>2, <2>3, <2>7, <2>8, <3>1 DEF StopInv
    <2> QED
      BY <1>0, <2>6, <2>9 DEF LoadsInv
  <1>8. CASE EndParse
    <2>1. /\ up = "up" /\ reload.does = "parse" /\ (reload.at = 5 \/ ~reload.ok)
          /\ UNCHANGED <<up, lists, file, edited>>
          /\ reload' = IF reload.ok THEN [reload EXCEPT !.does = "done"] ELSE Fallback
      BY <1>8, <1>b DEF EndParse
    <2>2. reload.goal # "exit" /\ (reload.init <=> reload.goal # "reparse")
      BY <2>1 DEF LoadsInv, StopInv
    <2>3. CASE reload.ok
      <3>1. /\ reload'.does = "done" /\ reload'.goal = reload.goal /\ reload'.new = reload.new
            /\ reload'.content = reload.content
        BY <2>1, <2>3, <1>a DEF LoadStates
      <3>2. \A L \in Lists : Loaded(L)
        BY <2>1, <2>3, ParseOrderCovers DEF LoadsInv, DiskInv
      <3>3. \A L \in Lists : Loaded(L)'
        BY <2>1, <3>1, <3>2 DEF Loaded, Matches
      <3> QED
        BY <2>1, <2>2, <3>1, <3>3, <1>0 DEF LoadsInv, DiskInv, StopInv
    <2>4. CASE ~reload.ok
      <3>1. reload'.does = "clean" /\ (reload'.goal = "exit" => reload.init)
        BY <2>1, <2>4 DEF Fallback, NoReload
      <3>2. reload'.goal = "exit" => DiskChanged
        BY <2>1, <2>2, <2>4, <3>1 DEF LoadsInv, StopInv
      <3> QED
        BY <2>1, <3>1, <3>2, <1>0 DEF LoadsInv, DiskInv, StopInv, DiskChanged
    <2> QED
      BY <2>3, <2>4
  <1>9. CASE Done
    <2>1. /\ up = "up" /\ up' = "up" /\ reload.does = "done" /\ lists' = lists
          /\ reload'.does = "nothing" /\ reload'.goal = "all"
          /\ file' = IF reload.goal = "reparse"
                     THEN [file EXCEPT ![reload.new] = reload.content] ELSE file
          /\ edited' = IF reload.goal = "reparse" THEN edited \ {reload.new} ELSE edited
      BY <1>9 DEF Done, NoReload
    <2>2. \A L \in Lists : Loaded(L)
      BY <2>1 DEF LoadsInv, DiskInv
    <2>3. reload.goal = "reparse" => reload.new \in Lists
      BY <1>0 DEF IInv, LoadInv
    <2>4. \A L \in Lists : Matches(L)'
      BY <2>1, <2>2, <2>3, <1>a DEF Loaded, Matches
    <2> QED
      BY <2>1, <2>4, <1>0 DEF LoadsInv, DiskInv, StopInv
  <1> QED
    BY <1>1, <1>2, <1>3, <1>4, <1>5, <1>6, <1>7, <1>8, <1>9, OthersKeepDisk DEF Loads

\* This holds in every run, ordered or not.
LEMMA LoadsInvariant == Spec => []LoadsInv
  <1> QED
    BY InitLoads, StepLoads, PTL DEF Spec

\* When no load is under way, the lists in memory are the files on disk, those
\* that were changed since apart (processTypeEData moves the GUI's file into
\* place, guiInterface.c:484-520; clean() falls back, rules.y:759-768).
THEOREM MemoryMatchesDisk == Spec => []DiskMatches
  <1>1. LoadsInv => DiskMatches
    BY DEF LoadsInv, DiskInv, DiskMatches, Matches, NoReload
  <1> QED
    BY <1>1, LoadsInvariant, PTL

\* A mistake in the grammar of a file that a GUI sends never stops the server
\* (clean, rules.y:759-768): what stops it is on disk, or what a file says in
\* good grammar, a GUI's as well (setConditionName, rules.c:145-148).
THEOREM GuiGrammarStopsNothing == Spec => []OnlyDiskStops
  <1>1. LoadsInv => OnlyDiskStops
    BY DEF LoadsInv, StopInv, DiskChanged, OnlyDiskStops
  <1> QED
    BY <1>1, LoadsInvariant, PTL
==============================================================================
