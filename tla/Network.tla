-------------------------------- MODULE Network --------------------------------
(***************************************************************************)
(* The server between its GUIs and the gateway: the commands that come in  *)
(* over the connections of Clients are carried out (guiInterface.c,        *)
(* actions.c), some as answers, some as frames for the connection of Wire. *)
(* The server may stop at any moment and start again.                      *)
(***************************************************************************)
EXTENDS Wire, Clients, Frames, Functions

CONSTANTS
    Actions(_),  \* the functions of an action; one unset, if there is no such action
    Updates,     \* the commands that are answered
    LongTexts,   \* those whose text is too long for traite
    LongAnswers, \* those whose answer is too long for a queue
    Plans        \* what GUIs and gateway do

\* A plan has what each GUI says in each life of the server.  The steps of a
\* command know it and their place in it.
ASSUME PlansAssumption ==
    \A pl \in Plans :
        /\ Len(pl.says) \in Nat \ {0}
        /\ \A l \in 1..Len(pl.says), i \in Conns :
              /\ Len(pl.says[l][i]) \in Nat
              /\ \A n \in 1..Len(pl.says[l][i]) :
                    LET c == [life |-> l, conn |-> i, n |-> n, kind |-> pl.says[l][i][n]]
                        s == Steps(c)
                    IN  /\ Len(s) \in Nat
                        /\ s = [k \in 1..Len(s) |-> [cmd |-> c, k |-> k, fct |-> s[k].fct]]
                        /\ \A k \in 1..Len(s) : s[k] # NoAnswer

VARIABLES
    up,       \* the server runs
    plan,     \* what the others do in this run
    carried   \* history: what each frame was put in the queue for

vars == <<wire, clients, up, plan, carried>>

\* A command: in which life and over which connection it came as which one.
Command(i, n) ==
    [life |-> life, conn |-> i, n |-> n, kind |-> plan.says[life][i][n]]

CommandFits(c) == c.kind \notin LongTexts
StepFits(step) == step.cmd.kind \notin LongAnswers

\* What processCommand does for it: an answer, or applyAction.  A function that
\* the actuator does not have was left unset, and is called all the same.
StepsOf(c) ==
    LET Does(fct) == Sends(fct) \/ ~Known(fct)
        sent == SelectSeq(IF c.kind \in Updates THEN <<>> ELSE Actions(c.kind), Does)
    IN  IF c.kind \in Updates THEN <<[cmd |-> c, k |-> 1, fct |-> None]>>
        ELSE [k \in DOMAIN sent |-> [cmd |-> c, k |-> k, fct |-> sent[k]]]
ToGui(step) == step.fct = None
ToAir(step) == step.fct # None

Init ==
    /\ WireInit /\ ClientsInit
    /\ up = TRUE /\ plan \in Plans /\ carried = <<>>

-----------------------------------------------------------------------------
(* The others.                                                              *)

Others ==
    \/ /\ \E i \in Conns : \/ plan.leaves /\ Leaves(i)
                           \/ /\ Len(said[i]) < Len(plan.says[life][i])
                              /\ Says(i, Command(i, Len(said[i]) + 1))
       /\ UNCHANGED <<wire, up, plan, carried>>
    \/ /\ \/ gw < plan.gw /\ GatewaySends
          \/ plan.closes /\ GatewayCloses
       /\ UNCHANGED <<clients, up, plan, carried>>

-----------------------------------------------------------------------------
(* The threads of the server.                                               *)

Connect ==
    /\ up
    /\ \E i \in Conns : \/ plan.says[life][i] # <<>> /\ Accept(i)
                       \/ StartRec(i) \/ StartSend(i)
    /\ UNCHANGED <<wire, up, plan, carried>>

\* guiMsgRec.  What the server does once a buffer was overrun is undefined, and
\* followed no further.
Reads(i) ==
    /\ up
    /\ \/ /\ (\E n \in 1..ChunkLen : RecvChunk(i, n)) \/ ParseByte(i) \/ cleanClient(i)
          /\ UNCHANGED up
       \/ Overruns(i) /\ up' = FALSE /\ UNCHANGED clients
    /\ UNCHANGED <<wire, plan, carried>>

\* The steps of the command under way.  The call of a function that was left
\* unset follows NULL.
CarriesOut(i) ==
    /\ up /\ todo[i] # <<>>
    /\ \/ /\ ToAir(Head(todo[i])) /\ Known(Head(todo[i]).fct)
          /\ sensorsNetworkSend
          /\ StepDone(i)
          /\ carried' = Append(carried, Head(todo[i]))
          /\ UNCHANGED <<up, life, phase, said, left, parser, mailbox>>
       \/ /\ ToAir(Head(todo[i])) /\ ~Known(Head(todo[i]).fct)
          /\ up' = FALSE
          /\ UNCHANGED <<wire, clients, carried>>
       \/ /\ ToGui(Head(todo[i]))
          /\ guiNetworkSend(i)
          /\ UNCHANGED <<wire, up, carried>>
    /\ UNCHANGED plan

\* guiMsgSend.
Answers(i) ==
    /\ up
    /\ TakeAnswer(i) \/ SendAnswer(i)
    /\ UNCHANGED <<wire, up, plan, carried>>

sensorsMsgSend ==
    /\ up
    /\ TakeFrame \/ \E k \in 1..FrameLen : SendPart(k)
    /\ UNCHANGED <<clients, up, plan, carried>>

sensorsMsgRec ==
    /\ up
    /\ (\E n \in 1..BuffLen, junk \in 0..MaxJunk : Recv(n, junk)) \/ Byte
    /\ UNCHANGED <<clients, up, plan, carried>>

-----------------------------------------------------------------------------
(* The end of the server.                                                   *)

\* It is told to stop; it sends to a gateway or to a GUI that has left
\* (SIGPIPE); or a GUI leaves and recv fails (ECONNRESET), or it has left before
\* the thread that accepted it has started the second one, and what is
\* cancelled is no thread: FAIL exits.
Ends ==
    \/ plan.stops
    \/ ~open /\ sending # None
    \/ \E i \in Conns : left[i] /\ hand[i] # NoAnswer
    \/ \E i \in Conns : AtRecv(i) /\ left[i]
Stop == up /\ Ends /\ up' = FALSE /\ UNCHANGED <<wire, clients, plan, carried>>

StartAgain ==
    /\ ~up /\ life < Len(plan.says)
    /\ up' = TRUE
    /\ Disconnect /\ Restart
    /\ UNCHANGED <<plan, carried>>

-----------------------------------------------------------------------------
Next ==
    \/ Others \/ Connect \/ sensorsMsgSend \/ sensorsMsgRec \/ Stop \/ StartAgain
    \/ \E i \in Conns : Reads(i) \/ CarriesOut(i) \/ Answers(i)
Spec == Init /\ [][Next]_vars

\* The threads run, and send takes at least a byte; nobody has to ask for
\* anything, and a stopped server need not be started again.
FairSpec ==
    /\ Spec
    /\ WF_vars(Connect) /\ WF_vars(sensorsMsgSend) /\ WF_vars(sensorsMsgRec)
    /\ \A i \in Conns :
          WF_vars(Reads(i)) /\ SF_vars(CarriesOut(i)) /\ WF_vars(Answers(i))

-----------------------------------------------------------------------------
(* Properties.                                                              *)

\* The variables stay in their types; no queue is over its size.
TypeOK ==
    /\ up \in BOOLEAN /\ open \in BOOLEAN /\ overrun \in BOOLEAN
    /\ put \in Nat /\ gw \in Nat /\ life \in Nat /\ mq \in Seq(1..put) /\ Len(mq) <= MqSize
    /\ sending \in [frame : 1..put, nbSent : 0..FrameLen - 1, asks : 1..FrameLen] \cup {None}
    /\ delivered \in Seq(1..put) /\ Len(data) < FrameLen /\ Len(carried) = put
    /\ phase \in [Conns -> {"none", "listed", "rec", "on", "zombie"}]
    /\ left \in [Conns -> BOOLEAN] /\ blocs \in [Conns -> Nat]
    /\ \A i \in Conns : Len(answers[i]) <= AnswersSize

\* However recv cuts its stream, what a GUI's commands are cut into is these
\* commands, whole, once and in their order.  Behind a text or a recv that is too
\* long for its buffer it says nothing, because Reads does not.
CommandsWhole ==
    \A i \in Conns : /\ Len(done[i]) <= Len(said[i])
                     /\ \A n \in DOMAIN done[i] : done[i][n] = CommandBytes(said[i][n])

\* Steps of one client are said in the order of lives, of commands, and of the
\* places in them.
Precedes(s, t) ==
    s.cmd.conn = t.cmd.conn =>
        \/ s.cmd.life < t.cmd.life
        \/ s.cmd.life = t.cmd.life /\ s.cmd.n < t.cmd.n
        \/ s.cmd.life = t.cmd.life /\ s.cmd.n = t.cmd.n /\ s.k < t.k
InOrder(steps) == \A a, b \in DOMAIN steps : a < b => Precedes(steps[a], steps[b])

\* What the commands that were handed to processCommand are to do.
StepsDue(i) == UNION {Range(Steps(said[i][n])) : n \in DOMAIN done[i]}
Of(i, step) == step.cmd.life = life /\ step.cmd.conn = i

\* The frames of a client's commands enter the queue each once, in the order
\* of its commands and in theirs, whatever the others put between them; those
\* that have not are the ones that are left of the command under way.
CarriedOutInOrder ==
    \A i \in Conns :
        /\ InOrder(carried \o todo[i])
        /\ {s \in Range(carried) : Of(i, s)} \cup {s \in Range(todo[i]) : ToAir(s)}
             = {s \in StepsDue(i) : ToAir(s)}

\* Every frame that is sent to an actuator has the length that is sent, and
\* ends with the checksum that actionneurs.c:11 asks for.
FramesRight ==
    [][carried' # carried => FrameRight(FrameOf(carried'[Len(carried')].fct))]_carried

\* A GUI gets the answers to its own commands, each once and in their order,
\* but for those that are too long for the queue, of which it hears nothing.
\* Before them it may get what an earlier life owed to the connection of the
\* same number.
OwnAnswers ==
    \A i \in Conns :
        LET inHand == IF hand[i] = NoAnswer THEN <<>> ELSE <<hand[i]>>
            all == got[i] \o inHand \o answers[i]
        IN  /\ \A s \in Range(all) : s.cmd.conn = i /\ s.cmd.life <= life /\ AnswerFits(s)
            /\ InOrder(all \o todo[i])
            /\ ~left[i] =>
                 {s \in Range(all) : Of(i, s)}
                     \cup {s \in Range(todo[i]) : ToGui(s) /\ AnswerFits(s)}
                   = {s \in StepsDue(i) : ToGui(s) /\ AnswerFits(s)}

\* As long as the server runs and nobody has left, every command said to it is
\* cut out and carried out to its end, every answer and every frame is sent,
\* and the frames of the gateway are decoded, those behind a full buffer apart.
EverythingArrives ==
    []<>(up /\ open =>
            /\ mq = <<>> /\ sending = None
            /\ ~overrun => Len(decoded) = gw
            /\ \A i \in Conns : ~left[i] /\ phase[i] # "none" =>
                  /\ Len(done[i]) = Len(said[i]) /\ todo[i] = <<>>
                  /\ answers[i] = <<>> /\ hand[i] = NoAnswer)
==============================================================================
