-------------------------------- MODULE Clients --------------------------------
(***************************************************************************)
(* The GUI clients' connections (server/src/guiNetwork.c): the thread that *)
(* accepts them, and for each client one that cuts its stream into         *)
(* commands and one that sends it the answers.                             *)
(*                                                                         *)
(* Connections are numbered from 0 in each life of the server, as the      *)
(* queues of their answers are; these belong to the system and outlive the *)
(* server.  A byte of a command is the command and its place in it;        *)
(* Brackets says what that place does to the count of open brackets.       *)
(***************************************************************************)
EXTENDS Integers, Sequences, FiniteSets

CONSTANTS
    Conns,       \* the numbers of the connections of one life, from 0 on
    Brackets,    \* of each place of a command: 1 for "{", -1 for "}", or 0
    ChunkLen,    \* the size of buff: the bytes that one recv may take
    TextFits(_), \* a command and its terminator have room in traite
    AnswersSize, \* the size of a queue of answers
    Steps(_),    \* what a command does: one step for a frame or an answer
    AnswerFits(_), \* an answer is no longer than a message of its queue may be
    NoAnswer     \* not an answer

ASSUME ClientsAssumption ==
    /\ Conns = 0..Cardinality(Conns) - 1
    /\ Brackets \in Seq({1, 0, -1}) /\ ChunkLen \in Nat \ {0} /\ AnswersSize \in Nat \ {0}

CmdLen == Len(Brackets)
CommandBytes(c) == [k \in 1..CmdLen |-> <<c, k>>]

\* What a GUI sends is a text whose brackets are closed by the last of its
\* bytes and by none before: d counts the open ones behind each place.
ASSUME BracketsClose ==
    /\ CmdLen > 0
    /\ \E d \in [0..CmdLen -> 0..CmdLen] :
          /\ d[0] = 0
          /\ \A k \in 1..CmdLen : d[k] = d[k - 1] + Brackets[k] /\ (d[k] = 0 <=> k = CmdLen)

VARIABLES
    life,      \* the lives of the server so far
    phase,     \* of a connection: "none", "listed", "rec", "on" or "zombie"
    said,      \* the commands that its GUI has sent
    left,      \* the GUI has closed the connection
    stream, chunk, \* the bytes that wait for recv; those it has returned
    traite, blocs, \* the command so far, its open brackets
    done,      \* history: what was handed to processCommand
    todo,      \* the steps that are left of the command under way
    answers,   \* the queue of the answers
    hand,      \* the answer that the sending thread has in hand
    got        \* the answers that the GUI has received

parser == <<stream, chunk, traite, blocs, done>>
mailbox == <<answers, hand, got>>
clients == <<life, phase, said, left, parser, todo, mailbox>>

All(x) == [i \in Conns |-> x]

ClientsInit ==
    /\ life = 1 /\ phase = All("none") /\ said = All(<<>>) /\ left = All(FALSE)
    /\ stream = All(<<>>) /\ chunk = All(<<>>) /\ traite = All(<<>>) /\ blocs = All(0)
    /\ done = All(<<>>) /\ todo = All(<<>>)
    /\ answers = All(<<>>) /\ hand = All(NoAnswer) /\ got = All(<<>>)

Become(i, from, to) == phase[i] = from /\ phase' = [phase EXCEPT ![i] = to]

-----------------------------------------------------------------------------
(* guiNetworkConnexion: one connection after the other.                     *)

\* accept, the client put in the list, and its queue opened, with whatever an
\* earlier life left in it.
Accept(i) ==
    /\ \A j \in Conns : j < i => phase[j] \in {"on", "zombie"}
    /\ Become(i, "none", "listed")
    /\ UNCHANGED <<life, said, left, parser, todo, mailbox>>

StartRec(i) ==
    /\ Become(i, "listed", "rec")
    /\ UNCHANGED <<life, said, left, parser, todo, mailbox>>

StartSend(i) ==
    /\ Become(i, "rec", "on")
    /\ UNCHANGED <<life, said, left, parser, todo, mailbox>>

-----------------------------------------------------------------------------
(* The GUI.                                                                 *)

Says(i, c) ==
    /\ phase[i] # "none" /\ ~left[i]
    /\ said' = [said EXCEPT ![i] = Append(@, c)]
    /\ stream' = [stream EXCEPT ![i] = @ \o CommandBytes(c)]
    /\ UNCHANGED <<life, phase, left, chunk, traite, blocs, done, todo, mailbox>>

Leaves(i) ==
    /\ phase[i] # "none" /\ ~left[i]
    /\ left' = [left EXCEPT ![i] = TRUE]
    /\ UNCHANGED <<life, phase, said, parser, todo, mailbox>>

-----------------------------------------------------------------------------
(* guiMsgRec.                                                               *)

\* The thread is at recv.
AtRecv(i) == phase[i] \in {"rec", "on"} /\ chunk[i] = <<>> /\ todo[i] = <<>>

\* As long as buff is not full, strlen stops behind what came.
RecvChunk(i, n) ==
    /\ AtRecv(i) /\ n \in 1..ChunkLen - 1 /\ n <= Len(stream[i])
    /\ chunk' = [chunk EXCEPT ![i] = SubSeq(stream[i], 1, n)]
    /\ stream' = [stream EXCEPT ![i] = SubSeq(@, n + 1, Len(@))]
    /\ UNCHANGED <<life, phase, said, left, traite, blocs, done, todo, mailbox>>

\* cleanClient, with the sending thread running: both threads are cancelled,
\* this one at close(), a cancellation point; the client stays in the list,
\* the socket and the queue stay open.
cleanClient(i) ==
    /\ AtRecv(i) /\ left[i] /\ stream[i] = <<>>
    /\ Become(i, "on", "zombie")
    /\ hand' = [hand EXCEPT ![i] = NoAnswer]
    /\ UNCHANGED <<life, said, left, parser, todo, answers, got>>

\* Mutant: an inner bracket ends the command.
AnyEnd(i) == IF Brackets[Head(chunk[i])[2]] = -1 THEN 0 ELSE 1
\* Mutant: brackets are not counted off.
NeverClosed(i) == blocs[i] + (IF Brackets[Head(chunk[i])[2]] = 1 THEN 1 ELSE 0)
Count(i) == blocs[i] + Brackets[Head(chunk[i])[2]]

\* The steps of a text that is one command; others say nothing.
Work(text) ==
    IF text # <<>> /\ text = CommandBytes(text[1][1]) THEN Steps(text[1][1]) ELSE <<>>

\* A byte of the chunk is to be put into traite.
AtByte(i) == phase[i] \in {"rec", "on"} /\ chunk[i] # <<>> /\ todo[i] = <<>>

\* A text that is too long for traite overruns it before its end is reached.
HasRoom(i) == LET byte == Head(chunk[i]) IN TextFits(byte[1]) \/ byte[2] < CmdLen

ParseByte(i) ==
    /\ AtByte(i) /\ HasRoom(i)
    /\ LET text == Append(traite[i], Head(chunk[i])) IN
       /\ chunk' = [chunk EXCEPT ![i] = Tail(@)]
       /\ blocs' = [blocs EXCEPT ![i] = Count(i)]
       /\ IF Count(i) = 0
          THEN /\ traite' = [traite EXCEPT ![i] = <<>>]
               /\ done' = [done EXCEPT ![i] = Append(@, text)]
               /\ todo' = [todo EXCEPT ![i] = Work(text)]
          ELSE traite' = [traite EXCEPT ![i] = text] /\ UNCHANGED <<done, todo>>
    /\ UNCHANGED <<life, phase, said, left, stream, mailbox>>

\* Neither buffer is guarded: a recv fills buff, whose end strlen then looks for
\* behind it, or a text is written past the end of traite.
Overruns(i) ==
    \/ AtRecv(i) /\ Len(stream[i]) >= ChunkLen
    \/ AtByte(i) /\ ~HasRoom(i)

\* One step of processCommand is over.
\* Mutant: the command ends with its first function.
DoneAtOnce(i) == todo' = [todo EXCEPT ![i] = <<>>]
StepDone(i) == todo' = [todo EXCEPT ![i] = Tail(@)]

-----------------------------------------------------------------------------
(* Answers: guiNetworkSend and guiMsgSend.                                  *)

\* Mutant: the queue is that of the client that came last.
LastQueue(i) == CHOOSE j \in Conns : phase[j] # "none" /\ \A k \in Conns : k > j => phase[k] = "none"
QueueOf(i) == i

\* mq_send blocks while the queue is full.  An answer that is too long for the
\* queue it refuses at once, and nobody looks at what it returns.
guiNetworkSend(i) ==
    /\ todo[i] # <<>>
    /\ \/ /\ AnswerFits(Head(todo[i])) /\ Len(answers[QueueOf(i)]) < AnswersSize
          /\ answers' = [answers EXCEPT ![QueueOf(i)] = Append(@, Head(todo[i]))]
       \/ ~AnswerFits(Head(todo[i])) /\ UNCHANGED answers
    /\ StepDone(i)
    /\ UNCHANGED <<life, phase, said, left, parser, hand, got>>

TakeAnswer(i) ==
    /\ phase[i] = "on" /\ hand[i] = NoAnswer /\ answers[i] # <<>>
    /\ hand' = [hand EXCEPT ![i] = Head(answers[i])]
    /\ answers' = [answers EXCEPT ![i] = Tail(@)]
    /\ UNCHANGED <<life, phase, said, left, parser, todo, got>>

\* A GUI that has left does not read what is sent any more.
SendAnswer(i) ==
    /\ hand[i] # NoAnswer
    /\ hand' = [hand EXCEPT ![i] = NoAnswer]
    /\ got' = IF left[i] THEN got ELSE [got EXCEPT ![i] = Append(@, hand[i])]
    /\ UNCHANGED <<life, phase, said, left, parser, todo, answers>>

-----------------------------------------------------------------------------
\* Another life of the server.
Restart ==
    /\ life' = life + 1 /\ phase' = All("none") /\ said' = All(<<>>) /\ left' = All(FALSE)
    /\ stream' = All(<<>>) /\ chunk' = All(<<>>) /\ traite' = All(<<>>) /\ blocs' = All(0)
    /\ done' = All(<<>>) /\ todo' = All(<<>>)
    /\ hand' = All(NoAnswer) /\ got' = All(<<>>)
    /\ UNCHANGED answers
==============================================================================
