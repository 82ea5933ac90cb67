--------------------------------- MODULE Wire ---------------------------------
(***************************************************************************)
(* The connection to the gateway (server/src/sensorsNetwork.c): a thread   *)
(* that takes frames from the queue /SensorsMsgSend and sends them, and    *)
(* one that cuts the stream of the gateway into frames.                    *)
(*                                                                         *)
(* Frames are numbered, in each direction in the order of their making; a  *)
(* byte is the number of its frame and its place in it.  A place behind    *)
(* FrameLen, or frame 0, is memory that is no part of any message.  The    *)
(* queue belongs to the system: it outlives the server.                    *)
(***************************************************************************)
EXTENDS Integers, Sequences

CONSTANTS
    FrameLen,   \* bytes in a frame, 28 in the code
    BuffLen,    \* bytes that one recv takes, 128 in the code
    MaxJunk,    \* bound on what strlen finds behind a full buffer
    MqSize,     \* the queue's own size
    None

ASSUME WireAssumption ==
    /\ FrameLen \in Nat \ {0} /\ BuffLen \in Nat \ {0}
    /\ MaxJunk \in Nat /\ MqSize \in Nat \ {0}
    /\ None \notin [frame : Nat, nbSent : Nat, asks : Nat]

VARIABLES
    open,      \* the gateway has not closed the connection
    put,       \* how many frames were handed to sensorsNetworkSend
    mq,        \* the queue
    sending,   \* the frame being sent, what was sent of it, what send is asked
    out,       \* the bytes sent over this connection
    delivered, \* history: the frames sent to their end
    gw,        \* how many frames the gateway has sent over this connection
    pipe,      \* the bytes of the gateway that wait for recv
    buff, data, \* what recv returned and the loop has not seen; the frame so far
    decoded,   \* the frames handed to decodeTrame
    overrun    \* a recv has filled the buffer, which then ends nowhere

outgoing == <<put, mq, sending, out, delivered>>
incoming == <<gw, pipe, buff, data, decoded, overrun>>
wire == <<open, outgoing, incoming>>

\* n bytes of frame f, from place `from` on.
Bytes(f, from, n) == [k \in 1..n |-> <<f, from + k - 1>>]
Whole(f) == Bytes(f, 1, FrameLen)

WireInit ==
    /\ open = TRUE
    /\ put = 0 /\ mq = <<>> /\ sending = None /\ out = <<>> /\ delivered = <<>>
    /\ gw = 0 /\ pipe = <<>> /\ buff = <<>> /\ data = <<>> /\ decoded = <<>>
    /\ overrun = FALSE

-----------------------------------------------------------------------------
(* To the gateway.                                                          *)

\* sensorsNetworkSend: mq_send blocks while the queue is full.
sensorsNetworkSend ==
    /\ Len(mq) < MqSize
    /\ put' = put + 1
    /\ mq' = Append(mq, put + 1)
    /\ UNCHANGED <<open, sending, out, delivered, incoming>>

TakeFrame ==
    /\ sending = None /\ mq # <<>>
    /\ sending' = [frame |-> Head(mq), nbSent |-> 0, asks |-> FrameLen]
    /\ mq' = Tail(mq)
    /\ UNCHANGED <<open, put, out, delivered, incoming>>

\* Mutant: `sending` is not moved on after a partial send.
FromTheStart == 1
From == sending.nbSent + 1
Sent(sent) == sent >= FrameLen

\* send() takes k of the bytes it is asked to.  What it is asked next is
\* what it took now, not what remains.
SendPart(k) ==
    /\ open /\ sending # None /\ k \in 1..sending.asks
    /\ out' = out \o Bytes(sending.frame, From, k)
    /\ IF Sent(sending.nbSent + k)
       THEN sending' = None /\ delivered' = Append(delivered, sending.frame)
       ELSE /\ sending' = [sending EXCEPT !.nbSent = @ + k, !.asks = k]
            /\ UNCHANGED delivered
    /\ UNCHANGED <<open, put, mq, incoming>>

-----------------------------------------------------------------------------
(* From the gateway.                                                        *)

GatewaySends ==
    /\ open
    /\ gw' = gw + 1
    /\ pipe' = pipe \o Whole(gw + 1)
    /\ UNCHANGED <<open, outgoing, buff, data, decoded, overrun>>

\* recv then returns 0 for ever, and the thread goes round.
GatewayCloses == open /\ open' = FALSE /\ UNCHANGED <<outgoing, incoming>>

\* recv takes n bytes.  The loop goes to the first byte that is zero, which
\* is behind the buffer when it is full.
Recv(n, junk) ==
    /\ buff = <<>> /\ n \in 1..Len(pipe) /\ n <= BuffLen
    /\ junk = 0 \/ n = BuffLen
    /\ buff' = SubSeq(pipe, 1, n) \o Bytes(0, 1, junk)
    /\ pipe' = SubSeq(pipe, n + 1, Len(pipe))
    /\ overrun' = (overrun \/ n = BuffLen)
    /\ UNCHANGED <<open, outgoing, gw, data, decoded>>

\* Mutants: the last byte is not waited for, or one byte too many is.
OneLess(d) == Len(d) = FrameLen - 1
OneMore(d) == Len(d) = FrameLen + 1
Complete(d) == Len(d) = FrameLen
Collected == Append(data, Head(buff))

Byte ==
    /\ buff # <<>>
    /\ buff' = Tail(buff)
    /\ IF Complete(Collected)
       THEN decoded' = Append(decoded, Collected) /\ data' = <<>>
       ELSE data' = Collected /\ UNCHANGED decoded
    /\ UNCHANGED <<open, outgoing, gw, pipe, overrun>>

-----------------------------------------------------------------------------
(* The end of the server, and sensorsNetworkStart of the next one.          *)

\* Mutant: the start unlinks the queue.
Unlinked == <<>>
Kept == mq

Disconnect ==
    /\ open' = TRUE
    /\ mq' = Kept
    /\ sending' = None /\ out' = <<>>
    /\ gw' = 0 /\ pipe' = <<>> /\ buff' = <<>> /\ data' = <<>> /\ decoded' = <<>>
    /\ overrun' = FALSE
    /\ UNCHANGED <<put, delivered>>

WireNext ==
    \/ sensorsNetworkSend \/ TakeFrame \/ \E k \in 1..FrameLen : SendPart(k)
    \/ GatewaySends \/ GatewayCloses
    \/ (\E n \in 1..BuffLen, junk \in 0..MaxJunk : Recv(n, junk)) \/ Byte \/ Disconnect
WireSpec == WireInit /\ [][WireNext]_wire

-----------------------------------------------------------------------------
(* Properties.                                                              *)

\* However send cuts them, the bytes of a frame follow each other from its
\* first to its last, and no frame starts inside another one; frames come in
\* their order.  What may follow a frame is memory behind the message.
NothingTorn ==
    \A i \in DOMAIN out :
        LET before == IF i = 1 THEN <<0, FrameLen>> ELSE out[i - 1] IN
        IF out[i][2] = 1 THEN before[1] < out[i][1] /\ before[2] >= FrameLen
        ELSE before = <<out[i][1], out[i][2] - 1>>

\* As long as no recv has filled the buffer, the frames handed to decodeTrame
\* are the first ones of the gateway, whole and in their order, however recv
\* cuts the stream.
DecodedInStep ==
    ~overrun => \A i \in DOMAIN decoded : decoded[i] = Whole(i)

\* The frames that were handed to the queue wait in it, are being sent, were
\* sent, or were being sent when the server stopped.
ToGateway == INSTANCE Channel WITH
    taken <- put,
    waiting <- (IF sending = None THEN <<>> ELSE <<sending.frame>>) \o mq
ImplementsChannel == ToGateway!Spec
==============================================================================
