----------------------------- MODULE NetworkProofs -----------------------------
(***************************************************************************)
(* Proofs about the server between its GUIs and the gateway: whatever the  *)
(* GUIs ask, the threads that put frames in the queue, take them out and   *)
(* receive others use the connection as Wire allows it, so that what is    *)
(* proved of Wire holds of the server; the GUIs' connections step as       *)
(* ClientsProofs has it, so that commands are cut out whole; and these are *)
(* carried out to their ends, in order, and answered to those who asked.   *)
(***************************************************************************)
EXTENDS Network, WireProofs, ClientsProofs

\* Each step of the server is one of the connection, or leaves it alone.
LEMMA StepUsesWire == [Next]_vars => [WireNext]_wire
<1> SUFFICES ASSUME [Next]_vars PROVE [WireNext]_wire
    OBVIOUS
<1> USE DEF WireNext
<1>1. CASE Others
    BY <1>1 DEF Others
<1>2. CASE Connect
    BY <1>2 DEF Connect
<1>3. CASE sensorsMsgSend
    BY <1>3 DEF sensorsMsgSend
<1>4. CASE sensorsMsgRec
    BY <1>4 DEF sensorsMsgRec
<1>5. CASE Stop
    BY <1>5 DEF Stop
<1>6. CASE StartAgain
    BY <1>6 DEF StartAgain
<1>7. ASSUME NEW i \in Conns, Reads(i) \/ Answers(i) PROVE [WireNext]_wire
    BY <1>7 DEF Reads, Answers
<1>8. ASSUME NEW i \in Conns, CarriesOut(i) PROVE [WireNext]_wire
    BY <1>8 DEF CarriesOut
<1>9. CASE UNCHANGED vars
    BY <1>9 DEF vars
<1> QED
    BY <1>1, <1>2, <1>3, <1>4, <1>5, <1>6, <1>7, <1>8, <1>9 DEF Next

\* The server, with all its clients, stops and starts, behaves towards the
\* gateway as the connection alone.
THEOREM NetworkUsesWire == Spec => WireSpec
<1>1. Init => WireInit
    BY DEF Init
<1> QED
    BY <1>1, StepUsesWire, PTL DEF Spec, WireSpec

\* Whatever commands come from whichever clients, and whenever the server
\* stops, the frames go to the gateway through a channel.
THEOREM NetworkImplementsChannel == Spec => ImplementsChannel
BY NetworkUsesWire, WireImplementsChannel, PTL

\* And they reach it one behind the other, none inside another one.
THEOREM NetworkTearsNothing == Spec => []NothingTorn
BY NetworkUsesWire, FramesNotTorn, PTL

\* And the frames that come from the gateway are decoded whole and in their
\* order until a recv fills the buffer.
THEOREM NetworkDecodesInStep == Spec => []DecodedInStep
BY NetworkUsesWire, FramesDecodedInStep, PTL

-----------------------------------------------------------------------------
(* The GUIs' connections.                                                   *)

\* Each step of the server is one of the connections, or leaves them alone.
LEMMA StepUsesClients == [Next]_vars => [ClientsStep]_clients
<1> SUFFICES ASSUME [Next]_vars PROVE [ClientsStep]_clients
    OBVIOUS
<1>1. CASE Others
    BY <1>1 DEF Others, ClientsStep
<1>2. CASE Connect
    BY <1>2 DEF Connect, ClientsStep
<1>3. CASE sensorsMsgSend
    BY <1>3 DEF sensorsMsgSend
<1>4. CASE sensorsMsgRec
    BY <1>4 DEF sensorsMsgRec
<1>5. CASE Stop
    BY <1>5 DEF Stop
<1>6. CASE StartAgain
    BY <1>6 DEF StartAgain, ClientsStep
<1>7. ASSUME NEW i \in Conns, Reads(i) PROVE [ClientsStep]_clients
    BY <1>7 DEF Reads, ClientsStep
<1>8. ASSUME NEW i \in Conns, Answers(i) PROVE [ClientsStep]_clients
    BY <1>8 DEF Answers, ClientsStep
<1>9. ASSUME NEW i \in Conns, CarriesOut(i) PROVE [ClientsStep]_clients
    BY <1>9 DEF CarriesOut, ClientsStep
<1>10. CASE UNCHANGED vars
    BY <1>10 DEF vars
<1> QED
    BY <1>1, <1>2, <1>3, <1>4, <1>5, <1>6, <1>7, <1>8, <1>9, <1>10 DEF Next

LEMMA ClientsKept == Spec => []ClientsInv
<1>1. Init => ClientsInv
    BY ClientsInitOK DEF Init
<1>2. ClientsInv /\ [Next]_vars => ClientsInv'
    BY StepUsesClients, ClientsStepOK
<1> QED
    BY <1>1, <1>2, PTL DEF Spec

\* However recv cuts the streams of however many GUIs, and whatever brackets
\* a command has in it, processCommand gets the commands that were said, up to
\* the first text or recv that is too long for its buffer: nothing is claimed of
\* what the code does behind that.
THEOREM CommandsStayWhole == Spec => []CommandsWhole
<1>1. ClientsInv => CommandsWhole
    BY CutShows DEF CommandsWhole
<1> QED
    BY <1>1, ClientsKept, PTL

-----------------------------------------------------------------------------
(* Types.                                                                   *)

\* What WireTypeOK leaves open: the numbers of frames and the queue's size.
WireBounds ==
    /\ mq \in Seq(1..put) /\ Len(mq) <= MqSize
    /\ sending # None => sending.frame \in 1..put
    /\ delivered \in Seq(1..put) /\ Len(data) < FrameLen

LEMMA BoundsBegin == WireInit => WireBounds
<1>1. FrameLen \in Nat \ {0} /\ MqSize \in Nat
    BY WireAssumption DEF WireAssumption
<1>2. <<>> \in Seq(1..0) /\ Len(<<>>) = 0
    BY EmptySeq
<1> QED
    BY <1>1, <1>2 DEF WireInit, WireBounds

LEMMA BoundsKept == WireTypeOK /\ WireBounds /\ [WireNext]_wire => WireBounds'
<1> SUFFICES ASSUME WireTypeOK, WireBounds, [WireNext]_wire PROVE WireBounds'
    OBVIOUS
<1>0. /\ FrameLen \in Nat \ {0} /\ MqSize \in Nat /\ put \in Nat
      /\ mq \in Seq(1..put) /\ Len(mq) \in Nat /\ data \in Seq(B) /\ Len(data) \in Nat
      /\ sending \in Sendings \cup {None} /\ buff \in Seq(B)
    BY WireAssumption, LenProperties DEF WireAssumption, WireTypeOK, WireBounds
<1>1. CASE sensorsNetworkSend
    <2>1. /\ put' = put + 1 /\ mq' = Append(mq, put + 1) /\ Len(mq) < MqSize
          /\ UNCHANGED <<sending, delivered, data>>
        BY <1>1 DEF sensorsNetworkSend, incoming
    <2>2. 1..put \subseteq 1..put + 1 /\ put + 1 \in 1..put + 1
        BY <1>0
    <2> DEFINE S == 1..put + 1
    <2>3. mq \in Seq(S) /\ delivered \in Seq(S) /\ put + 1 \in S
        BY <2>2, SeqMonotonic DEF WireBounds
    <2> HIDE DEF S
    <2>4. mq' \in Seq(S) /\ Len(mq') = Len(mq) + 1
        BY <2>1, <2>3, AppendProperties
    <2>5. sending # None => sending.frame \in S
        BY <2>2 DEF WireBounds, S
    <2>6. Len(mq') <= MqSize
        BY <1>0, <2>1, <2>4
    <2> QED
        BY <2>1, <2>3, <2>4, <2>5, <2>6 DEF WireBounds, S
<1>2. CASE TakeFrame
    <2>1. /\ mq # <<>> /\ mq' = Tail(mq) /\ UNCHANGED <<put, delivered, data>>
          /\ sending' = [frame |-> Head(mq), nbSent |-> 0, asks |-> FrameLen]
        BY <1>2 DEF TakeFrame, incoming
    <2>2. /\ Head(mq) \in 1..put /\ Tail(mq) \in Seq(1..put) /\ Len(Tail(mq)) = Len(mq) - 1
        BY <1>0, <2>1, HeadTailProperties
    <2>3. sending'.frame \in 1..put
        BY <2>1, <2>2
    <2>4. Len(mq') <= MqSize
        BY <1>0, <2>1, <2>2 DEF WireBounds
    <2> QED
        BY <2>1, <2>2, <2>3, <2>4 DEF WireBounds
<1>3. ASSUME NEW k \in 1..FrameLen, SendPart(k) PROVE WireBounds'
    <2>1. UNCHANGED <<put, mq, data>> /\ sending # None
        BY <1>3 DEF SendPart, incoming
    <2>2. sending.frame \in 1..put /\ delivered \in Seq(1..put)
        BY <2>1 DEF WireBounds
    <2>3. CASE Sent(sending.nbSent + k)
        <3>1. sending' = None /\ delivered' = Append(delivered, sending.frame)
            BY <1>3, <2>3 DEF SendPart
        <3>2. delivered' \in Seq(1..put)
            BY <2>2, <3>1, AppendProperties
        <3> QED
            BY <2>1, <3>1, <3>2 DEF WireBounds
    <2>4. CASE ~Sent(sending.nbSent + k)
        <3>1. sending' = [sending EXCEPT !.nbSent = @ + k, !.asks = k] /\ delivered' = delivered
            BY <1>3, <2>4 DEF SendPart
        <3>2. sending \in Sendings
            BY <1>0, <2>1
        <3>3. sending'.frame = sending.frame
            BY <3>1, <3>2 DEF Sendings
        <3> QED
            BY <2>1, <2>2, <3>1, <3>3 DEF WireBounds
    <2> QED
        BY <2>3, <2>4
<1>4. CASE GatewaySends
    BY <1>4 DEF GatewaySends, outgoing, WireBounds
<1>5. CASE GatewayCloses
    BY <1>5 DEF GatewayCloses, outgoing, incoming, WireBounds
<1>6. ASSUME NEW n \in 1..BuffLen, NEW junk \in 0..MaxJunk, Recv(n, junk) PROVE WireBounds'
    BY <1>6 DEF Recv, outgoing, WireBounds
<1>7. CASE Byte
    <2>1. buff # <<>> /\ UNCHANGED <<put, mq, sending, delivered>>
        BY <1>7 DEF Byte, outgoing
    <2>2. data' = <<>> \/ (~Complete(Collected) /\ data' = Collected)
        BY <1>7 DEF Byte
    <2>3. Head(buff) \in B
        BY <1>0, <2>1, HeadTailProperties
    <2>4. Len(Collected) = Len(data) + 1
        BY <1>0, <2>3, AppendProperties DEF Collected
    <2>5. Len(data') < FrameLen
        <3>1. Len(<<>>) = 0
            BY EmptySeq
        <3> QED
            BY <1>0, <2>2, <2>4, <3>1 DEF Complete, WireBounds
    <2> QED
        BY <2>1, <2>5 DEF WireBounds
<1>8. CASE Disconnect
    <2>1. /\ mq' = mq /\ sending' = None /\ data' = <<>> /\ put' = put /\ delivered' = delivered
        BY <1>8 DEF Disconnect, Kept
    <2>2. Len(<<>>) = 0
        BY EmptySeq
    <2> QED
        BY <1>0, <2>1, <2>2 DEF WireBounds
<1>9. CASE UNCHANGED wire
    BY <1>9 DEF wire, outgoing, incoming, WireBounds
<1> QED
    BY <1>1, <1>2, <1>3, <1>4, <1>5, <1>6, <1>7, <1>8, <1>9 DEF WireNext

\* The history has what each frame was put in the queue for.
Recorded == up \in BOOLEAN /\ put \in Nat /\ IsList(carried) /\ Len(carried) = put

LEMMA RecordedKept == Recorded /\ [Next]_vars => Recorded'
<1> SUFFICES ASSUME Recorded, [Next]_vars PROVE Recorded'
    OBVIOUS
<1>a. ASSUME UNCHANGED <<put, carried>>, up' \in BOOLEAN PROVE Recorded'
    BY <1>a DEF Recorded
<1>u. up \in BOOLEAN
    BY DEF Recorded
<1>b. ASSUME UNCHANGED <<up, put, carried>> PROVE Recorded'
    BY <1>b DEF Recorded
<1>1. CASE Others
    BY <1>1, <1>b DEF Others, GatewaySends, GatewayCloses, wire, outgoing
<1>2. CASE Connect
    BY <1>2, <1>b DEF Connect, wire, outgoing
<1>3. CASE sensorsMsgSend
    BY <1>3, <1>b DEF sensorsMsgSend, TakeFrame, SendPart
<1>4. CASE sensorsMsgRec
    BY <1>4, <1>b DEF sensorsMsgRec, Recv, Byte, outgoing
<1>5. CASE Stop
    BY <1>5, <1>a DEF Stop, wire, outgoing
<1>6. CASE StartAgain
    BY <1>6, <1>a DEF StartAgain, Disconnect
<1>7. ASSUME NEW i \in Conns, Reads(i) \/ Answers(i) PROVE Recorded'
    <2>1. UNCHANGED <<put, carried>> /\ (up' = up \/ up' = FALSE)
        BY <1>7 DEF Reads, Answers, wire, outgoing
    <2> QED
        BY <2>1, <1>u, <1>a
<1>8. ASSUME NEW i \in Conns, CarriesOut(i) PROVE Recorded'
    <2>1. CASE sensorsNetworkSend /\ carried' = Append(carried, Head(todo[i])) /\ up' = up
        <3>1. put' = put + 1 /\ up' = up
            BY <2>1 DEF sensorsNetworkSend
        <3>2. IsList(carried') /\ Len(carried') = Len(carried) + 1
            BY <2>1, ListAppend DEF Recorded
        <3> QED
            BY <3>1, <3>2 DEF Recorded
    <2>2. CASE UNCHANGED <<wire, carried>> /\ (up' = up \/ up' = FALSE)
        BY <2>2, <1>u, <1>a DEF wire, outgoing
    <2> QED
        BY <1>8, <2>1, <2>2 DEF CarriesOut
<1>9. CASE UNCHANGED vars
    BY <1>9, <1>b DEF vars, wire, outgoing
<1> QED
    BY <1>1, <1>2, <1>3, <1>4, <1>5, <1>6, <1>7, <1>8, <1>9 DEF Next

NetworkInv == WireTypeOK /\ WireBounds /\ ClientsInv /\ Recorded

\* The whole network keeps its types: no queue gets longer than it may, no
\* more brackets are closed than were opened, and less than a frame of bytes
\* waits for the next one, whatever was received behind a full buffer.
THEOREM NetworkTypesKept == Spec => []TypeOK
<1>1. Init => NetworkInv
    <2> SUFFICES ASSUME Init PROVE NetworkInv
        OBVIOUS
    <2>1. WireTypeOK /\ WireBounds /\ ClientsInv
        BY InitTypes, BoundsBegin, ClientsInitOK DEF Init
    <2>2. Recorded
        BY EmptyIsList DEF Init, WireInit, Recorded
    <2> QED
        BY <2>1, <2>2 DEF NetworkInv
<1>2. NetworkInv /\ [Next]_vars => NetworkInv'
    BY StepUsesWire, StepUsesClients, StepTypes, BoundsKept, ClientsStepOK, RecordedKept
    DEF NetworkInv
<1>3. NetworkInv => TypeOK
    <2> SUFFICES ASSUME NetworkInv PROVE TypeOK
        OBVIOUS
    <2>1. sending \in [frame : 1..put, nbSent : 0..FrameLen - 1, asks : 1..FrameLen] \cup {None}
        BY DEF NetworkInv, WireTypeOK, WireBounds, Sendings
    <2>2. /\ open \in BOOLEAN /\ overrun \in BOOLEAN /\ put \in Nat /\ gw \in Nat
          /\ mq \in Seq(1..put) /\ Len(mq) <= MqSize
          /\ delivered \in Seq(1..put) /\ Len(data) < FrameLen
        BY DEF NetworkInv, WireTypeOK, WireBounds
    <2>3. up \in BOOLEAN /\ Len(carried) = put
        BY DEF NetworkInv, Recorded
    <2>4. /\ life \in Nat /\ left \in [Conns -> BOOLEAN] /\ blocs \in [Conns -> Nat]
          /\ phase \in [Conns -> {"none", "listed", "rec", "on", "zombie"}]
          /\ \A i \in Conns : Len(answers[i]) <= AnswersSize
        BY DEF NetworkInv, ClientsInv, ClientsTyped
    <2> QED
        BY <2>1, <2>2, <2>3, <2>4 DEF TypeOK
<1> QED
    BY <1>1, <1>2, <1>3, PTL DEF Spec

-----------------------------------------------------------------------------
(* Lists of steps.                                                          *)

LEMMA RangeIs ==
    ASSUME NEW s, IsList(s)
    PROVE  Range(s) = {s[q] : q \in 1..Len(s)}
  <1>1. DOMAIN s = 1..Len(s)
    BY ListLen
  <1> QED
    BY <1>1 DEF Range

LEMMA RangeEmpty == Range(<<>>) = {}
  <1>1. Range(<<>>) = {<<>>[q] : q \in 1..0}
    BY EmptyIsList, RangeIs
  <1> QED
    BY <1>1

LEMMA RangeAppend ==
    ASSUME NEW s, IsList(s), NEW e
    PROVE  Range(Append(s, e)) = Range(s) \cup {e}
  <1> DEFINE t == Append(s, e)
  <1>1. /\ IsList(t) /\ Len(t) = Len(s) + 1 /\ t[Len(s) + 1] = e
        /\ \A q \in 1..Len(s) : t[q] = s[q]
    BY ListAppend
  <1> HIDE DEF t
  <1>2. Len(s) \in Nat
    BY ListLen
  <1>3. Range(s) = {s[q] : q \in 1..Len(s)} /\ Range(t) = {t[q] : q \in 1..Len(t)}
    BY <1>1, RangeIs
  <1>4. 1..Len(t) = (1..Len(s)) \cup {Len(s) + 1}
    BY <1>1, <1>2
  <1>5. Range(t) = Range(s) \cup {e}
    BY <1>1, <1>3, <1>4
  <1> QED
    BY <1>5 DEF t

LEMMA RangeTail ==
    ASSUME NEW s, IsList(s), s # <<>>
    PROVE  Range(s) = {Head(s)} \cup Range(Tail(s))
  <1> DEFINE t == Tail(s)
  <1>1. /\ Len(s) \in Nat \ {0} /\ Head(s) = s[1] /\ IsList(t) /\ Len(t) = Len(s) - 1
        /\ \A q \in 1..Len(s) - 1 : t[q] = s[q + 1]
    BY ListTail
  <1> HIDE DEF t
  <1>2. Range(s) = {s[q] : q \in 1..Len(s)} /\ Range(t) = {t[q] : q \in 1..Len(t)}
    BY <1>1, RangeIs
  <1>3. \A q \in 1..Len(t) : q + 1 \in 1..Len(s) /\ t[q] = s[q + 1]
    BY <1>1
  <1>4. \A q \in 1..Len(s) : q = 1 \/ (q - 1 \in 1..Len(t) /\ t[q - 1] = s[q])
    <2> SUFFICES ASSUME NEW q \in 1..Len(s), q # 1
                 PROVE  q - 1 \in 1..Len(t) /\ t[q - 1] = s[q]
      OBVIOUS
    <2>1. q - 1 \in 1..Len(t) /\ (q - 1) + 1 = q
      BY <1>1
    <2> QED
      BY <1>3, <2>1
  <1>5. 1 \in 1..Len(s)
    BY <1>1
  <1>6. Range(s) \subseteq {s[1]} \cup Range(t)
    BY <1>2, <1>4
  <1>7. {s[1]} \cup Range(t) \subseteq Range(s)
    BY <1>2, <1>3, <1>5
  <1> QED
    BY <1>1, <1>6, <1>7 DEF t

LEMMA RangeJoined ==
    ASSUME NEW s, IsList(s), NEW t, IsList(t)
    PROVE  Range(s \o t) = Range(s) \cup Range(t)
  <1> DEFINE u == s \o t
  <1>1. /\ IsList(u) /\ Len(u) = Len(s) + Len(t)
        /\ \A q \in 1..Len(s) + Len(t) : u[q] = IF q <= Len(s) THEN s[q] ELSE t[q - Len(s)]
    BY ListConcat
  <1> HIDE DEF u
  <1>2. Len(s) \in Nat /\ Len(t) \in Nat
    BY ListLen
  <1>3. /\ Range(s) = {s[q] : q \in 1..Len(s)} /\ Range(t) = {t[q] : q \in 1..Len(t)}
        /\ Range(u) = {u[q] : q \in 1..Len(u)}
    BY <1>1, RangeIs
  <1>4. \A q \in 1..Len(s) : q \in 1..Len(u) /\ u[q] = s[q]
    BY <1>1, <1>2
  <1>5. \A q \in 1..Len(t) : q + Len(s) \in 1..Len(u) /\ u[q + Len(s)] = t[q]
    <2> SUFFICES ASSUME NEW q \in 1..Len(t)
                 PROVE  q + Len(s) \in 1..Len(u) /\ u[q + Len(s)] = t[q]
      OBVIOUS
    <2>1. /\ q + Len(s) \in 1..Len(s) + Len(t) /\ ~(q + Len(s) <= Len(s))
          /\ (q + Len(s)) - Len(s) = q
      BY <1>2
    <2> QED
      BY <1>1, <2>1
  <1>6. \A q \in 1..Len(u) : q \in 1..Len(s) \/ q - Len(s) \in 1..Len(t)
    BY <1>1, <1>2
  <1>7. \A q \in 1..Len(u) : u[q] \in Range(s) \cup Range(t)
    <2> SUFFICES ASSUME NEW q \in 1..Len(u) PROVE u[q] \in Range(s) \cup Range(t)
      OBVIOUS
    <2>1. CASE q \in 1..Len(s)
      BY <1>3, <1>4, <2>1
    <2>2. CASE q - Len(s) \in 1..Len(t)
      <3>1. (q - Len(s)) + Len(s) = q
        BY <1>2
      <3>2. u[(q - Len(s)) + Len(s)] = t[q - Len(s)]
        BY <1>5, <2>2
      <3> QED
        BY <1>3, <2>2, <3>1, <3>2
    <2> QED
      BY <1>6, <2>1, <2>2
  <1>8. Range(u) \subseteq Range(s) \cup Range(t)
    BY <1>3, <1>7
  <1>9. Range(s) \cup Range(t) \subseteq Range(u)
    BY <1>3, <1>4, <1>5
  <1>10. Range(u) = Range(s) \cup Range(t)
    BY <1>8, <1>9
  <1> QED
    BY <1>10 DEF u

\* Every step of S is said before every step of T of the same client.
InFront(S, T) == \A s \in S, t \in T : Precedes(s, t)

LEMMA InOrderIs ==
    ASSUME NEW s, IsList(s)
    PROVE  InOrder(s) <=> \A a, b \in 1..Len(s) : a < b => Precedes(s[a], s[b])
  <1> DEFINE D == DOMAIN s
  <1>1. D = 1..Len(s)
    BY ListLen
  <1>2. InOrder(s) <=> \A a, b \in D : a < b => Precedes(s[a], s[b])
    BY Zenon DEF InOrder
  <1> HIDE DEF D
  <1> QED
    BY <1>1, <1>2

LEMMA InOrderEmpty == InOrder(<<>>)
  <1>1. IsList(<<>>) /\ Len(<<>>) = 0
    BY EmptyIsList
  <1>2. \A a \in 1..0 : FALSE
    OBVIOUS
  <1> QED
    BY <1>1, <1>2, InOrderIs

LEMMA InFrontIs ==
    ASSUME NEW s, IsList(s), NEW t, IsList(t)
    PROVE  InFront(Range(s), Range(t)) <=>
               \A a \in 1..Len(s), b \in 1..Len(t) : Precedes(s[a], t[b])
  <1>1. Range(s) = {s[q] : q \in 1..Len(s)} /\ Range(t) = {t[q] : q \in 1..Len(t)}
    BY RangeIs
  <1> QED
    BY <1>1 DEF InFront

LEMMA InOrderJoined ==
    ASSUME NEW s, IsList(s), NEW t, IsList(t)
    PROVE  InOrder(s \o t) <=> InOrder(s) /\ InOrder(t) /\ InFront(Range(s), Range(t))
  <1> DEFINE u == s \o t
             L == Len(s)
             M == Len(t)
  <1>1. /\ IsList(u) /\ Len(u) = L + M
        /\ \A q \in 1..L + M : u[q] = IF q <= L THEN s[q] ELSE t[q - L]
    BY ListConcat
  <1>2. L \in Nat /\ M \in Nat
    BY ListLen
  <1>3. InOrder(u) <=> \A a, b \in 1..L + M : a < b => Precedes(u[a], u[b])
    BY <1>1, InOrderIs
  <1>4. /\ InOrder(s) <=> \A a, b \in 1..L : a < b => Precedes(s[a], s[b])
        /\ InOrder(t) <=> \A a, b \in 1..M : a < b => Precedes(t[a], t[b])
        /\ InFront(Range(s), Range(t)) <=> \A a \in 1..L, b \in 1..M : Precedes(s[a], t[b])
    BY InOrderIs, InFrontIs
  <1> HIDE DEF u, L, M
  <1>5. \A q \in 1..L : q \in 1..L + M /\ u[q] = s[q]
    BY <1>1, <1>2
  <1>6. \A q \in 1..M : q + L \in 1..L + M /\ u[q + L] = t[q]
    <2> SUFFICES ASSUME NEW q \in 1..M PROVE q + L \in 1..L + M /\ u[q + L] = t[q]
      OBVIOUS
    <2>1. q + L \in 1..L + M /\ ~(q + L <= L) /\ (q + L) - L = q
      BY <1>2
    <2> QED
      BY <1>1, <2>1
  <1>7. ASSUME InOrder(u)
        PROVE  InOrder(s) /\ InOrder(t) /\ InFront(Range(s), Range(t))
    <2>0. \A a, b \in 1..L + M : a < b => Precedes(u[a], u[b])
      BY <1>3, <1>7
    <2>1. ASSUME NEW a \in 1..L, NEW b \in 1..L, a < b PROVE Precedes(s[a], s[b])
      BY <1>5, <2>0, <2>1
    <2>2. ASSUME NEW a \in 1..M, NEW b \in 1..M, a < b PROVE Precedes(t[a], t[b])
      <3>1. a + L < b + L
        BY <1>2, <2>2
      <3> QED
        BY <1>6, <2>0, <3>1
    <2>3. ASSUME NEW a \in 1..L, NEW b \in 1..M PROVE Precedes(s[a], t[b])
      <3>1. a < b + L
        BY <1>2
      <3> QED
        BY <1>5, <1>6, <2>0, <3>1
    <2> QED
      BY <1>4, <2>1, <2>2, <2>3
  <1>8. ASSUME InOrder(s), InOrder(t), InFront(Range(s), Range(t)) PROVE InOrder(u)
    <2> SUFFICES ASSUME NEW a \in 1..L + M, NEW b \in 1..L + M, a < b
                 PROVE  Precedes(u[a], u[b])
      BY <1>3
    <2>0. /\ \A c, d \in 1..L : c < d => Precedes(s[c], s[d])
          /\ \A c, d \in 1..M : c < d => Precedes(t[c], t[d])
          /\ \A c \in 1..L, d \in 1..M : Precedes(s[c], t[d])
      BY <1>4, <1>8
    <2>1. \/ a \in 1..L /\ b \in 1..L
          \/ a \in 1..L /\ b - L \in 1..M /\ (b - L) + L = b
          \/ /\ a - L \in 1..M /\ b - L \in 1..M /\ a - L < b - L
             /\ (a - L) + L = a /\ (b - L) + L = b
      BY <1>2
    <2>4. CASE a \in 1..L /\ b \in 1..L
      BY <1>5, <2>0, <2>4
    <2>5. CASE a \in 1..L /\ b - L \in 1..M /\ (b - L) + L = b
      <3>1. u[a] = s[a] /\ u[b] = t[b - L]
        BY <1>5, <1>6, <2>5
      <3> QED
        BY <2>0, <2>5, <3>1
    <2>6. CASE /\ a - L \in 1..M /\ b - L \in 1..M /\ a - L < b - L
               /\ (a - L) + L = a /\ (b - L) + L = b
      <3>1. u[a] = t[a - L] /\ u[b] = t[b - L]
        BY <1>6, <2>6
      <3> QED
        BY <2>0, <2>6, <3>1
    <2> QED
      BY <2>1, <2>4, <2>5, <2>6
  <1> QED
    BY <1>7, <1>8 DEF u

LEMMA OneStep == ASSUME NEW e
                 PROVE  IsList(<<e>>) /\ Range(<<e>>) = {e} /\ InOrder(<<e>>)
  <1>1. <<e>> \in Seq({e}) /\ Len(<<e>>) = 1 /\ <<e>>[1] = e
    OBVIOUS
  <1>2. IsList(<<e>>)
    BY <1>1 DEF IsList
  <1>3. Range(<<e>>) = {<<e>>[q] : q \in 1..1}
    BY <1>1, <1>2, RangeIs
  <1>4. Range(<<e>>) = {e}
    BY <1>1, <1>3
  <1>5. \A a, b \in 1..1 : ~(a < b)
    OBVIOUS
  <1>6. InOrder(<<e>>)
    BY <1>1, <1>2, <1>5, InOrderIs
  <1> QED
    BY <1>2, <1>4, <1>6

\* A list with a step more is the list and that step.
LEMMA AppendJoins ==
    ASSUME NEW s, IsList(s), NEW e
    PROVE  Append(s, e) = s \o <<e>>
  <1>1. PICK S : s \in Seq(S)
    BY DEF IsList
  <1>2. s \in Seq(S \cup {e}) /\ e \in S \cup {e}
    BY <1>1, SeqMonotonic
  <1> QED
    BY <1>2, AppendIsConcat

LEMMA InOrderAppend ==
    ASSUME NEW s, IsList(s), NEW e
    PROVE  InOrder(Append(s, e)) <=> InOrder(s) /\ InFront(Range(s), {e})
  <1>1. Append(s, e) = s \o <<e>>
    BY AppendJoins
  <1>2. IsList(<<e>>) /\ Range(<<e>>) = {e} /\ InOrder(<<e>>)
    BY OneStep
  <1> QED
    BY <1>1, <1>2, InOrderJoined

\* The first step and the others.
LEMMA HeadJoins ==
    ASSUME NEW s, IsList(s), s # <<>>
    PROVE  s = <<Head(s)>> \o Tail(s)
  <1> DEFINE t == Tail(s)
             h == <<Head(s)>>
             u == h \o t
  <1>1. /\ Len(s) \in Nat \ {0} /\ Head(s) = s[1] /\ IsList(t) /\ Len(t) = Len(s) - 1
        /\ \A q \in 1..Len(s) - 1 : t[q] = s[q + 1]
    BY ListTail
  <1>2. IsList(h) /\ Len(h) = 1 /\ h[1] = Head(s)
    BY OneStep
  <1> HIDE DEF t, h
  <1>a. /\ IsList(u) /\ Len(u) = Len(h) + Len(t)
        /\ \A q \in 1..Len(h) + Len(t) : u[q] = IF q <= Len(h) THEN h[q] ELSE t[q - Len(h)]
    BY <1>1, <1>2, ListConcat, Zenon
  <1> HIDE DEF u
  <1>3. /\ IsList(u) /\ Len(u) = 1 + Len(t)
        /\ \A q \in 1..1 + Len(t) : u[q] = IF q <= 1 THEN h[q] ELSE t[q - 1]
    BY <1>2, <1>a
  <1>4. Len(u) = Len(s)
    BY <1>1, <1>3
  <1>5. ASSUME NEW q \in 1..Len(s) PROVE u[q] = s[q]
    <2>1. CASE q = 1
      BY <1>1, <1>2, <1>3, <1>4, <2>1
    <2>2. CASE q # 1
      <3>1. q - 1 \in 1..Len(s) - 1 /\ (q - 1) + 1 = q /\ ~(q <= 1) /\ q \in 1..1 + Len(t)
        BY <1>1, <2>2
      <3>2. u[q] = t[q - 1] /\ t[q - 1] = s[(q - 1) + 1]
        BY <1>1, <1>3, <3>1
      <3> QED
        BY <3>1, <3>2
    <2> QED
      BY <2>1, <2>2
  <1>6. s = u
    BY <1>3, <1>4, <1>5, ListEqual
  <1> QED
    BY <1>6 DEF u, h, t

LEMMA InOrderTail ==
    ASSUME NEW s, IsList(s), s # <<>>, InOrder(s)
    PROVE  InOrder(Tail(s)) /\ InFront({Head(s)}, Range(Tail(s)))
  <1>1. s = <<Head(s)>> \o Tail(s) /\ IsList(Tail(s))
    BY HeadJoins, ListTail
  <1>2. IsList(<<Head(s)>>) /\ Range(<<Head(s)>>) = {Head(s)}
    BY OneStep
  <1>3. InOrder(<<Head(s)>> \o Tail(s))
    BY <1>1
  <1> QED
    BY <1>1, <1>2, <1>3, InOrderJoined

-----------------------------------------------------------------------------
(* What was done and what is left of the commands of client i, of which d   *)
(* were handed to processCommand in life l of the server.                   *)

Numbered(x) == x.cmd.life \in Nat /\ x.cmd.n \in Nat /\ x.k \in Nat /\ x # NoAnswer

\* S has steps of these commands and of former lives, and of other clients.
Past(S, i, l, d) ==
    \A x \in S : /\ Numbered(x) /\ x.cmd.life <= l
                 /\ x.cmd.conn = i /\ x.cmd.life = l => x.cmd.n <= d
\* T has steps of the last of them.
Ahead(T, i, l, d) ==
    \A x \in T : Numbered(x) /\ x.cmd.conn = i /\ x.cmd.life = l /\ x.cmd.n = d

\* t is left of it.
ToDo(t, i, l, d) == IsList(t) /\ InOrder(t) /\ Ahead(Range(t), i, l, d)
\* s was done before t.
Log(s, t, i, l, d) ==
    /\ IsList(s) /\ InOrder(s) /\ Past(Range(s), i, l, d) /\ InFront(Range(s), Range(t))

LEMMA PastIsInFront ==
    ASSUME NEW S, NEW T, NEW i, NEW l \in Nat, NEW d \in Nat,
           Past(S, i, l, d), Ahead(T, i, l, d + 1)
    PROVE  InFront(S, T)
  <1> SUFFICES ASSUME NEW x \in S, NEW y \in T, x.cmd.conn = y.cmd.conn PROVE Precedes(x, y)
    BY Zenon DEF InFront, Precedes
  <1> DEFINE a == x.cmd.life
             b == x.cmd.n
             e == y.cmd.life
             f == y.cmd.n
  <1>1. a \in Nat /\ b \in Nat /\ a <= l
    BY Zenon DEF Past, Numbered
  <1>2. e = l /\ f = d + 1 /\ y.cmd.conn = i
    BY Zenon DEF Ahead
  <1>3. a = l => b <= d
    BY <1>2, Zenon DEF Past
  <1>4. a < e \/ (a = e /\ b < f)
    <2> HIDE DEF a, b, e, f
    <2> QED
      BY <1>1, <1>2, <1>3
  <1> QED
    BY <1>4, Zenon DEF Precedes

LEMMA OthersAreBeside ==
    ASSUME NEW T, NEW i, NEW l, NEW d, Ahead(T, i, l, d), NEW h, h.cmd.conn # i
    PROVE  InFront({h}, T)
  <1> SUFFICES ASSUME NEW y \in T PROVE Precedes(h, y)
    BY DEF InFront
  <1>1. y.cmd.conn = i
    BY Zenon DEF Ahead
  <1> QED
    BY <1>1, Zenon DEF Precedes

LEMMA InFrontMore ==
    ASSUME NEW S, NEW T, NEW U
    PROVE  /\ InFront(S \cup U, T) <=> InFront(S, T) /\ InFront(U, T)
           /\ InFront(T, S \cup U) <=> InFront(T, S) /\ InFront(T, U)
  BY DEF InFront

LEMMA PastMore ==
    ASSUME NEW S, NEW U, NEW i, NEW l, NEW d
    PROVE  Past(S \cup U, i, l, d) <=> Past(S, i, l, d) /\ Past(U, i, l, d)
  BY Zenon DEF Past

LEMMA AheadMore ==
    ASSUME NEW S, NEW U, NEW i, NEW l, NEW d
    PROVE  Ahead(S \cup U, i, l, d) <=> Ahead(S, i, l, d) /\ Ahead(U, i, l, d)
  BY Zenon DEF Ahead

LEMMA AheadIsPast ==
    ASSUME NEW S, NEW i, NEW l \in Nat, NEW d \in Nat, Ahead(S, i, l, d), NEW j
    PROVE  j = i => Past(S, j, l, d)
  <1>1. l <= l /\ d <= d
    OBVIOUS
  <1> QED
    BY <1>1, Zenon DEF Ahead, Past

LEMMA ToDoNothing == ASSUME NEW i, NEW l, NEW d PROVE ToDo(<<>>, i, l, d)
  BY EmptyIsList, RangeEmpty, InOrderEmpty DEF ToDo, Ahead

LEMMA ToDoTail ==
    ASSUME NEW t, NEW i, NEW l, NEW d, ToDo(t, i, l, d), t # <<>>
    PROVE  /\ ToDo(Tail(t), i, l, d) /\ Ahead({Head(t)}, i, l, d)
           /\ Range(t) = {Head(t)} \cup Range(Tail(t)) /\ InFront({Head(t)}, Range(Tail(t)))
  <1>1. /\ IsList(Tail(t)) /\ Range(t) = {Head(t)} \cup Range(Tail(t))
        /\ InOrder(Tail(t)) /\ InFront({Head(t)}, Range(Tail(t)))
    BY ListTail, RangeTail, InOrderTail DEF ToDo
  <1>2. Ahead({Head(t)}, i, l, d) /\ Ahead(Range(Tail(t)), i, l, d)
    BY <1>1, AheadMore DEF ToDo
  <1> QED
    BY <1>1, <1>2 DEF ToDo

LEMMA LogNothing ==
    ASSUME NEW t, NEW i, NEW l, NEW d PROVE Log(<<>>, t, i, l, d)
  BY EmptyIsList, RangeEmpty, InOrderEmpty DEF Log, Past, InFront

\* The first of the steps that are left is done.
LEMMA LogTakes ==
    ASSUME NEW s, NEW t, NEW i, NEW l \in Nat, NEW d \in Nat,
           Log(s, t, i, l, d), ToDo(t, i, l, d), t # <<>>
    PROVE  /\ Log(Append(s, Head(t)), Tail(t), i, l, d)
           /\ Log(s, Tail(t), i, l, d)
           /\ InFront(Range(s), {Head(t)})
  <1> DEFINE h == Head(t)
             r == Range(Tail(t))
             S == Range(s)
  <1>1. /\ Ahead({h}, i, l, d) /\ Range(t) = {h} \cup r /\ InFront({h}, r)
    BY ToDoTail
  <1>2. IsList(s) /\ InOrder(s) /\ Past(S, i, l, d) /\ InFront(S, Range(t))
    BY DEF Log
  <1>3. InFront(S, {h}) /\ InFront(S, r)
    <2>1. InFront(S, {h} \cup r)
      BY <1>1, <1>2
    <2> HIDE DEF S, h, r
    <2> QED
      BY <2>1, InFrontMore
  <1>4. Past({h}, i, l, d)
    BY <1>1, AheadIsPast
  <1>5. Range(Append(s, h)) = S \cup {h} /\ IsList(Append(s, h)) /\ InOrder(Append(s, h))
    BY <1>2, <1>3, RangeAppend, ListAppend, InOrderAppend
  <1>6. Past(S \cup {h}, i, l, d) /\ InFront(S \cup {h}, r)
    BY <1>1, <1>2, <1>3, <1>4, PastMore, InFrontMore
  <1> QED
    BY <1>2, <1>3, <1>5, <1>6 DEF Log

\* A step of another client is done.
LEMMA LogBeside ==
    ASSUME NEW s, NEW t, NEW i, NEW l, NEW d, Log(s, t, i, l, d), ToDo(t, i, l, d),
           NEW h, Numbered(h), h.cmd.conn # i, h.cmd.life <= l, InFront(Range(s), {h})
    PROVE  Log(Append(s, h), t, i, l, d)
  <1>1. IsList(s) /\ InOrder(s) /\ Past(Range(s), i, l, d) /\ InFront(Range(s), Range(t))
    BY DEF Log
  <1>2. Past({h}, i, l, d)
    BY Zenon DEF Past
  <1>3. InFront({h}, Range(t))
    BY OthersAreBeside DEF ToDo
  <1>4. /\ Range(Append(s, h)) = Range(s) \cup {h} /\ IsList(Append(s, h))
        /\ InOrder(Append(s, h))
    BY <1>1, RangeAppend, ListAppend, InOrderAppend
  <1> QED
    BY <1>1, <1>2, <1>3, <1>4, PastMore, InFrontMore DEF Log

\* The next command is begun.
LEMMA LogNext ==
    ASSUME NEW s, NEW t, NEW i, NEW l \in Nat, NEW d \in Nat, Log(s, t, i, l, d),
           NEW w, ToDo(w, i, l, d + 1)
    PROVE  Log(s, w, i, l, d + 1)
  <1>1. Past(Range(s), i, l, d) /\ IsList(s) /\ InOrder(s)
    BY DEF Log
  <1>2. InFront(Range(s), Range(w))
    BY <1>1, PastIsInFront DEF ToDo
  <1>3. Past(Range(s), i, l, d + 1)
    <2> SUFFICES ASSUME NEW x \in Range(s), x.cmd.conn = i, x.cmd.life = l
                 PROVE  x.cmd.n <= d + 1
      BY <1>1, Zenon DEF Past
    <2> DEFINE n == x.cmd.n
    <2>1. n \in Nat /\ n <= d
      BY <1>1, Zenon DEF Past, Numbered
    <2> HIDE DEF n
    <2>2. n <= d + 1
      BY <2>1
    <2> QED
      BY <2>2 DEF n
  <1> QED
    BY <1>1, <1>2, <1>3 DEF Log

\* The server starts again.
LEMMA LogLater ==
    ASSUME NEW s, NEW t, NEW i, NEW l \in Nat, NEW d, Log(s, t, i, l, d)
    PROVE  /\ Log(s, <<>>, i, l + 1, 0)
           /\ \A x \in Range(s) : x.cmd.life # l + 1
  <1>1. Past(Range(s), i, l, d) /\ IsList(s) /\ InOrder(s)
    BY DEF Log
  <1>2. ASSUME NEW x \in Range(s) PROVE x.cmd.life <= l + 1 /\ x.cmd.life # l + 1
    <2> DEFINE n == x.cmd.life
    <2>1. n \in Nat /\ n <= l
      BY <1>1, Zenon DEF Past, Numbered
    <2> HIDE DEF n
    <2>2. n <= l + 1 /\ n # l + 1
      BY <2>1
    <2> QED
      BY <2>2 DEF n
  <1>3. Past(Range(s), i, l + 1, 0)
    BY <1>1, <1>2, Zenon DEF Past
  <1>4. InFront(Range(s), Range(<<>>))
    BY RangeEmpty DEF InFront
  <1> QED
    BY <1>1, <1>2, <1>3, <1>4 DEF Log

-----------------------------------------------------------------------------
(* Whether all was done that is due: of the steps D of client i in life l   *)
(* those for the air, or those for the GUI that fit its queue, are done in S *)
(* or left in T.                                                            *)

OfKind(air, x) == IF air THEN ToAir(x) ELSE ToGui(x) /\ AnswerFits(x)
Mine(i, l, x) == x.cmd.life = l /\ x.cmd.conn = i
Even(S, T, D, i, l, air) ==
    {x \in S : Mine(i, l, x)} \cup {x \in T : OfKind(air, x)} = {x \in D : OfKind(air, x)}

LEMMA EvenTakes ==
    ASSUME NEW S, NEW T, NEW D, NEW i, NEW l, NEW air, NEW h,
           Even(S, {h} \cup T, D, i, l, air), Mine(i, l, h), OfKind(air, h)
    PROVE  Even(S \cup {h}, T, D, i, l, air)
  BY DEF Even

LEMMA EvenPasses ==
    ASSUME NEW S, NEW T, NEW D, NEW i, NEW l, NEW air, NEW h,
           Even(S, {h} \cup T, D, i, l, air), ~OfKind(air, h)
    PROVE  Even(S, T, D, i, l, air)
  BY DEF Even

LEMMA EvenBeside ==
    ASSUME NEW S, NEW T, NEW D, NEW i, NEW l, NEW air, NEW h,
           Even(S, T, D, i, l, air), ~Mine(i, l, h)
    PROVE  Even(S \cup {h}, T, D, i, l, air)
  BY DEF Even

LEMMA EvenNext ==
    ASSUME NEW S, NEW D, NEW i, NEW l, NEW air, NEW W, Even(S, {}, D, i, l, air)
    PROVE  Even(S, W, D \cup W, i, l, air)
  BY DEF Even

LEMMA EvenLater ==
    ASSUME NEW S, NEW i, NEW l, NEW air, \A x \in S : x.cmd.life # l
    PROVE  Even(S, {}, {}, i, l, air)
  BY DEF Even, Mine

-----------------------------------------------------------------------------
(* What a GUI has got, has on its way and will get.                         *)

OnItsWay(h) == IF h = NoAnswer THEN <<>> ELSE <<h>>
Mail(g, h, a) == g \o OnItsWay(h) \o a

LEMMA MailParts ==
    ASSUME NEW g, IsList(g), NEW h, NEW a, IsList(a)
    PROVE  /\ IsList(OnItsWay(h)) /\ IsList(g \o OnItsWay(h)) /\ IsList(Mail(g, h, a))
           /\ Range(Mail(g, h, a)) = Range(g) \cup Range(OnItsWay(h)) \cup Range(a)
           /\ Range(g \o OnItsWay(h)) = Range(g) \cup Range(OnItsWay(h))
  <1>1. IsList(OnItsWay(h))
    BY EmptyIsList, OneStep DEF OnItsWay
  <1> DEFINE w == OnItsWay(h)
             u == g \o w
  <1>2. IsList(u) /\ Range(u) = Range(g) \cup Range(w)
    BY <1>1, ListConcat, RangeJoined
  <1> HIDE DEF u
  <1>3. IsList(u \o a) /\ Range(u \o a) = Range(u) \cup Range(a)
    BY <1>2, ListConcat, RangeJoined
  <1> QED
    BY <1>1, <1>2, <1>3 DEF u, Mail

\* An answer is put in the queue.
LEMMA MailPut ==
    ASSUME NEW g, IsList(g), NEW h, NEW a, IsList(a), NEW e
    PROVE  Mail(g, h, Append(a, e)) = Append(Mail(g, h, a), e)
  <1> DEFINE u == g \o OnItsWay(h)
             v == u \o a
             w == <<e>>
  <1>1. IsList(u) /\ IsList(v) /\ IsList(w)
    BY MailParts, OneStep DEF Mail
  <1>2. Append(a, e) = a \o w /\ Append(v, e) = v \o w
    BY <1>1, AppendJoins
  <1> HIDE DEF u, w
  <1>3. (u \o a) \o w = u \o (a \o w)
    <2>1. IsList(u) /\ IsList(a) /\ IsList(w)
      BY <1>1
    <2> QED
      BY SMTT(30), <2>1, ListAssociative
  <1> QED
    BY <1>2, <1>3 DEF u, Mail

\* It is taken from there.
LEMMA MailTaken ==
    ASSUME NEW g, IsList(g), NEW a, IsList(a), a # <<>>, Head(a) # NoAnswer
    PROVE  Mail(g, Head(a), Tail(a)) = Mail(g, NoAnswer, a)
  <1> DEFINE w == <<Head(a)>>
             t == Tail(a)
  <1>1. IsList(w) /\ IsList(t) /\ a = w \o t
    BY OneStep, ListTail, HeadJoins
  <1>2. OnItsWay(Head(a)) = w /\ OnItsWay(NoAnswer) = <<>> /\ g \o <<>> = g
    BY ListConcat DEF OnItsWay
  <1> HIDE DEF w, t
  <1>3. (g \o w) \o t = g \o (w \o t)
    BY <1>1, ListAssociative
  <1>4. Mail(g, Head(a), t) = (g \o w) \o t /\ Mail(g, NoAnswer, a) = g \o a
    BY <1>2 DEF Mail
  <1>5. Mail(g, Head(a), t) = Mail(g, NoAnswer, a)
    BY <1>1, <1>3, <1>4
  <1> QED
    BY <1>5 DEF t

\* It is sent.
LEMMA MailSent ==
    ASSUME NEW g, IsList(g), NEW h, h # NoAnswer, NEW a, IsList(a)
    PROVE  Mail(Append(g, h), NoAnswer, a) = Mail(g, h, a)
  <1> DEFINE u == Append(g, h)
  <1>1. u = g \o <<h>> /\ IsList(u)
    BY AppendJoins, ListAppend
  <1>2. OnItsWay(h) = <<h>> /\ OnItsWay(NoAnswer) = <<>> /\ u \o <<>> = u
    BY <1>1, ListConcat DEF OnItsWay
  <1> HIDE DEF u
  <1>3. Mail(u, NoAnswer, a) = Mail(g, h, a)
    BY <1>1, <1>2 DEF Mail
  <1> QED
    BY <1>3 DEF u

\* A log stays one when some of it is forgotten.
LEMMA LogForgets ==
    ASSUME NEW s, NEW t, NEW i, NEW l, NEW d, Log(s, t, i, l, d),
           NEW u, IsList(u), InOrder(u), Range(u) \subseteq Range(s)
    PROVE  Log(u, t, i, l, d)
  <1>1. Past(Range(u), i, l, d)
    BY Zenon DEF Log, Past
  <1>2. InFront(Range(u), Range(t))
    BY Zenon DEF Log, InFront
  <1> QED
    BY <1>1, <1>2 DEF Log

\* An answer is lost, or all is that was not in the queue.
LEMMA MailLost ==
    ASSUME NEW g, IsList(g), NEW h, NEW a, IsList(a), NEW t, NEW i, NEW l, NEW d,
           Log(Mail(g, h, a), t, i, l, d)
    PROVE  /\ Log(Mail(g, NoAnswer, a), t, i, l, d) /\ Log(Mail(<<>>, NoAnswer, a), t, i, l, d)
           /\ Range(Mail(g, NoAnswer, a)) \subseteq Range(Mail(g, h, a))
           /\ Range(Mail(<<>>, NoAnswer, a)) \subseteq Range(Mail(g, h, a))
  <1> DEFINE w == OnItsWay(h)
             u == g \o w
  <1>1. /\ IsList(w) /\ IsList(u) /\ Range(u) = Range(g) \cup Range(w)
        /\ Range(Mail(g, h, a)) = Range(g) \cup Range(w) \cup Range(a)
    BY MailParts
  <1>2. InOrder(Mail(g, h, a)) /\ Mail(g, h, a) = u \o a
    BY DEF Log, Mail
  <1> HIDE DEF w
  <1>3. InOrder(u) /\ InOrder(a) /\ InFront(Range(u), Range(a))
    <2> HIDE DEF u
    <2> QED
      BY <1>1, <1>2, InOrderJoined
  <1>4. InOrder(g)
    BY <1>1, <1>3, InOrderJoined
  <1>5. InFront(Range(g), Range(a))
    BY <1>1, <1>3 DEF InFront
  <1>6. IsList(g \o a) /\ InOrder(g \o a) /\ Range(g \o a) = Range(g) \cup Range(a)
    BY <1>3, <1>4, <1>5, InOrderJoined, RangeJoined, ListConcat
  <1>7. Mail(g, NoAnswer, a) = g \o a /\ Mail(<<>>, NoAnswer, a) = a
    <2>1. OnItsWay(NoAnswer) = <<>> /\ g \o <<>> = g /\ <<>> \o <<>> = <<>> /\ <<>> \o a = a
      BY EmptyIsList, ListConcat DEF OnItsWay
    <2> QED
      BY <2>1 DEF Mail
  <1>8. Log(g \o a, t, i, l, d)
    <2>1. Range(g \o a) \subseteq Range(Mail(g, h, a))
      BY <1>1, <1>6
    <2> QED
      BY <1>6, <2>1, LogForgets
  <1>9. Log(a, t, i, l, d)
    <2>1. Range(a) \subseteq Range(Mail(g, h, a))
      BY <1>1
    <2> QED
      BY <1>3, <2>1, LogForgets
  <1> QED
    BY <1>1, <1>6, <1>7, <1>8, <1>9

-----------------------------------------------------------------------------
(* What is due of the first d of the commands s.                            *)

DueOf(s, d) == UNION {Range(Steps(s[n])) : n \in 1..d}

LEMMA NothingDue == ASSUME NEW s PROVE DueOf(s, 0) = {}
  BY DEF DueOf

LEMMA DueSaid ==
    ASSUME NEW s, IsList(s), NEW c, NEW d \in Nat, d <= Len(s)
    PROVE  DueOf(Append(s, c), d) = DueOf(s, d)
  <1> DEFINE t == Append(s, c)
  <1>1. Len(s) \in Nat /\ \A n \in 1..Len(s) : t[n] = s[n]
    BY ListAppend, ListLen
  <1> HIDE DEF t
  <1>2. \A n \in 1..d : t[n] = s[n]
    BY <1>1
  <1>3. DueOf(t, d) = DueOf(s, d)
    BY <1>2 DEF DueOf
  <1> QED
    BY <1>3 DEF t

LEMMA DueNext ==
    ASSUME NEW s, NEW d \in Nat
    PROVE  DueOf(s, d + 1) = DueOf(s, d) \cup Range(Steps(s[d + 1]))
  <1>1. 1..d + 1 = (1..d) \cup {d + 1}
    OBVIOUS
  <1> QED
    BY <1>1 DEF DueOf

-----------------------------------------------------------------------------
(* The frames and the answers of client i: what each step of the server     *)
(* makes of them.  D are the steps that are due, c the frames carried out,  *)
(* g, h and a what the GUI has got, has on its way and will get.            *)

AirGood(i, l, d, t, D, c) == Log(c, t, i, l, d) /\ Even(Range(c), Range(t), D, i, l, TRUE)

Own(S, i) == \A x \in S : x.cmd.conn = i /\ AnswerFits(x)
MailGood(i, l, d, t, D, m, lf) ==
    /\ Log(m, t, i, l, d) /\ Own(Range(m), i)
    /\ ~lf => Even(Range(m), Range(t), D, i, l, FALSE)

LEMMA KindIs ==
    ASSUME NEW x
    PROVE  /\ ToAir(x) => OfKind(TRUE, x) /\ ~OfKind(FALSE, x)
           /\ ToGui(x) => /\ ~OfKind(TRUE, x)
                          /\ AnswerFits(x) => OfKind(FALSE, x)
                          /\ ~AnswerFits(x) => ~OfKind(FALSE, x)
  BY DEF OfKind, ToAir, ToGui

\* The first of the steps that are left.
LEMMA FirstStep ==
    ASSUME NEW i, NEW l, NEW d, NEW t, ToDo(t, i, l, d), t # <<>>
    PROVE  /\ Numbered(Head(t)) /\ Mine(i, l, Head(t)) /\ ToDo(Tail(t), i, l, d)
           /\ Range(t) = {Head(t)} \cup Range(Tail(t))
  BY ToDoTail DEF Ahead, Mine

\* It is a frame, which is put in the queue.
LEMMA FrameTaken ==
    ASSUME NEW i, NEW l \in Nat, NEW d \in Nat, NEW t, ToDo(t, i, l, d), t # <<>>,
           ToAir(Head(t)), NEW D
    PROVE  /\ \A c : AirGood(i, l, d, t, D, c) =>
                        AirGood(i, l, d, Tail(t), D, Append(c, Head(t)))
           /\ \A m, lf : MailGood(i, l, d, t, D, m, lf) => MailGood(i, l, d, Tail(t), D, m, lf)
  <1> DEFINE h == Head(t)
             R == Range(Tail(t))
  <1>0. ToAir(h) /\ Mine(i, l, h) /\ Range(t) = {h} \cup R
    <2>1. Mine(i, l, Head(t))
      BY FirstStep, Zenon
    <2>2. Range(t) = {Head(t)} \cup Range(Tail(t))
      BY RangeTail, Zenon DEF ToDo
    <2> QED
      BY <2>1, <2>2
  <1>1. /\ Mine(i, l, h) /\ Range(t) = {h} \cup R /\ OfKind(TRUE, h) /\ ~OfKind(FALSE, h)
    <2> HIDE DEF h
    <2> QED
      BY <1>0, KindIs
  <1>2. ASSUME NEW c, AirGood(i, l, d, t, D, c)
        PROVE  AirGood(i, l, d, Tail(t), D, Append(c, h))
    <2>1. IsList(c) /\ Log(c, t, i, l, d) /\ Even(Range(c), Range(t), D, i, l, TRUE)
      BY <1>2 DEF AirGood, Log
    <2>2. Log(Append(c, h), Tail(t), i, l, d) /\ Range(Append(c, h)) = Range(c) \cup {h}
      BY <2>1, LogTakes, RangeAppend
    <2>3. Even(Range(c), {h} \cup R, D, i, l, TRUE)
      BY <1>1, <2>1
    <2> HIDE DEF h, R
    <2>4. Even(Range(c) \cup {h}, R, D, i, l, TRUE)
      BY <1>1, <2>3, EvenTakes
    <2> QED
      BY <2>2, <2>4 DEF AirGood, R
  <1>3. ASSUME NEW m, NEW lf, MailGood(i, l, d, t, D, m, lf)
        PROVE  MailGood(i, l, d, Tail(t), D, m, lf)
    <2>1. Log(m, Tail(t), i, l, d)
      BY <1>3, LogTakes DEF MailGood
    <2>2. ASSUME ~lf PROVE Even(Range(m), R, D, i, l, FALSE)
      <3>1. Even(Range(m), {h} \cup R, D, i, l, FALSE)
        BY <1>1, <1>3, <2>2 DEF MailGood
      <3> HIDE DEF h, R
      <3> QED
        BY <1>1, <3>1, EvenPasses
    <2> QED
      BY <1>3, <2>1, <2>2 DEF MailGood
  <1> QED
    BY <1>2, <1>3

\* It is an answer, which is put in the client's queue.
LEMMA AnswerPut ==
    ASSUME NEW i, NEW l \in Nat, NEW d \in Nat, NEW t, ToDo(t, i, l, d), t # <<>>,
           ToGui(Head(t)), AnswerFits(Head(t)), NEW D
    PROVE  /\ \A c : AirGood(i, l, d, t, D, c) => AirGood(i, l, d, Tail(t), D, c)
           /\ \A m, lf : MailGood(i, l, d, t, D, m, lf) =>
                            MailGood(i, l, d, Tail(t), D, Append(m, Head(t)), lf)
  <1> DEFINE h == Head(t)
             R == Range(Tail(t))
  <1>0. ToGui(h) /\ AnswerFits(h) /\ Mine(i, l, h) /\ Range(t) = {h} \cup R
    <2>1. Mine(i, l, Head(t))
      BY FirstStep, Zenon
    <2>2. Range(t) = {Head(t)} \cup Range(Tail(t))
      BY RangeTail, Zenon DEF ToDo
    <2> QED
      BY <2>1, <2>2
  <1>1. /\ Mine(i, l, h) /\ Range(t) = {h} \cup R /\ OfKind(FALSE, h) /\ ~OfKind(TRUE, h)
    <2> HIDE DEF h
    <2> QED
      BY <1>0, KindIs
  <1>2. ASSUME NEW c, AirGood(i, l, d, t, D, c) PROVE AirGood(i, l, d, Tail(t), D, c)
    <2>1. Log(c, Tail(t), i, l, d)
      BY <1>2, LogTakes DEF AirGood
    <2>2. Even(Range(c), {h} \cup R, D, i, l, TRUE)
      BY <1>1, <1>2 DEF AirGood
    <2> HIDE DEF h, R
    <2>3. Even(Range(c), R, D, i, l, TRUE)
      BY <1>1, <2>2, EvenPasses
    <2> QED
      BY <2>1, <2>3 DEF AirGood, R
  <1>3. ASSUME NEW m, NEW lf, MailGood(i, l, d, t, D, m, lf)
        PROVE  MailGood(i, l, d, Tail(t), D, Append(m, h), lf)
    <2>1. IsList(m) /\ Log(m, t, i, l, d) /\ Own(Range(m), i)
      BY <1>3 DEF MailGood, Log
    <2>2. Log(Append(m, h), Tail(t), i, l, d) /\ Range(Append(m, h)) = Range(m) \cup {h}
      BY <2>1, LogTakes, RangeAppend
    <2>3. h.cmd.conn = i /\ AnswerFits(h)
      BY <1>0, <1>1, Zenon DEF Mine
    <2>4. Own(Range(m) \cup {h}, i)
      <3> HIDE DEF h
      <3> QED
        BY <2>1, <2>3, Zenon DEF Own
    <2>5. ASSUME ~lf PROVE Even(Range(m) \cup {h}, R, D, i, l, FALSE)
      <3>1. Even(Range(m), {h} \cup R, D, i, l, FALSE)
        BY <1>1, <1>3, <2>5 DEF MailGood
      <3> HIDE DEF h, R
      <3> QED
        BY <1>1, <3>1, EvenTakes
    <2> QED
      BY <2>2, <2>4, <2>5 DEF MailGood
  <1> QED
    BY <1>2, <1>3

\* It is an answer that is too long for it, and nobody notices.
LEMMA AnswerDropped ==
    ASSUME NEW i, NEW l \in Nat, NEW d \in Nat, NEW t, ToDo(t, i, l, d), t # <<>>,
           ToGui(Head(t)), ~AnswerFits(Head(t)), NEW D
    PROVE  /\ \A c : AirGood(i, l, d, t, D, c) => AirGood(i, l, d, Tail(t), D, c)
           /\ \A m, lf : MailGood(i, l, d, t, D, m, lf) => MailGood(i, l, d, Tail(t), D, m, lf)
  <1> DEFINE h == Head(t)
             R == Range(Tail(t))
  <1>1. Range(t) = {h} \cup R /\ ~OfKind(TRUE, h) /\ ~OfKind(FALSE, h)
    <2>1. Range(t) = {h} \cup R
      BY RangeTail, Zenon DEF ToDo
    <2>2. ToGui(h) /\ ~AnswerFits(h)
      OBVIOUS
    <2> HIDE DEF h
    <2> QED
      BY <2>1, <2>2, KindIs
  <1>2. ASSUME NEW S, NEW air \in BOOLEAN, Even(S, Range(t), D, i, l, air)
        PROVE  Even(S, R, D, i, l, air)
    <2>1. Even(S, {h} \cup R, D, i, l, air)
      BY <1>1, <1>2
    <2>2. ~OfKind(air, h)
      BY <1>1
    <2> HIDE DEF h, R
    <2> QED
      BY <2>1, <2>2, EvenPasses
  <1>3. ASSUME NEW m, Log(m, t, i, l, d) PROVE Log(m, Tail(t), i, l, d)
    BY <1>3, LogTakes
  <1> QED
    BY <1>2, <1>3 DEF AirGood, MailGood

\* A frame of another client, j, is put in the queue.
LEMMA FrameBeside ==
    ASSUME NEW i, NEW l, NEW d, NEW t, ToDo(t, i, l, d), NEW D, NEW c,
           AirGood(i, l, d, t, D, c),
           NEW h, NEW j, j # i, Numbered(h), Mine(j, l, h), h.cmd.life <= l,
           InFront(Range(c), {h})
    PROVE  AirGood(i, l, d, t, D, Append(c, h))
  <1>1. h.cmd.conn # i /\ ~Mine(i, l, h)
    BY Zenon DEF Mine
  <1>2. Log(c, t, i, l, d) /\ IsList(c) /\ Even(Range(c), Range(t), D, i, l, TRUE)
    BY DEF AirGood, Log
  <1>3. Log(Append(c, h), t, i, l, d) /\ Range(Append(c, h)) = Range(c) \cup {h}
    BY <1>1, <1>2, LogBeside, RangeAppend
  <1>4. Even(Range(c) \cup {h}, Range(t), D, i, l, TRUE)
    BY <1>1, <1>2, EvenBeside
  <1> QED
    BY <1>3, <1>4 DEF AirGood

\* The next command is handed to processCommand.
LEMMA CommandBegins ==
    ASSUME NEW i, NEW l \in Nat, NEW d \in Nat, NEW D, NEW w, ToDo(w, i, l, d + 1)
    PROVE  /\ \A c : AirGood(i, l, d, <<>>, D, c) =>
                        AirGood(i, l, d + 1, w, D \cup Range(w), c)
           /\ \A m, lf : MailGood(i, l, d, <<>>, D, m, lf) =>
                            MailGood(i, l, d + 1, w, D \cup Range(w), m, lf)
  <1>0. Range(<<>>) = {}
    BY RangeEmpty
  <1>1. ASSUME NEW c, AirGood(i, l, d, <<>>, D, c)
        PROVE  AirGood(i, l, d + 1, w, D \cup Range(w), c)
    <2>1. Log(c, w, i, l, d + 1)
      BY <1>1, LogNext DEF AirGood
    <2>2. Even(Range(c), Range(w), D \cup Range(w), i, l, TRUE)
      BY <1>0, <1>1, EvenNext DEF AirGood
    <2> QED
      BY <2>1, <2>2 DEF AirGood
  <1>2. ASSUME NEW m, NEW lf, MailGood(i, l, d, <<>>, D, m, lf)
        PROVE  MailGood(i, l, d + 1, w, D \cup Range(w), m, lf)
    <2>1. Log(m, w, i, l, d + 1)
      BY <1>2, LogNext DEF MailGood
    <2>2. ~lf => Even(Range(m), Range(w), D \cup Range(w), i, l, FALSE)
      BY <1>0, <1>2, EvenNext DEF MailGood
    <2> QED
      BY <1>2, <2>1, <2>2 DEF MailGood
  <1> QED
    BY <1>1, <1>2

\* The server starts again, with what was in the queues.
LEMMA LifeBegins ==
    ASSUME NEW i, NEW l \in Nat, NEW d, NEW t, NEW D
    PROVE  /\ \A c : AirGood(i, l, d, t, D, c) => AirGood(i, l + 1, 0, <<>>, {}, c)
           /\ \A m, lf : MailGood(i, l, d, t, D, m, lf) =>
                            MailGood(i, l + 1, 0, <<>>, {}, m, FALSE)
  <1>0. Range(<<>>) = {}
    BY RangeEmpty
  <1>1. ASSUME NEW c, AirGood(i, l, d, t, D, c) PROVE AirGood(i, l + 1, 0, <<>>, {}, c)
    <2>1. Log(c, <<>>, i, l + 1, 0) /\ \A x \in Range(c) : x.cmd.life # l + 1
      BY <1>1, LogLater DEF AirGood
    <2> DEFINE k == l + 1
    <2> HIDE DEF k
    <2>2. Even(Range(c), {}, {}, i, k, TRUE)
      BY <2>1, EvenLater DEF k
    <2> QED
      BY <1>0, <2>1, <2>2 DEF AirGood, k
  <1>2. ASSUME NEW m, NEW lf, MailGood(i, l, d, t, D, m, lf)
        PROVE  MailGood(i, l + 1, 0, <<>>, {}, m, FALSE)
    <2>1. Log(m, <<>>, i, l + 1, 0) /\ \A x \in Range(m) : x.cmd.life # l + 1
      BY <1>2, LogLater DEF MailGood
    <2> DEFINE k == l + 1
    <2> HIDE DEF k
    <2>2. Even(Range(m), {}, {}, i, k, FALSE)
      BY <2>1, EvenLater DEF k
    <2> QED
      BY <1>0, <1>2, <2>1, <2>2 DEF MailGood, k
  <1> QED
    BY <1>1, <1>2

\* A GUI has left, and some of its mail is lost.
LEMMA MailForgotten ==
    ASSUME NEW i, NEW l, NEW d, NEW t, NEW D, NEW g, IsList(g), NEW h, NEW a, IsList(a),
           NEW lf, MailGood(i, l, d, t, D, Mail(g, h, a), lf)
    PROVE  MailGood(i, l, d, t, D, Mail(g, NoAnswer, a), TRUE)
  <1>1. /\ Log(Mail(g, NoAnswer, a), t, i, l, d)
        /\ Range(Mail(g, NoAnswer, a)) \subseteq Range(Mail(g, h, a))
    BY MailLost DEF MailGood
  <1>2. Own(Range(Mail(g, h, a)), i)
    BY DEF MailGood
  <1> QED
    BY <1>1, <1>2, Zenon DEF MailGood, Own

\* What the server that starts again finds is what was in the queue.
LEMMA MailFound ==
    ASSUME NEW i, NEW l \in Nat, NEW d, NEW t, NEW D, NEW g, IsList(g), NEW h,
           NEW a, IsList(a), NEW lf, MailGood(i, l, d, t, D, Mail(g, h, a), lf)
    PROVE  MailGood(i, l + 1, 0, <<>>, {}, Mail(<<>>, NoAnswer, a), FALSE)
  <1>1. /\ Log(Mail(<<>>, NoAnswer, a), t, i, l, d)
        /\ Range(Mail(<<>>, NoAnswer, a)) \subseteq Range(Mail(g, h, a))
    BY MailLost DEF MailGood
  <1>2. Own(Range(Mail(g, h, a)), i)
    BY DEF MailGood
  <1>3. MailGood(i, l, d, t, D, Mail(<<>>, NoAnswer, a), TRUE)
    BY <1>1, <1>2, Zenon DEF MailGood, Own
  <1> QED
    BY <1>3, LifeBegins

LEMMA NothingDone ==
    ASSUME NEW i
    PROVE  /\ AirGood(i, 1, 0, <<>>, {}, <<>>)
           /\ MailGood(i, 1, 0, <<>>, {}, Mail(<<>>, NoAnswer, <<>>), FALSE)
  <1>1. Log(<<>>, <<>>, i, 1, 0) /\ Range(<<>>) = {}
    BY LogNothing, RangeEmpty
  <1>2. Mail(<<>>, NoAnswer, <<>>) = <<>>
    <2>1. <<>> \o <<>> = <<>>
      BY EmptyIsList, ListConcat
    <2> QED
      BY <2>1 DEF Mail, OnItsWay
  <1>3. Even({}, {}, {}, i, 1, TRUE) /\ Even({}, {}, {}, i, 1, FALSE)
    BY EvenLater
  <1> QED
    BY <1>1, <1>2, <1>3 DEF AirGood, MailGood, Own

-----------------------------------------------------------------------------
(* What holds of client i in life l of the server under plan pl, when the   *)
(* GUI has said s, d commands were handed on and t is left of the last.     *)

CommandOf(pl, l, i, n) == [life |-> l, conn |-> i, n |-> n, kind |-> pl.says[l][i][n]]

\* s is what the plan has.
Foreseen(s, i, l, pl) ==
    /\ IsList(s) /\ Len(s) <= Len(pl.says[l][i])
    /\ \A n \in 1..Len(s) : s[n] = CommandOf(pl, l, i, n)

InStep(i, l, pl, s, d, t, c, g, h, a, lf) ==
    /\ Foreseen(s, i, l, pl) /\ d \in Nat /\ ToDo(t, i, l, d) /\ IsList(g) /\ IsList(a)
    /\ AirGood(i, l, d, t, DueOf(s, d), c)
    /\ MailGood(i, l, d, t, DueOf(s, d), Mail(g, h, a), lf)

\* The steps of a command know it and their places.
LEMMA StepsKnown ==
    ASSUME NEW pl \in Plans, NEW l \in 1..Len(pl.says), NEW i \in Conns,
           NEW n \in 1..Len(pl.says[l][i])
    PROVE  ToDo(Steps(CommandOf(pl, l, i, n)), i, l, n)
  <1> DEFINE c == CommandOf(pl, l, i, n)
             s == Steps(c)
             L == Len(s)
  <1>1. /\ L \in Nat /\ s = [k \in 1..L |-> [cmd |-> c, k |-> k, fct |-> s[k].fct]]
        /\ \A k \in 1..L : s[k] # NoAnswer
    <2>1. c = [life |-> l, conn |-> i, n |-> n, kind |-> pl.says[l][i][n]]
      BY DEF CommandOf
    <2> HIDE DEF c
    <2>2. /\ Len(s) \in Nat
          /\ s = [k \in 1..Len(s) |-> [cmd |-> c, k |-> k, fct |-> s[k].fct]]
          /\ \A k \in 1..Len(s) : s[k] # NoAnswer
      BY <2>1, PlansAssumption
    <2> QED
      BY <2>2
  <1>2. c.life = l /\ c.conn = i /\ c.n = n /\ l \in Nat /\ n \in Nat
    BY PlansAssumption DEF CommandOf
  <1> HIDE DEF c, s
  <1>3. \A k \in 1..L : s[k].cmd = c /\ s[k].k = k
    BY <1>1
  <1>4. IsList(s)
    <2> DEFINE S == {s[k] : k \in 1..L}
    <2>1. s = [k \in 1..L |-> s[k]]
      BY <1>1
    <2>2. s \in [1..L -> S]
      BY <2>1
    <2>3. s \in Seq(S)
      BY <1>1, <2>2, SeqDef
    <2> QED
      BY <2>3 DEF IsList
  <1> HIDE DEF L
  <1>5. \A a, b \in 1..L : a < b => Precedes(s[a], s[b])
    BY <1>3 DEF Precedes
  <1>6. InOrder(s)
    BY <1>4, <1>5, InOrderIs DEF L
  <1>7. \A k \in 1..L : /\ Numbered(s[k]) /\ s[k].cmd.conn = i /\ s[k].cmd.life = l
                        /\ s[k].cmd.n = n
    BY <1>1, <1>2, <1>3 DEF Numbered
  <1>8. Range(s) = {s[k] : k \in 1..L}
    BY <1>4, RangeIs DEF L
  <1>9. Ahead(Range(s), i, l, n)
    BY <1>7, <1>8, Zenon DEF Ahead
  <1> QED
    BY <1>4, <1>6, <1>9 DEF ToDo, s, c

\* The text of a command says what its steps are.
LEMMA WorkIs == ASSUME NEW c PROVE Work(CommandBytes(c)) = Steps(c)
  <1> DEFINE x == CommandBytes(c)
  <1>1. IsList(x) /\ Len(x) = CmdLen /\ \A k \in 1..CmdLen : x[k] = <<c, k>>
    BY CommandIsList
  <1>2. CmdLen \in Nat \ {0}
    BY DepthIs
  <1> HIDE DEF x
  <1>3. x # <<>> /\ x[1] = <<c, 1>>
    BY <1>1, <1>2, ListLen
  <1>4. x[1][1] = c
    BY <1>3
  <1> QED
    BY <1>3, <1>4 DEF Work, x

\* The GUI says another command.
LEMMA StepSaid ==
    ASSUME NEW i, NEW l, NEW pl, NEW s, NEW d, NEW t, NEW c, NEW g, NEW h, NEW a, NEW lf,
           InStep(i, l, pl, s, d, t, c, g, h, a, lf), d <= Len(s),
           Len(s) < Len(pl.says[l][i]), Len(pl.says[l][i]) \in Nat
    PROVE  InStep(i, l, pl, Append(s, CommandOf(pl, l, i, Len(s) + 1)), d, t, c, g, h, a, lf)
  <1> DEFINE e == CommandOf(pl, l, i, Len(s) + 1)
             u == Append(s, e)
             M == Len(pl.says[l][i])
  <1>1. /\ IsList(s) /\ Len(s) < M /\ M \in Nat /\ d \in Nat
        /\ \A n \in 1..Len(s) : s[n] = CommandOf(pl, l, i, n)
    BY DEF InStep, Foreseen
  <1>2. DueOf(u, d) = DueOf(s, d)
    <2> HIDE DEF e
    <2> QED
      BY <1>1, DueSaid
  <1>3. /\ IsList(u) /\ Len(u) = Len(s) + 1 /\ u[Len(s) + 1] = e /\ Len(s) \in Nat
        /\ \A n \in 1..Len(s) : u[n] = s[n]
    BY <1>1, ListAppend, ListLen
  <1> HIDE DEF u, M
  <1>4. Len(u) <= M
    BY <1>1, <1>3
  <1>5. ASSUME NEW n \in 1..Len(u) PROVE u[n] = CommandOf(pl, l, i, n)
    <2>1. n \in 1..Len(s) \/ n = Len(s) + 1
      BY <1>3
    <2> QED
      BY <1>1, <1>3, <2>1, Zenon DEF e
  <1>6. Foreseen(u, i, l, pl)
    BY <1>3, <1>4, <1>5 DEF Foreseen, M
  <1> QED
    BY <1>2, <1>6, Zenon DEF InStep, u

\* The next command is handed to processCommand.
LEMMA StepBegins ==
    ASSUME NEW i \in Conns, NEW pl \in Plans, NEW l \in 1..Len(pl.says), NEW s, NEW d,
           NEW c, NEW g, NEW h, NEW a, NEW lf,
           InStep(i, l, pl, s, d, <<>>, c, g, h, a, lf), d + 1 <= Len(s)
    PROVE  InStep(i, l, pl, s, d + 1, Steps(s[d + 1]), c, g, h, a, lf)
  <1> DEFINE w == Steps(s[d + 1])
             M == Len(pl.says[l][i])
  <1>1. /\ IsList(s) /\ Len(s) <= M /\ d \in Nat
        /\ \A n \in 1..Len(s) : s[n] = CommandOf(pl, l, i, n)
    BY DEF InStep, Foreseen
  <1>2. M \in Nat /\ Len(s) \in Nat /\ l \in Nat
    BY <1>1, PlansAssumption, ListLen
  <1> HIDE DEF M
  <1>3. d + 1 \in 1..Len(s) /\ d + 1 \in 1..M /\ d + 1 \in Nat
    BY <1>1, <1>2
  <1>4. ToDo(w, i, l, d + 1)
    BY <1>1, <1>3, StepsKnown DEF M
  <1>5. DueOf(s, d + 1) = DueOf(s, d) \cup Range(w)
    BY <1>1, DueNext
  <1> HIDE DEF w
  <1>6. AirGood(i, l, d + 1, w, DueOf(s, d) \cup Range(w), c)
    BY <1>1, <1>2, <1>4, CommandBegins DEF InStep
  <1>7. MailGood(i, l, d + 1, w, DueOf(s, d) \cup Range(w), Mail(g, h, a), lf)
    BY <1>1, <1>2, <1>4, CommandBegins DEF InStep
  <1> QED
    BY <1>3, <1>4, <1>5, <1>6, <1>7, Zenon DEF InStep, w

\* It is a frame that the command under way puts in the queue next; the other
\* clients' commands are put off by none.
LEMMA StepFrame ==
    ASSUME NEW i, NEW l \in Nat, NEW pl, NEW s, NEW d, NEW t, NEW c, NEW g, NEW h, NEW a,
           NEW lf, InStep(i, l, pl, s, d, t, c, g, h, a, lf), t # <<>>, ToAir(Head(t))
    PROVE  /\ InStep(i, l, pl, s, d, Tail(t), Append(c, Head(t)), g, h, a, lf)
           /\ Numbered(Head(t)) /\ Mine(i, l, Head(t)) /\ Head(t).cmd.life <= l
           /\ InFront(Range(c), {Head(t)})
  <1> DEFINE D == DueOf(s, d)
             m == Mail(g, h, a)
             e == Head(t)
             r == Tail(t)
  <1>1. /\ d \in Nat /\ ToDo(t, i, l, d) /\ AirGood(i, l, d, t, D, c)
        /\ MailGood(i, l, d, t, D, m, lf)
    BY DEF InStep
  <1>2. Numbered(e) /\ Mine(i, l, e) /\ ToDo(r, i, l, d)
    BY <1>1, FirstStep
  <1>3. InFront(Range(c), {e})
    BY <1>1, LogTakes DEF AirGood
  <1>4. e.cmd.life <= l
    <2> DEFINE n == e.cmd.life
    <2>1. n = l
      BY <1>2, Zenon DEF Mine
    <2> HIDE DEF n
    <2>2. n <= l
      BY <2>1
    <2> QED
      BY <2>2 DEF n
  <1> HIDE DEF D, m
  <1>5. AirGood(i, l, d, r, D, Append(c, e)) /\ MailGood(i, l, d, r, D, m, lf)
    BY <1>1, FrameTaken
  <1> HIDE DEF e, r
  <1>6. InStep(i, l, pl, s, d, r, Append(c, e), g, h, a, lf)
    BY <1>2, <1>5, Zenon DEF InStep, D, m
  <1> QED
    BY <1>2, <1>3, <1>4, <1>6 DEF e, r

LEMMA StepBeside ==
    ASSUME NEW i, NEW l, NEW pl, NEW s, NEW d, NEW t, NEW c, NEW g, NEW h, NEW a,
           NEW lf, InStep(i, l, pl, s, d, t, c, g, h, a, lf),
           NEW e, NEW j, j # i, Numbered(e), Mine(j, l, e), e.cmd.life <= l,
           InFront(Range(c), {e})
    PROVE  InStep(i, l, pl, s, d, t, Append(c, e), g, h, a, lf)
  <1> DEFINE D == DueOf(s, d)
  <1>1. ToDo(t, i, l, d) /\ AirGood(i, l, d, t, D, c)
    BY DEF InStep
  <1> HIDE DEF D
  <1>2. AirGood(i, l, d, t, D, Append(c, e))
    BY <1>1, FrameBeside
  <1> QED
    BY <1>2, Zenon DEF InStep, D

\* It is an answer that it puts in its client's queue.
LEMMA StepAnswer ==
    ASSUME NEW i, NEW l \in Nat, NEW pl, NEW s, NEW d, NEW t, NEW c, NEW g, NEW h, NEW a,
           NEW lf, InStep(i, l, pl, s, d, t, c, g, h, a, lf), t # <<>>, ToGui(Head(t)),
           AnswerFits(Head(t))
    PROVE  InStep(i, l, pl, s, d, Tail(t), c, g, h, Append(a, Head(t)), lf)
  <1> DEFINE D == DueOf(s, d)
             m == Mail(g, h, a)
             e == Head(t)
             r == Tail(t)
             b == Append(a, e)
  <1>1. /\ d \in Nat /\ ToDo(t, i, l, d) /\ AirGood(i, l, d, t, D, c) /\ IsList(g)
        /\ MailGood(i, l, d, t, D, m, lf) /\ IsList(a)
    BY DEF InStep
  <1>2. ToDo(r, i, l, d)
    BY <1>1, FirstStep
  <1>3. Mail(g, h, b) = Append(m, e) /\ IsList(b)
    BY <1>1, MailPut, ListAppend
  <1> HIDE DEF D, m, b
  <1>4. AirGood(i, l, d, r, D, c) /\ MailGood(i, l, d, r, D, Append(m, e), lf)
    BY <1>1, AnswerPut
  <1> HIDE DEF e, r
  <1>5. InStep(i, l, pl, s, d, r, c, g, h, b, lf)
    BY <1>1, <1>2, <1>3, <1>4, Zenon DEF InStep, D
  <1> QED
    BY <1>5 DEF e, r, b

\* It is one that is too long for the queue.
LEMMA StepDropped ==
    ASSUME NEW i, NEW l \in Nat, NEW pl, NEW s, NEW d, NEW t, NEW c, NEW g, NEW h, NEW a,
           NEW lf, InStep(i, l, pl, s, d, t, c, g, h, a, lf), t # <<>>, ToGui(Head(t)),
           ~AnswerFits(Head(t))
    PROVE  InStep(i, l, pl, s, d, Tail(t), c, g, h, a, lf)
  <1> DEFINE D == DueOf(s, d)
             m == Mail(g, h, a)
             r == Tail(t)
  <1>1. /\ d \in Nat /\ ToDo(t, i, l, d) /\ AirGood(i, l, d, t, D, c)
        /\ MailGood(i, l, d, t, D, m, lf)
    BY DEF InStep
  <1>2. ToDo(r, i, l, d)
    BY <1>1, FirstStep
  <1> HIDE DEF D, m
  <1>3. AirGood(i, l, d, r, D, c) /\ MailGood(i, l, d, r, D, m, lf)
    BY <1>1, AnswerDropped
  <1> HIDE DEF r
  <1>4. InStep(i, l, pl, s, d, r, c, g, h, a, lf)
    BY <1>2, <1>3, Zenon DEF InStep, D, m
  <1> QED
    BY <1>4 DEF r

\* The sending thread takes an answer from the queue.
LEMMA StepTaken ==
    ASSUME NEW i, NEW l, NEW pl, NEW s, NEW d, NEW t, NEW c, NEW g, NEW a,
           NEW lf, InStep(i, l, pl, s, d, t, c, g, NoAnswer, a, lf), a # <<>>
    PROVE  InStep(i, l, pl, s, d, t, c, g, Head(a), Tail(a), lf)
  <1> DEFINE D == DueOf(s, d)
             m == Mail(g, NoAnswer, a)
             e == Head(a)
             r == Tail(a)
  <1>1. IsList(g) /\ IsList(a) /\ MailGood(i, l, d, t, D, m, lf)
    BY DEF InStep
  <1>2. e # NoAnswer
    <2>1. e \in Range(m)
      <3>1. Range(a) = {e} \cup Range(r)
        BY <1>1, RangeTail
      <3>2. Range(m) = Range(g) \cup Range(OnItsWay(NoAnswer)) \cup Range(a)
        BY <1>1, MailParts
      <3> QED
        BY <3>1, <3>2
    <2>2. Past(Range(m), i, l, d)
      BY <1>1 DEF MailGood, Log
    <2> QED
      BY <2>1, <2>2, Zenon DEF Past, Numbered
  <1>3. IsList(r) /\ Mail(g, e, r) = m
    BY <1>1, <1>2, ListTail, MailTaken
  <1> HIDE DEF e, r, m
  <1>4. InStep(i, l, pl, s, d, t, c, g, e, r, lf)
    BY <1>1, <1>3, Zenon DEF InStep
  <1> QED
    BY <1>4 DEF e, r

\* It sends the one in hand; or, when the GUI has left, that one is lost.
LEMMA StepSent ==
    ASSUME NEW i, NEW l, NEW pl, NEW s, NEW d, NEW t, NEW c, NEW g, NEW h, NEW a,
           NEW lf, InStep(i, l, pl, s, d, t, c, g, h, a, lf), h # NoAnswer
    PROVE  InStep(i, l, pl, s, d, t, c, Append(g, h), NoAnswer, a, lf)
  <1> DEFINE b == Append(g, h)
  <1>1. IsList(g) /\ IsList(a) /\ MailGood(i, l, d, t, DueOf(s, d), Mail(g, h, a), lf)
    BY DEF InStep
  <1>2. IsList(b) /\ Mail(b, NoAnswer, a) = Mail(g, h, a)
    BY <1>1, ListAppend, MailSent
  <1> HIDE DEF b
  <1>3. InStep(i, l, pl, s, d, t, c, b, NoAnswer, a, lf)
    BY <1>1, <1>2, Zenon DEF InStep
  <1> QED
    BY <1>3 DEF b

LEMMA StepLost ==
    ASSUME NEW i, NEW l, NEW pl, NEW s, NEW d, NEW t, NEW c, NEW g, NEW h, NEW a,
           NEW lf, InStep(i, l, pl, s, d, t, c, g, h, a, lf)
    PROVE  /\ InStep(i, l, pl, s, d, t, c, g, NoAnswer, a, TRUE)
           /\ InStep(i, l, pl, s, d, t, c, g, h, a, TRUE)
  <1> DEFINE D == DueOf(s, d)
             m == Mail(g, h, a)
             k == Mail(g, NoAnswer, a)
  <1>1. IsList(g) /\ IsList(a) /\ MailGood(i, l, d, t, D, m, lf)
    BY DEF InStep
  <1>2. MailGood(i, l, d, t, D, k, TRUE)
    <2> HIDE DEF D
    <2> QED
      BY <1>1, MailForgotten
  <1>3. MailGood(i, l, d, t, D, m, TRUE)
    BY <1>1, Zenon DEF MailGood
  <1> QED
    BY <1>2, <1>3, Zenon DEF InStep

\* The server starts again and finds the queue.
LEMMA StepAgain ==
    ASSUME NEW i, NEW l \in Nat, NEW pl, NEW s, NEW d, NEW t, NEW c, NEW g, NEW h, NEW a,
           NEW lf, InStep(i, l, pl, s, d, t, c, g, h, a, lf), Len(pl.says[l + 1][i]) \in Nat
    PROVE  InStep(i, l + 1, pl, <<>>, 0, <<>>, c, <<>>, NoAnswer, a, FALSE)
  <1> DEFINE D == DueOf(s, d)
             k == l + 1
  <1>1. /\ IsList(g) /\ IsList(a) /\ MailGood(i, l, d, t, D, Mail(g, h, a), lf)
        /\ AirGood(i, l, d, t, D, c)
    BY DEF InStep
  <1> HIDE DEF D
  <1>2. AirGood(i, k, 0, <<>>, {}, c) /\ MailGood(i, k, 0, <<>>, {}, Mail(<<>>, NoAnswer, a), FALSE)
    BY <1>1, LifeBegins, MailFound
  <1>3. IsList(<<>>) /\ Len(<<>>) = 0 /\ DueOf(<<>>, 0) = {} /\ 0 \in Nat
    BY EmptyIsList, NothingDue
  <1> HIDE DEF k
  <1>4. Foreseen(<<>>, i, k, pl)
    <2>1. Len(pl.says[k][i]) \in Nat
      BY DEF k
    <2> QED
      BY <1>3, <2>1 DEF Foreseen
  <1>5. ToDo(<<>>, i, k, 0)
    BY ToDoNothing
  <1>6. InStep(i, k, pl, <<>>, 0, <<>>, c, <<>>, NoAnswer, a, FALSE)
    BY <1>1, <1>2, <1>3, <1>4, <1>5, Zenon DEF InStep
  <1> QED
    BY <1>6 DEF k

LEMMA StepNone ==
    ASSUME NEW i, NEW pl, Len(pl.says[1][i]) \in Nat
    PROVE  InStep(i, 1, pl, <<>>, 0, <<>>, <<>>, <<>>, NoAnswer, <<>>, FALSE)
  <1>1. IsList(<<>>) /\ Len(<<>>) = 0 /\ DueOf(<<>>, 0) = {} /\ 0 \in Nat
    BY EmptyIsList, NothingDue
  <1>2. Foreseen(<<>>, i, 1, pl)
    BY <1>1 DEF Foreseen
  <1>3. ToDo(<<>>, i, 1, 0)
    BY ToDoNothing
  <1> QED
    BY <1>1, <1>2, <1>3, NothingDone, Zenon DEF InStep

-----------------------------------------------------------------------------
(* The steps of the server.                                                 *)

AllInStep ==
    \A i \in Conns : InStep(i, life, plan, said[i], Len(done[i]), todo[i], carried,
                            got[i], hand[i], answers[i], left[i])
StepsInv ==
    /\ plan \in Plans /\ life \in 1..Len(plan.says)
    /\ DOMAIN todo = Conns /\ DOMAIN got = Conns /\ DOMAIN hand = Conns
    /\ AllInStep

\* What the plan has is known.
LEMMA PlanKnown ==
    ASSUME NEW pl \in Plans, NEW l \in 1..Len(pl.says), NEW i \in Conns
    PROVE  l \in Nat /\ Len(pl.says[l][i]) \in Nat
  BY PlansAssumption

\* A step of client i alone.
LEMMA OneSteps ==
    ASSUME StepsInv, NEW i \in Conns, UNCHANGED <<life, plan, carried>>,
           DOMAIN todo' = Conns, DOMAIN got' = Conns, DOMAIN hand' = Conns,
           \A j \in Conns \ {i} :
              /\ said'[j] = said[j] /\ done'[j] = done[j] /\ todo'[j] = todo[j]
              /\ got'[j] = got[j] /\ hand'[j] = hand[j] /\ answers'[j] = answers[j]
              /\ left'[j] = left[j],
           InStep(i, life, plan, said'[i], Len(done'[i]), todo'[i], carried,
                  got'[i], hand'[i], answers'[i], left'[i])
    PROVE  StepsInv'
  <1>1. ASSUME NEW j \in Conns
        PROVE  InStep(j, life', plan', said'[j], Len(done'[j]), todo'[j], carried',
                      got'[j], hand'[j], answers'[j], left'[j])
    <2>1. CASE j = i
      BY <2>1
    <2>2. CASE j # i
      BY <2>2, Zenon DEF StepsInv, AllInStep
    <2> QED
      BY <2>1, <2>2
  <1>2. AllInStep'
    BY <1>1 DEF AllInStep
  <1> QED
    BY <1>2 DEF StepsInv

\* Nothing of it changes.
LEMMA NoneSteps ==
    ASSUME StepsInv, UNCHANGED <<life, plan, carried, said, done, todo, mailbox, left>>
    PROVE  StepsInv'
  BY DEF StepsInv, AllInStep, mailbox

LEMMA SaysKeeps ==
    ASSUME StepsInv, ClientsInv, NEW i \in Conns, Len(said[i]) < Len(plan.says[life][i]),
           Says(i, Command(i, Len(said[i]) + 1)), UNCHANGED <<plan, carried>>
    PROVE  StepsInv'
  <1> DEFINE e == CommandOf(plan, life, i, Len(said[i]) + 1)
  <1>1. /\ said' = [said EXCEPT ![i] = Append(@, e)]
        /\ UNCHANGED <<life, left, done, todo, mailbox, plan, carried>>
    BY DEF Says, Command, CommandOf
  <1>2. DOMAIN said = Conns /\ Len(done[i]) <= Len(said[i])
    BY CutShows DEF ClientsInv, ClientsTyped
  <1>3. plan \in Plans /\ life \in 1..Len(plan.says)
    BY DEF StepsInv
  <1>4. InStep(i, life, plan, said[i], Len(done[i]), todo[i], carried, got[i], hand[i],
               answers[i], left[i])
    BY DEF StepsInv, AllInStep
  <1>5. InStep(i, life, plan, Append(said[i], e), Len(done[i]), todo[i], carried, got[i],
               hand[i], answers[i], left[i])
    BY <1>2, <1>3, <1>4, PlanKnown, StepSaid
  <1> HIDE DEF e
  <1>6. said'[i] = Append(said[i], e) /\ \A j \in Conns \ {i} : said'[j] = said[j]
    BY <1>1, <1>2
  <1> QED
    BY <1>1, <1>5, <1>6, OneSteps, Zenon DEF mailbox, StepsInv

LEMMA LeavesKeeps ==
    ASSUME StepsInv, ClientsInv, NEW i \in Conns, Leaves(i), UNCHANGED <<plan, carried>>
    PROVE  StepsInv'
  <1>1. /\ left' = [left EXCEPT ![i] = TRUE]
        /\ UNCHANGED <<life, said, done, todo, mailbox, plan, carried>>
    BY DEF Leaves, parser
  <1>2. left \in [Conns -> BOOLEAN]
    BY DEF ClientsInv, ClientsTyped
  <1>3. InStep(i, life, plan, said[i], Len(done[i]), todo[i], carried, got[i], hand[i],
               answers[i], TRUE)
    BY StepLost DEF StepsInv, AllInStep
  <1>4. left'[i] = TRUE /\ \A j \in Conns \ {i} : left'[j] = left[j]
    BY <1>1, <1>2
  <1> QED
    BY <1>1, <1>3, <1>4, OneSteps, Zenon DEF mailbox, StepsInv

\* The last byte of a command is found.
LEMMA ByteKeeps ==
    ASSUME StepsInv, ClientsInv, NEW i \in Conns, ParseByte(i), UNCHANGED <<plan, carried>>
    PROVE  StepsInv'
  <1> DEFINE text == Append(traite[i], Head(chunk[i]))
             d == Len(done[i])
  <1>1. /\ chunk[i] # <<>> /\ todo[i] = <<>> /\ UNCHANGED <<life, said, left, mailbox, plan, carried>>
        /\ \/ UNCHANGED <<done, todo>>
           \/ /\ Count(i) = 0 /\ done' = [done EXCEPT ![i] = Append(@, text)]
              /\ todo' = [todo EXCEPT ![i] = Work(text)]
    BY DEF ParseByte, AtByte
  <1>2. CASE UNCHANGED <<done, todo>>
    BY <1>1, <1>2, NoneSteps
  <1>3. CASE /\ Count(i) = 0 /\ done' = [done EXCEPT ![i] = Append(@, text)]
             /\ todo' = [todo EXCEPT ![i] = Work(text)]
    <2>1. Cut(said[i], done[i], traite[i], blocs[i], chunk[i], stream[i])
      BY DEF ClientsInv, CutInv
    <2>2. d < Len(said[i]) /\ d \in Nat /\ text = CommandBytes(said[i][d + 1])
      <3>1. chunk[i] # <<>> /\ blocs[i] + Brackets[Head(chunk[i])[2]] = 0
        BY <1>1, <1>3 DEF Count
      <3> QED
        BY <2>1, <3>1, CutByte, Zenon
    <2>3. IsList(done[i]) /\ IsList(said[i]) /\ Len(said[i]) \in Nat
      BY <2>1, ListLen DEF Cut
    <2>4. Len(Append(done[i], text)) = d + 1 /\ d + 1 <= Len(said[i])
      <3>1. Len(Append(done[i], text)) = d + 1
        BY <2>3, ListAppend
      <3> HIDE DEF d
      <3>2. d + 1 <= Len(said[i])
        BY <2>2, <2>3
      <3> QED
        BY <3>1, <3>2
    <2>5. Work(text) = Steps(said[i][d + 1])
      BY <2>2, WorkIs
    <2>6. /\ plan \in Plans /\ life \in 1..Len(plan.says)
          /\ InStep(i, life, plan, said[i], d, <<>>, carried, got[i], hand[i], answers[i], left[i])
      BY <1>1 DEF StepsInv, AllInStep
    <2>7. InStep(i, life, plan, said[i], d + 1, Steps(said[i][d + 1]), carried, got[i], hand[i],
                 answers[i], left[i])
      <3> HIDE DEF d
      <3> QED
        BY <2>4, <2>6, StepBegins
    <2>8. /\ DOMAIN done = Conns /\ DOMAIN todo = Conns
      BY DEF ClientsInv, ClientsTyped, StepsInv
    <2>9. /\ Len(done'[i]) = d + 1 /\ todo'[i] = Steps(said[i][d + 1])
          /\ \A j \in Conns \ {i} : done'[j] = done[j] /\ todo'[j] = todo[j]
      <3> HIDE DEF text
      <3> QED
        BY <1>3, <2>4, <2>5, <2>8
    <2>10. DOMAIN todo' = Conns
      BY <1>3, <2>8
    <2> HIDE DEF text, d
    <2> QED
      BY <1>1, <2>7, <2>9, <2>10, OneSteps, Zenon DEF mailbox, StepsInv
  <1> QED
    BY <1>1, <1>2, <1>3

\* A frame of client i's command is put in the queue.
LEMMA FrameKeeps ==
    ASSUME StepsInv, NEW i \in Conns, todo[i] # <<>>, ToAir(Head(todo[i])), StepDone(i),
           carried' = Append(carried, Head(todo[i])),
           UNCHANGED <<plan, life, said, left, done, mailbox>>
    PROVE  StepsInv'
  <1> DEFINE e == Head(todo[i])
  <1>1. /\ plan \in Plans /\ life \in 1..Len(plan.says) /\ life \in Nat
        /\ DOMAIN todo = Conns
    BY DEF StepsInv
  <1>2. /\ InStep(i, life, plan, said[i], Len(done[i]), Tail(todo[i]), Append(carried, e),
                  got[i], hand[i], answers[i], left[i])
        /\ Numbered(e) /\ Mine(i, life, e) /\ e.cmd.life <= life
        /\ InFront(Range(carried), {e})
    BY <1>1, StepFrame DEF StepsInv, AllInStep
  <1>3. /\ todo'[i] = Tail(todo[i]) /\ \A j \in Conns \ {i} : todo'[j] = todo[j]
        /\ DOMAIN todo' = Conns
    BY <1>1 DEF StepDone
  <1> HIDE DEF e
  <1>4. ASSUME NEW j \in Conns
        PROVE  InStep(j, life, plan, said[j], Len(done[j]), todo'[j], Append(carried, e),
                      got[j], hand[j], answers[j], left[j])
    <2>1. CASE j = i
      BY <1>2, <1>3, <2>1
    <2>2. CASE j # i
      <3>1. InStep(j, life, plan, said[j], Len(done[j]), todo[j], carried,
                   got[j], hand[j], answers[j], left[j])
        BY DEF StepsInv, AllInStep
      <3>2. InStep(j, life, plan, said[j], Len(done[j]), todo[j], Append(carried, e),
                   got[j], hand[j], answers[j], left[j])
        BY <1>2, <2>2, <3>1, StepBeside
      <3> QED
        BY <1>3, <2>2, <3>2
    <2> QED
      BY <2>1, <2>2
  <1>5. AllInStep'
    BY <1>4, Zenon DEF AllInStep, mailbox, e
  <1> QED
    BY <1>3, <1>5 DEF StepsInv, mailbox

\* An answer is, or it is too long for its queue.
LEMMA AnswerKeeps ==
    ASSUME StepsInv, ClientsInv, NEW i \in Conns, ToGui(Head(todo[i])), guiNetworkSend(i),
           UNCHANGED <<plan, carried>>
    PROVE  StepsInv'
  <1>1. /\ todo[i] # <<>> /\ todo' = [todo EXCEPT ![i] = Tail(@)]
        /\ UNCHANGED <<life, said, left, done, hand, got, plan, carried>>
    BY DEF guiNetworkSend, StepDone, parser
  <1>2. /\ life \in 1..Len(plan.says) /\ life \in Nat /\ DOMAIN todo = Conns
        /\ DOMAIN answers = Conns
        /\ InStep(i, life, plan, said[i], Len(done[i]), todo[i], carried,
                  got[i], hand[i], answers[i], left[i])
    BY DEF StepsInv, AllInStep, ClientsInv, ClientsTyped
  <1>3. /\ todo'[i] = Tail(todo[i]) /\ \A j \in Conns \ {i} : todo'[j] = todo[j]
        /\ DOMAIN todo' = Conns
    BY <1>1, <1>2
  <1>4. CASE AnswerFits(Head(todo[i])) /\ answers' = [answers EXCEPT ![i] = Append(@, Head(todo[i]))]
    <2>1. InStep(i, life, plan, said[i], Len(done[i]), Tail(todo[i]), carried,
                 got[i], hand[i], Append(answers[i], Head(todo[i])), left[i])
      BY <1>1, <1>2, <1>4, StepAnswer
    <2>2. /\ answers'[i] = Append(answers[i], Head(todo[i]))
          /\ \A j \in Conns \ {i} : answers'[j] = answers[j]
      BY <1>2, <1>4
    <2> QED
      BY <1>1, <1>3, <2>1, <2>2, OneSteps, Zenon DEF StepsInv
  <1>5. CASE ~AnswerFits(Head(todo[i])) /\ UNCHANGED answers
    <2>1. InStep(i, life, plan, said[i], Len(done[i]), Tail(todo[i]), carried,
                 got[i], hand[i], answers[i], left[i])
      BY <1>1, <1>2, <1>5, StepDropped
    <2> QED
      BY <1>1, <1>3, <1>5, <2>1, OneSteps, Zenon DEF StepsInv
  <1> QED
    BY <1>4, <1>5 DEF guiNetworkSend, QueueOf

LEMMA TakenKeeps ==
    ASSUME StepsInv, ClientsInv, NEW i \in Conns, TakeAnswer(i), UNCHANGED <<plan, carried>>
    PROVE  StepsInv'
  <1>1. /\ hand[i] = NoAnswer /\ answers[i] # <<>>
        /\ hand' = [hand EXCEPT ![i] = Head(answers[i])]
        /\ answers' = [answers EXCEPT ![i] = Tail(@)]
        /\ UNCHANGED <<life, said, left, done, todo, got, plan, carried>>
    BY DEF TakeAnswer, parser
  <1>2. DOMAIN hand = Conns /\ DOMAIN answers = Conns
    BY DEF StepsInv, ClientsInv, ClientsTyped
  <1>3. InStep(i, life, plan, said[i], Len(done[i]), todo[i], carried,
               got[i], NoAnswer, answers[i], left[i])
    BY <1>1, Zenon DEF StepsInv, AllInStep
  <1>4. InStep(i, life, plan, said[i], Len(done[i]), todo[i], carried,
               got[i], Head(answers[i]), Tail(answers[i]), left[i])
    BY <1>1, <1>3, StepTaken
  <1>5. /\ hand'[i] = Head(answers[i]) /\ answers'[i] = Tail(answers[i])
        /\ \A j \in Conns \ {i} : hand'[j] = hand[j] /\ answers'[j] = answers[j]
        /\ DOMAIN hand' = Conns
    BY <1>1, <1>2
  <1> QED
    BY <1>1, <1>4, <1>5, OneSteps, Zenon DEF StepsInv

LEMMA SentKeeps ==
    ASSUME StepsInv, ClientsInv, NEW i \in Conns, SendAnswer(i), UNCHANGED <<plan, carried>>
    PROVE  StepsInv'
  <1>1. /\ hand[i] # NoAnswer /\ hand' = [hand EXCEPT ![i] = NoAnswer]
        /\ got' = IF left[i] THEN got ELSE [got EXCEPT ![i] = Append(@, hand[i])]
        /\ UNCHANGED <<life, said, left, done, todo, answers, plan, carried>>
    BY DEF SendAnswer, parser
  <1>2. /\ DOMAIN hand = Conns /\ DOMAIN got = Conns /\ left \in [Conns -> BOOLEAN]
        /\ InStep(i, life, plan, said[i], Len(done[i]), todo[i], carried,
                  got[i], hand[i], answers[i], left[i])
    BY DEF StepsInv, AllInStep, ClientsInv, ClientsTyped
  <1>3. /\ hand'[i] = NoAnswer /\ \A j \in Conns \ {i} : hand'[j] = hand[j]
        /\ DOMAIN hand' = Conns
    BY <1>1, <1>2
  <1>4. CASE left[i]
    <2>1. left[i] = TRUE /\ got' = got
      BY <1>1, <1>2, <1>4
    <2>2. InStep(i, life, plan, said[i], Len(done[i]), todo[i], carried,
                 got[i], NoAnswer, answers[i], left[i])
      BY <1>2, <2>1, StepLost
    <2> QED
      BY <1>1, <1>3, <2>1, <2>2, OneSteps, Zenon DEF StepsInv
  <1>5. CASE ~left[i]
    <2>1. InStep(i, life, plan, said[i], Len(done[i]), todo[i], carried,
                 Append(got[i], hand[i]), NoAnswer, answers[i], left[i])
      BY <1>1, <1>2, StepSent
    <2>2. /\ got'[i] = Append(got[i], hand[i]) /\ \A j \in Conns \ {i} : got'[j] = got[j]
          /\ DOMAIN got' = Conns
      BY <1>1, <1>2, <1>5
    <2> QED
      BY <1>1, <1>3, <2>1, <2>2, OneSteps, Zenon DEF StepsInv
  <1> QED
    BY <1>4, <1>5

\* Both threads of a client that has left are cancelled.
LEMMA CleanKeeps ==
    ASSUME StepsInv, ClientsInv, NEW i \in Conns, cleanClient(i), UNCHANGED <<plan, carried>>
    PROVE  StepsInv'
  <1>1. /\ left[i] /\ hand' = [hand EXCEPT ![i] = NoAnswer]
        /\ UNCHANGED <<life, said, left, done, todo, answers, got, plan, carried>>
    BY DEF cleanClient, parser
  <1>2. /\ DOMAIN hand = Conns /\ left \in [Conns -> BOOLEAN]
        /\ InStep(i, life, plan, said[i], Len(done[i]), todo[i], carried,
                  got[i], hand[i], answers[i], left[i])
    BY DEF StepsInv, AllInStep, ClientsInv, ClientsTyped
  <1>3. left[i] = TRUE
    BY <1>1, <1>2
  <1>4. InStep(i, life, plan, said[i], Len(done[i]), todo[i], carried,
               got[i], NoAnswer, answers[i], left[i])
    BY <1>2, <1>3, StepLost
  <1>5. /\ hand'[i] = NoAnswer /\ \A j \in Conns \ {i} : hand'[j] = hand[j]
        /\ DOMAIN hand' = Conns
    BY <1>1, <1>2
  <1> QED
    BY <1>1, <1>4, <1>5, OneSteps, Zenon DEF StepsInv

LEMMA AgainKeeps ==
    ASSUME StepsInv, life < Len(plan.says), Restart, UNCHANGED <<plan, carried>>
    PROVE  StepsInv'
  <1>1. plan \in Plans /\ life \in 1..Len(plan.says) /\ Len(plan.says) \in Nat
    BY PlansAssumption DEF StepsInv
  <1>2. life + 1 \in 1..Len(plan.says) /\ life \in Nat
    BY <1>1
  <1>3. ASSUME NEW i \in Conns
        PROVE  InStep(i, life', plan', said'[i], Len(done'[i]), todo'[i], carried',
                      got'[i], hand'[i], answers'[i], left'[i])
    <2>1. InStep(i, life, plan, said[i], Len(done[i]), todo[i], carried,
                 got[i], hand[i], answers[i], left[i])
      BY DEF StepsInv, AllInStep
    <2>2. Len(plan.says[life + 1][i]) \in Nat
      BY <1>1, <1>2, PlanKnown
    <2>3. InStep(i, life + 1, plan, <<>>, 0, <<>>, carried, <<>>, NoAnswer, answers[i], FALSE)
      BY <1>2, <2>1, <2>2, StepAgain
    <2>4. /\ said'[i] = <<>> /\ done'[i] = <<>> /\ todo'[i] = <<>> /\ got'[i] = <<>>
          /\ hand'[i] = NoAnswer /\ left'[i] = FALSE /\ life' = life + 1
          /\ UNCHANGED <<plan, carried, answers>>
      BY DEF Restart, All
    <2>5. Len(<<>>) = 0
      BY EmptyIsList
    <2> QED
      BY <2>3, <2>4, <2>5
  <1>4. AllInStep'
    BY <1>3 DEF AllInStep
  <1>5. DOMAIN todo' = Conns /\ DOMAIN got' = Conns /\ DOMAIN hand' = Conns
    BY DEF Restart, All
  <1>6. life' = life + 1
    BY DEF Restart
  <1> QED
    BY <1>1, <1>2, <1>4, <1>5, <1>6 DEF StepsInv

LEMMA StepsBegin == Init => StepsInv
  <1> SUFFICES ASSUME Init PROVE StepsInv
    OBVIOUS
  <1>1. plan \in Plans /\ life = 1 /\ carried = <<>>
    BY DEF Init, ClientsInit
  <1>2. 1 \in 1..Len(plan.says)
    BY <1>1, PlansAssumption
  <1>3. ASSUME NEW i \in Conns
        PROVE  InStep(i, life, plan, said[i], Len(done[i]), todo[i], carried,
                      got[i], hand[i], answers[i], left[i])
    <2>1. InStep(i, 1, plan, <<>>, 0, <<>>, <<>>, <<>>, NoAnswer, <<>>, FALSE)
      BY <1>1, <1>2, PlanKnown, StepNone
    <2>2. /\ said[i] = <<>> /\ done[i] = <<>> /\ todo[i] = <<>> /\ got[i] = <<>>
          /\ hand[i] = NoAnswer /\ left[i] = FALSE /\ answers[i] = <<>>
      BY DEF Init, ClientsInit, All
    <2>3. Len(<<>>) = 0
      BY EmptyIsList
    <2> QED
      BY <1>1, <2>1, <2>2, <2>3
  <1>4. DOMAIN todo = Conns /\ DOMAIN got = Conns /\ DOMAIN hand = Conns
    BY DEF Init, ClientsInit, All
  <1> QED
    BY <1>1, <1>2, <1>3, <1>4 DEF StepsInv, AllInStep

LEMMA StepsKept == StepsInv /\ ClientsInv /\ [Next]_vars => StepsInv'
  <1> SUFFICES ASSUME StepsInv, ClientsInv, [Next]_vars PROVE StepsInv'
    OBVIOUS
  <1>1. CASE Others
    <2>1. CASE \E i \in Conns : Leaves(i) /\ UNCHANGED <<wire, up, plan, carried>>
      BY <2>1, LeavesKeeps
    <2>2. CASE \E i \in Conns : /\ Len(said[i]) < Len(plan.says[life][i])
                                /\ Says(i, Command(i, Len(said[i]) + 1))
                                /\ UNCHANGED <<wire, up, plan, carried>>
      BY <2>2, SaysKeeps
    <2>3. CASE UNCHANGED <<clients, up, plan, carried>>
      BY <2>3, NoneSteps DEF clients, parser
    <2> QED
      BY <1>1, <2>1, <2>2, <2>3 DEF Others
  <1>2. CASE Connect
    BY <1>2, NoneSteps DEF Connect, Accept, StartRec, StartSend, parser
  <1>3. CASE sensorsMsgSend
    BY <1>3, NoneSteps DEF sensorsMsgSend, clients, parser
  <1>4. CASE sensorsMsgRec
    BY <1>4, NoneSteps DEF sensorsMsgRec, clients, parser
  <1>5. CASE Stop
    BY <1>5, NoneSteps DEF Stop, clients, parser
  <1>6. CASE StartAgain
    BY <1>6, AgainKeeps DEF StartAgain
  <1>7. ASSUME NEW i \in Conns, Reads(i) PROVE StepsInv'
    <2>1. CASE \E n \in 1..ChunkLen : RecvChunk(i, n)
      BY <1>7, <2>1, NoneSteps DEF Reads, RecvChunk
    <2>2. CASE ParseByte(i)
      BY <1>7, <2>2, ByteKeeps DEF Reads
    <2>3. CASE cleanClient(i)
      BY <1>7, <2>3, CleanKeeps DEF Reads
    <2>4. CASE Overruns(i) /\ UNCHANGED clients
      BY <1>7, <2>4, NoneSteps DEF Reads, clients, parser
    <2> QED
      BY <1>7, <2>1, <2>2, <2>3, <2>4 DEF Reads
  <1>8. ASSUME NEW i \in Conns, CarriesOut(i) PROVE StepsInv'
    <2>1. CASE /\ ToAir(Head(todo[i])) /\ StepDone(i)
               /\ carried' = Append(carried, Head(todo[i]))
               /\ UNCHANGED <<life, phase, said, left, parser, mailbox>>
      BY <1>8, <2>1, FrameKeeps DEF CarriesOut, parser
    <2>2. CASE ToGui(Head(todo[i])) /\ guiNetworkSend(i) /\ UNCHANGED <<wire, carried>>
      BY <1>8, <2>2, AnswerKeeps DEF CarriesOut
    <2>3. CASE UNCHANGED <<clients, carried>>
      BY <1>8, <2>3, NoneSteps DEF CarriesOut, clients, parser
    <2> QED
      BY <1>8, <2>1, <2>2, <2>3 DEF CarriesOut
  <1>9. ASSUME NEW i \in Conns, Answers(i) PROVE StepsInv'
    BY <1>9, TakenKeeps, SentKeeps DEF Answers
  <1>10. CASE UNCHANGED vars
    BY <1>10, NoneSteps DEF vars, clients, parser
  <1> QED
    BY <1>1, <1>2, <1>3, <1>4, <1>5, <1>6, <1>7, <1>8, <1>9, <1>10 DEF Next

-----------------------------------------------------------------------------
(* What it shows.                                                           *)

LEMMA DueIs ==
    ASSUME ClientsInv, NEW i \in Conns
    PROVE  StepsDue(i) = DueOf(said[i], Len(done[i]))
  BY CutShows DEF StepsDue, DueOf

LEMMA AirShows ==
    ASSUME NEW i, NEW l, NEW d, NEW t, NEW D, NEW c, AirGood(i, l, d, t, D, c), ToDo(t, i, l, d)
    PROVE  /\ InOrder(c \o t)
           /\ {s \in Range(c) : Mine(i, l, s)} \cup {s \in Range(t) : ToAir(s)}
                = {s \in D : ToAir(s)}
  <1>1. InOrder(c \o t)
    BY InOrderJoined DEF AirGood, Log, ToDo
  <1>2. Even(Range(c), Range(t), D, i, l, TRUE)
    BY DEF AirGood
  <1> QED
    BY <1>1, <1>2 DEF Even, OfKind

LEMMA MailShows ==
    ASSUME NEW i, NEW l, NEW d, NEW t, NEW D, NEW m, NEW lf, MailGood(i, l, d, t, D, m, lf),
           ToDo(t, i, l, d)
    PROVE  /\ \A s \in Range(m) : s.cmd.conn = i /\ s.cmd.life <= l /\ AnswerFits(s)
           /\ InOrder(m \o t)
           /\ ~lf => {s \in Range(m) : Mine(i, l, s)}
                         \cup {s \in Range(t) : ToGui(s) /\ AnswerFits(s)}
                       = {s \in D : ToGui(s) /\ AnswerFits(s)}
  <1>1. InOrder(m \o t)
    BY InOrderJoined DEF MailGood, Log, ToDo
  <1>2. \A s \in Range(m) : s.cmd.conn = i /\ s.cmd.life <= l /\ AnswerFits(s)
    BY Zenon DEF MailGood, Log, Own, Past
  <1>3. ~lf => Even(Range(m), Range(t), D, i, l, FALSE)
    BY DEF MailGood
  <1> QED
    BY <1>1, <1>2, <1>3 DEF Even, OfKind

LEMMA StepsAlways == Spec => [](StepsInv /\ ClientsInv)
  <1>1. Init => StepsInv /\ ClientsInv
    BY StepsBegin, ClientsInitOK DEF Init
  <1>2. (StepsInv /\ ClientsInv) /\ [Next]_vars => (StepsInv /\ ClientsInv)'
    BY StepsKept, StepUsesClients, ClientsStepOK
  <1> QED
    BY <1>1, <1>2, PTL DEF Spec

\* Whatever the clients say at once, however the threads are scheduled and
\* whenever the server stops: of each client the frames enter the queue in
\* the order of its commands, each once, and none of them is left out.
THEOREM FramesInOrder == Spec => []CarriedOutInOrder
  <1>1. StepsInv /\ ClientsInv => CarriedOutInOrder
    <2> SUFFICES ASSUME StepsInv, ClientsInv, NEW i \in Conns
                 PROVE  /\ InOrder(carried \o todo[i])
                        /\ {s \in Range(carried) : Of(i, s)} \cup {s \in Range(todo[i]) : ToAir(s)}
                             = {s \in StepsDue(i) : ToAir(s)}
      BY DEF CarriedOutInOrder
    <2>1. /\ AirGood(i, life, Len(done[i]), todo[i], DueOf(said[i], Len(done[i])), carried)
          /\ ToDo(todo[i], i, life, Len(done[i]))
      BY DEF StepsInv, AllInStep, InStep
    <2>2. \A s : Of(i, s) <=> Mine(i, life, s)
      BY DEF Of, Mine
    <2>3. StepsDue(i) = DueOf(said[i], Len(done[i]))
      BY DueIs
    <2> QED
      BY <2>1, <2>2, <2>3, AirShows
  <1> QED
    BY <1>1, StepsAlways, PTL

\* And each GUI gets the answers to its own commands, in their order, each
\* once; as long as it stays none is lost that is not too long for its queue.
THEOREM AnswersInOrder == Spec => []OwnAnswers
  <1>1. StepsInv /\ ClientsInv => OwnAnswers
    <2> SUFFICES ASSUME StepsInv, ClientsInv, NEW i \in Conns
                 PROVE  LET m == Mail(got[i], hand[i], answers[i])
                        IN  /\ \A s \in Range(m) :
                                  s.cmd.conn = i /\ s.cmd.life <= life /\ AnswerFits(s)
                            /\ InOrder(m \o todo[i])
                            /\ ~left[i] =>
                                  {s \in Range(m) : Of(i, s)}
                                      \cup {s \in Range(todo[i]) : ToGui(s) /\ AnswerFits(s)}
                                    = {s \in StepsDue(i) : ToGui(s) /\ AnswerFits(s)}
      BY DEF OwnAnswers, Mail, OnItsWay
    <2> DEFINE m == Mail(got[i], hand[i], answers[i])
    <2>1. /\ MailGood(i, life, Len(done[i]), todo[i], DueOf(said[i], Len(done[i])), m, left[i])
          /\ ToDo(todo[i], i, life, Len(done[i]))
      BY DEF StepsInv, AllInStep, InStep
    <2>2. \A s : Of(i, s) <=> Mine(i, life, s)
      BY DEF Of, Mine
    <2>3. StepsDue(i) = DueOf(said[i], Len(done[i]))
      BY DueIs
    <2> HIDE DEF m
    <2>4. /\ \A s \in Range(m) : s.cmd.conn = i /\ s.cmd.life <= life /\ AnswerFits(s)
          /\ InOrder(m \o todo[i])
          /\ ~left[i] => {s \in Range(m) : Mine(i, life, s)}
                               \cup {s \in Range(todo[i]) : ToGui(s) /\ AnswerFits(s)}
                           = {s \in StepsDue(i) : ToGui(s) /\ AnswerFits(s)}
      BY <2>1, <2>3, MailShows
    <2> QED
      BY <2>2, <2>4 DEF m
  <1> QED
    BY <1>1, StepsAlways, PTL
==============================================================================
