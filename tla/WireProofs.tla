------------------------------ MODULE WireProofs ------------------------------
(***************************************************************************)
(* Proofs about the connection to the gateway, for every length of frames  *)
(* and buffers, every size of the queue and every way in which send and    *)
(* recv cut the streams: Wire keeps its types, implements Channel, and     *)
(* satisfies NothingTorn and DecodedInStep.                                *)
(***************************************************************************)
EXTENDS Wire, SequenceTheorems, TLAPS

B == Nat \X Nat
Sendings == [frame : Nat, nbSent : 0..FrameLen - 1, asks : 1..FrameLen]

\* The types of Wire's variables.
WireTypeOK ==
    /\ open \in BOOLEAN /\ overrun \in BOOLEAN /\ put \in Nat /\ gw \in Nat
    /\ mq \in Seq(Nat) /\ sending \in Sendings \cup {None}
    /\ out \in Seq(B) /\ delivered \in Seq(Nat)
    /\ pipe \in Seq(B) /\ buff \in Seq(B) /\ data \in Seq(B) /\ decoded \in Seq(Seq(B))

-----------------------------------------------------------------------------
(* Lemmas about the bytes of a frame.                                       *)

LEMMA NoneIsNoSending == None \notin Sendings
BY WireAssumption DEF WireAssumption, Sendings

\* Bytes is a sequence of n bytes of frame f, in their order.
LEMMA BytesAre ==
    ASSUME NEW f \in Nat, NEW from \in Nat \ {0}, NEW n \in Nat
    PROVE  /\ Bytes(f, from, n) \in Seq(B) /\ Len(Bytes(f, from, n)) = n
           /\ \A k \in 1..n : Bytes(f, from, n)[k] = <<f, from + k - 1>>
<1>1. \A k \in 1..n : <<f, from + k - 1>> \in B
    BY SMT DEF B
<1>2. Bytes(f, from, n) \in [1..n -> B]
    BY <1>1 DEF Bytes
<1> QED
    BY <1>2 DEF Bytes

\* The first n bytes of frame f.
LEMMA FirstBytesAre ==
    ASSUME NEW f \in Nat, NEW n \in Nat
    PROVE  /\ Bytes(f, 1, n) \in Seq(B) /\ Len(Bytes(f, 1, n)) = n
           /\ \A k \in 1..n : Bytes(f, 1, n)[k] = <<f, k>>
<1>1. \A k \in 1..n : 1 + k - 1 = k
    OBVIOUS
<1>2. 1 \in Nat \ {0}
    OBVIOUS
<1>3. /\ Bytes(f, 1, n) \in Seq(B) /\ Len(Bytes(f, 1, n)) = n
      /\ \A k \in 1..n : Bytes(f, 1, n)[k] = <<f, 1 + k - 1>>
    BY <1>2, BytesAre
<1> QED
    BY <1>1, <1>3, Zenon

\* A whole frame has FrameLen bytes.
LEMMA WholeIs ==
    ASSUME NEW f \in Nat
    PROVE  /\ Whole(f) \in Seq(B) /\ Len(Whole(f)) = FrameLen
           /\ \A k \in 1..FrameLen : Whole(f)[k] = <<f, k>>
<1>1. FrameLen \in Nat
    BY WireAssumption DEF WireAssumption
<1> QED
    BY <1>1, FirstBytesAre, Zenon DEF Whole

\* A frame followed by its next byte is one byte longer.
LEMMA BytesGrow ==
    ASSUME NEW f \in Nat, NEW n \in Nat
    PROVE  Append(Bytes(f, 1, n), <<f, n + 1>>) = Bytes(f, 1, n + 1)
<1> DEFINE s == Append(Bytes(f, 1, n), <<f, n + 1>>)
           t == Bytes(f, 1, n + 1)
<1>1. <<f, n + 1>> \in B
    BY SMT DEF B
<1>2. /\ Bytes(f, 1, n) \in Seq(B) /\ Len(Bytes(f, 1, n)) = n
      /\ \A k \in 1..n : Bytes(f, 1, n)[k] = <<f, k>>
    BY FirstBytesAre, Zenon
<1>3. /\ t \in Seq(B) /\ Len(t) = n + 1 /\ \A k \in 1..n + 1 : t[k] = <<f, k>>
    <2>1. n + 1 \in Nat
        OBVIOUS
    <2> QED
        BY <2>1, FirstBytesAre, Zenon
<1>4. /\ s \in Seq(B) /\ Len(s) = n + 1
      /\ \A i \in 1..n : s[i] = Bytes(f, 1, n)[i]
      /\ s[n + 1] = <<f, n + 1>>
    <2> DEFINE b == Bytes(f, 1, n)
               e == <<f, n + 1>>
    <2>1. b \in Seq(B) /\ e \in B /\ Len(b) = n
        BY <1>1, <1>2
    <2> HIDE DEF b, e
    <2>2. /\ Append(b, e) \in Seq(B) /\ Len(Append(b, e)) = Len(b) + 1
          /\ \A i \in 1..Len(b) : Append(b, e)[i] = b[i]
          /\ Append(b, e)[Len(b) + 1] = e
        BY <2>1, AppendProperties
    <2> QED
        BY <2>1, <2>2, Zenon DEF b, e
<1>5. ASSUME NEW i \in 1..Len(s) PROVE s[i] = t[i]
    <2>1. i \in 1..n \/ i = n + 1
        BY <1>4
    <2>2. i \in 1..n + 1
        BY <1>4
    <2>3. t[i] = <<f, i>>
        BY <1>3, <2>2, Zenon
    <2>4. s[i] = <<f, i>>
        BY <1>2, <1>4, <2>1, Zenon
    <2> QED
        BY <2>3, <2>4
<1> HIDE DEF s, t
<1> QED
    BY <1>3, <1>4, <1>5, SeqEqual DEF s, t

-----------------------------------------------------------------------------
(* Types.                                                                   *)

LEMMA InitTypes == WireInit => WireTypeOK
<1>1. <<>> \in Seq(Nat) /\ <<>> \in Seq(B) /\ <<>> \in Seq(Seq(B))
    BY EmptySeq, Zenon
<1>2. 0 \in Nat
    OBVIOUS
<1> QED
    BY <1>1, <1>2, Zenon DEF WireInit, WireTypeOK

LEMMA StepTypes == WireTypeOK /\ [WireNext]_wire => WireTypeOK'
<1> SUFFICES ASSUME WireTypeOK, [WireNext]_wire PROVE WireTypeOK'
    OBVIOUS
<1> USE DEF WireTypeOK
<1>0. FrameLen \in Nat \ {0}
    BY WireAssumption DEF WireAssumption
<1>1. CASE sensorsNetworkSend
    BY <1>1 DEF sensorsNetworkSend, incoming
<1>2. CASE TakeFrame
    BY <1>0, <1>2 DEF TakeFrame, incoming, Sendings
<1>3. ASSUME NEW k \in 1..FrameLen, SendPart(k) PROVE WireTypeOK'
    <2>1. sending \in Sendings /\ k \in 1..sending.asks
        BY <1>3 DEF SendPart
    <2>2. Bytes(sending.frame, From, k) \in Seq(B)
        <3>1. sending.frame \in Nat /\ From \in Nat \ {0} /\ k \in Nat
            BY <1>0, <2>1 DEF From, Sendings
        <3> QED
            BY <3>1, BytesAre, Zenon
    <2>3. out' \in Seq(B)
        BY <1>3, <2>2, ConcatProperties DEF SendPart
    <2>4. CASE Sent(sending.nbSent + k)
        <3>1. sending' = None /\ delivered' = Append(delivered, sending.frame)
            BY <1>3, <2>4 DEF SendPart
        <3>2. sending.frame \in Nat
            BY <2>1 DEF Sendings
        <3> QED
            BY <1>3, <2>3, <3>1, <3>2, AppendProperties DEF SendPart, incoming
    <2>5. CASE ~Sent(sending.nbSent + k)
        <3>1. /\ sending' = [sending EXCEPT !.nbSent = @ + k, !.asks = k]
              /\ UNCHANGED delivered
            BY <1>3, <2>5 DEF SendPart
        <3>2. sending.nbSent + k \in 0..FrameLen - 1
            BY <1>0, <2>1, <2>5 DEF Sent, Sendings
        <3>3. sending' \in Sendings
            BY <2>1, <3>1, <3>2 DEF Sendings
        <3> QED
            BY <1>3, <2>3, <3>1, <3>3 DEF SendPart, incoming
    <2> QED
        BY <2>4, <2>5
<1>4. CASE GatewaySends
    BY <1>4, WholeIs, ConcatProperties DEF GatewaySends, outgoing
<1>5. CASE GatewayCloses
    BY <1>5 DEF GatewayCloses, outgoing, incoming
<1>6. ASSUME NEW n \in 1..BuffLen, NEW junk \in 0..MaxJunk, Recv(n, junk) PROVE WireTypeOK'
    <2>1. n \in 1..Len(pipe) /\ Len(pipe) \in Nat
        BY <1>6 DEF Recv
    <2>2. SubSeq(pipe, 1, n) \in Seq(B) /\ SubSeq(pipe, n + 1, Len(pipe)) \in Seq(B)
        BY <2>1, SubSeqProperties, ElementOfSeq
    <2>3. Bytes(0, 1, junk) \in Seq(B)
        <3>1. 0 \in Nat /\ junk \in Nat
            BY WireAssumption DEF WireAssumption
        <3> QED
            BY <3>1, FirstBytesAre, Zenon
    <2>4. buff' \in Seq(B) /\ pipe' \in Seq(B)
        BY <1>6, <2>2, <2>3, ConcatProperties DEF Recv
    <2>5. overrun' \in BOOLEAN
        BY <1>6 DEF Recv
    <2> QED
        BY <1>6, <2>4, <2>5 DEF Recv, outgoing
<1>7. CASE Byte
    <2>1. Head(buff) \in B /\ Tail(buff) \in Seq(B)
        BY <1>7, HeadTailProperties DEF Byte
    <2>2. Collected \in Seq(B)
        BY <2>1, AppendProperties DEF Collected
    <2>3. decoded' \in Seq(Seq(B)) /\ data' \in Seq(B)
        <3>1. Append(decoded, Collected) \in Seq(Seq(B))
            BY <2>2, AppendProperties, Zenon
        <3>2. <<>> \in Seq(B)
            BY EmptySeq, Zenon
        <3> QED
            BY <1>7, <2>2, <3>1, <3>2, Zenon DEF Byte
    <2> QED
        BY <1>7, <2>1, <2>3 DEF Byte, outgoing
<1>8. CASE Disconnect
    BY <1>8, EmptySeq DEF Disconnect, Kept
<1>9. CASE UNCHANGED wire
    BY <1>9 DEF wire, outgoing, incoming
<1> QED
    BY <1>1, <1>2, <1>3, <1>4, <1>5, <1>6, <1>7, <1>8, <1>9 DEF WireNext

\* Every variable of the connection keeps its type, in particular the count
\* of the bytes sent stays below the frame's length.
THEOREM WireTypes == WireSpec => []WireTypeOK
BY InitTypes, StepTypes, PTL DEF WireSpec

-----------------------------------------------------------------------------
(* Wire implements Channel.                                                 *)

InHand == IF sending = None THEN <<>> ELSE <<sending.frame>>
Waiting == InHand \o mq

\* A sequence that begins with m.
LEMMA BeginsWith ==
    ASSUME NEW S, NEW m \in S, NEW s \in Seq(S)
    PROVE  <<m>> \o s # <<>> /\ Head(<<m>> \o s) = m /\ Tail(<<m>> \o s) = s
<1> DEFINE c == <<m>> \o s
<1>1. <<m>> \in Seq(S) /\ Len(<<m>>) = 1 /\ <<m>>[1] = m
    OBVIOUS
<1>2. /\ c \in Seq(S) /\ Len(c) = 1 + Len(s)
      /\ \A i \in 1..1 + Len(s) : c[i] = IF i <= 1 THEN <<m>>[i] ELSE s[i - 1]
    BY <1>1, ConcatProperties
<1>3. Len(s) \in Nat
    OBVIOUS
<1> HIDE DEF c
<1>4. c # <<>>
    BY <1>2, <1>3
<1>5. Head(c) = m
    BY <1>1, <1>2, <1>3, <1>4
<1>6. Tail(c) = s
    <2>1. /\ Tail(c) \in Seq(S) /\ Len(Tail(c)) = Len(c) - 1
          /\ \A i \in 1..Len(Tail(c)) : Tail(c)[i] = c[i + 1]
        BY <1>2, <1>4, HeadTailProperties
    <2>2. Len(Tail(c)) = Len(s)
        BY <1>2, <1>3, <2>1
    <2>3. ASSUME NEW i \in 1..Len(Tail(c)) PROVE Tail(c)[i] = s[i]
        <3>1. i \in Nat \ {0} /\ i + 1 \in 1..1 + Len(s) /\ ~(i + 1 <= 1) /\ (i + 1) - 1 = i
            BY <1>3, <2>2
        <3> QED
            BY <1>2, <2>1, <3>1
    <2> QED
        BY <2>1, <2>2, <2>3, SeqEqual
<1> QED
    BY <1>4, <1>5, <1>6 DEF c

\* What is appended behind is appended to the whole.
LEMMA AppendBehind ==
    ASSUME NEW S, NEW s \in Seq(S), NEW t \in Seq(S), NEW e \in S
    PROVE  s \o Append(t, e) = Append(s \o t, e)
<1>1. <<e>> \in Seq(S) /\ s \o t \in Seq(S)
    BY ConcatProperties
<1>2. Append(t, e) = t \o <<e>> /\ Append(s \o t, e) = (s \o t) \o <<e>>
    BY <1>1, AppendIsConcat
<1>3. (s \o t) \o <<e>> = s \o (t \o <<e>>)
    BY <1>1, ConcatAssociative
<1> QED
    BY <1>2, <1>3, Zenon

\* A sequence that is not empty is its head and its tail.
LEMMA HeadAndTail ==
    ASSUME NEW S, NEW s \in Seq(S), s # <<>>
    PROVE  <<Head(s)>> \o Tail(s) = s
<1>1. Len(s) \in Nat \ {0} /\ 1 \in 1..Len(s) /\ Len(s) \in 1..Len(s)
    BY EmptySeq
<1>2. SubSeq(s, 1, Len(s)) = <<s[1]>> \o SubSeq(s, 1 + 1, Len(s))
    BY <1>1, SubSeqRecursiveFirst
<1>3. SubSeq(s, 1, Len(s)) = s /\ Tail(s) = SubSeq(s, 2, Len(s)) /\ Head(s) = s[1]
    BY SubSeqFull, TailIsSubSeq
<1> QED
    BY <1>2, <1>3

LEMMA InHandTypes == WireTypeOK => InHand \in Seq(Nat)
BY DEF WireTypeOK, InHand, Sendings

\* Each step of Wire is one of Channel or changes nothing that Channel sees.
LEMMA StepSimulates ==
    ASSUME WireTypeOK, WireTypeOK', [WireNext]_wire
    PROVE  [ToGateway!Next]_(ToGateway!channel)
<1> DEFINE Same == UNCHANGED <<put, Waiting, delivered>>
<1>0. /\ put \in Nat /\ mq \in Seq(Nat) /\ InHand \in Seq(Nat) /\ mq' \in Seq(Nat)
      /\ sending \in Sendings \cup {None}
    BY InHandTypes DEF WireTypeOK
<1>a. ASSUME Same PROVE [ToGateway!Next]_(ToGateway!channel)
    BY <1>a DEF ToGateway!channel, Waiting, InHand
<1>b. sending = None => Waiting = mq
    BY <1>0, ConcatEmptySeq DEF Waiting, InHand
<1>1. CASE sensorsNetworkSend
    <2>1. Waiting' = InHand \o Append(mq, put + 1)
        BY <1>1 DEF sensorsNetworkSend, Waiting, InHand
    <2>2. put + 1 \in Nat
        BY <1>0
    <2>3. Waiting' = Append(Waiting, put + 1)
        BY <1>0, <2>1, <2>2, AppendBehind DEF Waiting
    <2> QED
        BY <1>1, <2>3 DEF sensorsNetworkSend, ToGateway!Next, ToGateway!TakeIn, Waiting, InHand
<1>2. CASE TakeFrame
    <2>1. sending = None /\ mq # <<>> /\ sending' # None /\ sending'.frame = Head(mq) /\ mq' = Tail(mq)
        <3>1. sending' = [frame |-> Head(mq), nbSent |-> 0, asks |-> FrameLen] /\ mq # <<>>
            BY <1>2 DEF TakeFrame
        <3>2. sending' \in Sendings
            BY <1>0, <3>1, WireAssumption DEF WireAssumption, Sendings
        <3> QED
            BY <1>2, <3>1, <3>2, NoneIsNoSending DEF TakeFrame
    <2>2. Waiting' = <<Head(mq)>> \o Tail(mq)
        BY <2>1 DEF Waiting, InHand
    <2>3. Waiting' = Waiting
        BY <1>0, <1>b, <2>1, <2>2, HeadAndTail
    <2> QED
        BY <1>2, <1>a, <2>3 DEF TakeFrame
<1>3. ASSUME NEW k \in 1..FrameLen, SendPart(k)
      PROVE  [ToGateway!Next]_(ToGateway!channel)
    <2>1. sending # None /\ sending \in Sendings /\ mq' = mq /\ put' = put
        BY <1>0, <1>3 DEF SendPart
    <2>2. Waiting = <<sending.frame>> \o mq /\ sending.frame \in Nat
        BY <2>1 DEF Waiting, InHand, Sendings
    <2>3. CASE Sent(sending.nbSent + k)
        <3>1. sending' = None /\ delivered' = Append(delivered, sending.frame)
            BY <1>3, <2>3 DEF SendPart
        <3>2. Waiting # <<>> /\ Head(Waiting) = sending.frame /\ Tail(Waiting) = mq
            BY <1>0, <2>2, BeginsWith
        <3>3. Waiting' = mq
            <4>1. Waiting' = <<>> \o mq
                BY <2>1, <3>1 DEF Waiting, InHand
            <4> QED
                BY <1>0, <4>1, ConcatEmptySeq
        <3> QED
            BY <2>1, <3>1, <3>2, <3>3 DEF ToGateway!Next, ToGateway!GiveOut, Waiting, InHand
    <2>4. CASE ~Sent(sending.nbSent + k)
        <3>1. sending' = [sending EXCEPT !.nbSent = @ + k, !.asks = k] /\ delivered' = delivered
            BY <1>3, <2>4 DEF SendPart
        <3>2. sending' # None /\ sending'.frame = sending.frame
            <4>1. sending' # None
                <5>1. sending.nbSent + k \in 0..FrameLen - 1
                    BY <2>1, <2>4, WireAssumption DEF Sent, Sendings, WireAssumption
                <5>2. sending' \in Sendings
                    BY <2>1, <3>1, <5>1 DEF Sendings
                <5> QED
                    BY <5>2, NoneIsNoSending
            <4> QED
                BY <2>1, <3>1, <4>1 DEF Sendings
        <3>3. Waiting' = Waiting
            BY <2>1, <2>2, <3>2 DEF Waiting, InHand
        <3> QED
            BY <1>a, <2>1, <3>1, <3>3
    <2> QED
        BY <2>3, <2>4
<1>4. CASE GatewaySends
    BY <1>4, <1>a DEF GatewaySends, outgoing, Waiting, InHand
<1>5. CASE GatewayCloses
    BY <1>5, <1>a DEF GatewayCloses, outgoing, Waiting, InHand
<1>6. ASSUME NEW n \in 1..BuffLen, NEW junk \in 0..MaxJunk, Recv(n, junk)
      PROVE  [ToGateway!Next]_(ToGateway!channel)
    BY <1>6, <1>a DEF Recv, outgoing, Waiting, InHand
<1>7. CASE Byte
    BY <1>7, <1>a DEF Byte, outgoing, Waiting, InHand
<1>8. CASE Disconnect
    <2>1. Waiting' = mq /\ UNCHANGED <<put, delivered>>
        <3>1. Waiting' = <<>> \o mq /\ UNCHANGED <<put, delivered>>
            BY <1>8 DEF Disconnect, Kept, Waiting, InHand
        <3> QED
            BY <1>0, <3>1, ConcatEmptySeq
    <2>2. CASE sending = None
        BY <1>a, <1>b, <2>1, <2>2
    <2>3. CASE sending # None
        <3>1. Waiting = <<sending.frame>> \o mq /\ sending.frame \in Nat
            BY <1>0, <2>3 DEF Waiting, InHand, Sendings
        <3>2. Waiting # <<>> /\ Tail(Waiting) = mq
            BY <1>0, <3>1, BeginsWith
        <3> QED
            BY <2>1, <3>2 DEF ToGateway!Next, ToGateway!Lose, Waiting, InHand
    <2> QED
        BY <2>2, <2>3
<1>9. CASE UNCHANGED wire
    BY <1>9, <1>a DEF wire, outgoing, incoming, Waiting, InHand
<1> QED
    BY <1>1, <1>2, <1>3, <1>4, <1>5, <1>6, <1>7, <1>8, <1>9 DEF WireNext

\* The queue and the thread that sends from it are a channel: frames go out
\* whole, in the order in which they were handed to sensorsNetworkSend, each
\* at most once, and a server that stops loses at most the one it is sending.
THEOREM WireImplementsChannel == WireSpec => ImplementsChannel
<1>1. WireInit => ToGateway!Init
    <2>1. <<>> \o <<>> = <<>>
        BY EmptySeq, ConcatEmptySeq
    <2> QED
        BY <2>1 DEF WireInit, ToGateway!Init
<1>2. WireTypeOK /\ WireTypeOK' /\ [WireNext]_wire => [ToGateway!Next]_(ToGateway!channel)
    BY StepSimulates
<1> QED
    BY <1>1, <1>2, WireTypes, PTL DEF WireSpec, ImplementsChannel, ToGateway!Spec

-----------------------------------------------------------------------------
(* Nothing is torn.  What waits is in order and younger than what was sent; *)
(* the last byte sent belongs to the frame being sent, or ends one.         *)

Before(s, i) == IF i = 1 THEN <<0, FrameLen>> ELSE s[i - 1]
LastSent == Before(out, Len(out) + 1)
Follows(b, a) ==
    IF b[2] = 1 THEN a[1] < b[1] /\ a[2] >= FrameLen ELSE a = <<b[1], b[2] - 1>>
Whole1(s) == \A i \in 1..Len(s) : Follows(s[i], Before(s, i))

OrderInv ==
    /\ WireTypeOK
    /\ \A i \in 1..Len(mq) : mq[i] <= put
    /\ \A i, j \in 1..Len(mq) : i < j => mq[i] < mq[j]
    /\ Whole1(out) /\ LastSent[1] <= put
    /\ \A i \in 1..Len(mq) : LastSent[1] < mq[i]
    /\ sending = None => LastSent[2] >= FrameLen
    /\ sending # None =>
          /\ sending.frame <= put /\ \A i \in 1..Len(mq) : sending.frame < mq[i]
          /\ IF sending.nbSent = 0
             THEN LastSent[1] < sending.frame /\ LastSent[2] >= FrameLen
             ELSE LastSent = <<sending.frame, sending.nbSent>>

\* The bytes that are sent behind s.
LEMMA SendBehind ==
    ASSUME NEW s \in Seq(B), Whole1(s), NEW f \in Nat, NEW m \in 0..FrameLen - 1,
           NEW k \in 1..FrameLen,
           IF m = 0 THEN Before(s, Len(s) + 1)[1] < f /\ Before(s, Len(s) + 1)[2] >= FrameLen
                    ELSE Before(s, Len(s) + 1) = <<f, m>>
    PROVE  LET t == s \o Bytes(f, m + 1, k)
           IN  t \in Seq(B) /\ Whole1(t) /\ Before(t, Len(t) + 1) = <<f, m + k>>
<1> DEFINE b == Bytes(f, m + 1, k)
           t == s \o b
<1>0. FrameLen \in Nat \ {0} /\ m + 1 \in Nat \ {0} /\ k \in Nat /\ m \in Nat
    BY WireAssumption DEF WireAssumption
<1>1. b \in Seq(B) /\ Len(b) = k /\ \A i \in 1..k : b[i] = <<f, (m + 1) + i - 1>>
    BY <1>0, BytesAre, Zenon
<1>2. \A i \in 1..k : b[i] = <<f, m + i>>
    <2>1. \A i \in 1..k : (m + 1) + i - 1 = m + i
        BY <1>0
    <2> QED
        BY <1>1, <2>1, Zenon
<1> HIDE DEF b
<1>3. /\ t \in Seq(B) /\ Len(t) = Len(s) + k
      /\ \A i \in 1..Len(s) + k : t[i] = IF i <= Len(s) THEN s[i] ELSE b[i - Len(s)]
    BY <1>1, ConcatProperties
<1>4. Len(s) \in Nat
    OBVIOUS
<1> HIDE DEF t
<1>5. Before(t, Len(t) + 1) = <<f, m + k>>
    <2>1. Len(t) + 1 # 1 /\ Len(t) + 1 - 1 = Len(s) + k /\ Len(s) + k \in 1..Len(s) + k
          /\ ~(Len(s) + k <= Len(s)) /\ Len(s) + k - Len(s) = k /\ k \in 1..k
        BY <1>0, <1>3, <1>4
    <2> QED
        BY <1>2, <1>3, <2>1 DEF Before
<1>6. ASSUME NEW i \in 1..Len(t) PROVE Follows(t[i], Before(t, i))
    <2>1. CASE i <= Len(s)
        <3>1. i \in 1..Len(s) /\ t[i] = s[i]
            BY <1>3, <1>4, <2>1
        <3>2. i = 1 \/ (i # 1 /\ i - 1 <= Len(s) /\ i - 1 \in 1..Len(s) + k)
            BY <1>0, <1>4, <2>1
        <3>3. i # 1 => t[i - 1] = s[i - 1]
            BY <1>3, <3>2, Zenon
        <3>4. Before(t, i) = Before(s, i)
            BY <3>3, Zenon DEF Before
        <3> QED
            BY <3>1, <3>4 DEF Whole1
    <2>2. CASE i = Len(s) + 1
        <3>1. t[i] = <<f, m + 1>>
            <4>1. ~(i <= Len(s)) /\ i - Len(s) = 1 /\ 1 \in 1..k /\ i \in 1..Len(s) + k
                BY <1>0, <1>3, <1>4, <2>2
            <4> QED
                BY <1>2, <1>3, <4>1
        <3>2. Before(t, i) = Before(s, Len(s) + 1)
            BY <1>0, <1>3, <1>4, <2>2 DEF Before
        <3> QED
            BY <1>0, <3>1, <3>2 DEF Follows
    <2>3. CASE i > Len(s) + 1
        <3>1. /\ i - Len(s) \in 1..k /\ i - 1 - Len(s) \in 1..k /\ i # 1
              /\ i \in 1..Len(s) + k /\ i - 1 \in 1..Len(s) + k
              /\ ~(i <= Len(s)) /\ ~(i - 1 <= Len(s))
            BY <1>0, <1>3, <1>4, <2>3
        <3>2. t[i] = <<f, m + (i - Len(s))>> /\ t[i - 1] = <<f, m + (i - 1 - Len(s))>>
            BY <1>2, <1>3, <3>1
        <3> QED
            BY <1>0, <1>4, <2>3, <3>1, <3>2 DEF Follows, Before
    <2> QED
        BY <1>3, <1>4, <2>1, <2>2, <2>3
<1> QED
    BY <1>3, <1>5, <1>6 DEF Whole1, t, b

LEMMA InitOrder == WireInit => OrderInv
<1> SUFFICES ASSUME WireInit PROVE OrderInv
    OBVIOUS
<1>1. WireTypeOK
    BY InitTypes
<1>2. mq = <<>> /\ out = <<>> /\ sending = None /\ put = 0
    BY DEF WireInit
<1>3. LastSent = <<0, FrameLen>> /\ FrameLen \in Nat
    BY <1>2, WireAssumption DEF LastSent, Before, WireAssumption
<1> QED
    BY <1>1, <1>2, <1>3 DEF OrderInv, Whole1

\* Steps that do not send, nor touch what waits.
LEMMA OrderUnchanged ==
    OrderInv /\ WireTypeOK' /\ UNCHANGED outgoing => OrderInv'
BY DEF OrderInv, outgoing, Whole1, LastSent, Before, Follows

LEMMA StepOrder == OrderInv /\ [WireNext]_wire => OrderInv'
<1> SUFFICES ASSUME OrderInv, [WireNext]_wire PROVE OrderInv'
    OBVIOUS
<1>0. WireTypeOK /\ WireTypeOK'
    BY StepTypes DEF OrderInv
<1>a. /\ put \in Nat /\ mq \in Seq(Nat) /\ sending \in Sendings \cup {None} /\ out \in Seq(B)
      /\ FrameLen \in Nat \ {0}
    BY <1>0, WireAssumption DEF WireTypeOK, WireAssumption
<1>b. LastSent \in B
    <2>1. Len(out) = 0 \/ (Len(out) \in 1..Len(out) /\ Len(out) + 1 # 1)
        BY <1>a
    <2> QED
        BY <1>a, <2>1 DEF LastSent, Before, B
<1>1. CASE sensorsNetworkSend
    <2>1. mq' = Append(mq, put + 1) /\ put' = put + 1 /\ UNCHANGED <<sending, out>>
        BY <1>1 DEF sensorsNetworkSend
    <2>2. /\ Len(mq') = Len(mq) + 1 /\ mq'[Len(mq) + 1] = put + 1
          /\ \A i \in 1..Len(mq) : mq'[i] = mq[i] /\ mq[i] \in Nat
        BY <1>a, <2>1
    <2>3. LastSent' = LastSent /\ Whole1(out)'
        BY <2>1 DEF LastSent, OrderInv, Whole1, Before, Follows
    <2>4. LastSent[1] \in Nat
        BY <1>b DEF B
    <2>5. sending # None => sending.frame \in Nat
        BY <1>a DEF Sendings
    <2>6. /\ \A i \in 1..Len(mq') : mq'[i] <= put' /\ LastSent'[1] < mq'[i]
          /\ \A i, j \in 1..Len(mq') : i < j => mq'[i] < mq'[j]
          /\ sending # None => \A i \in 1..Len(mq') : sending.frame < mq'[i]
        BY <1>a, <2>1, <2>2, <2>3, <2>4, <2>5 DEF OrderInv
    <2> QED
        BY <1>0, <1>a, <2>1, <2>3, <2>4, <2>5, <2>6 DEF OrderInv
<1>2. CASE TakeFrame
    <2>1. /\ sending' = [frame |-> Head(mq), nbSent |-> 0, asks |-> FrameLen]
          /\ mq # <<>> /\ sending = None /\ mq' = Tail(mq) /\ UNCHANGED <<put, out>>
        BY <1>2 DEF TakeFrame
    <2>2. /\ Len(mq) \in Nat \ {0} /\ Len(mq') = Len(mq) - 1 /\ Head(mq) = mq[1]
          /\ \A i \in 1..Len(mq') : mq'[i] = mq[i + 1] /\ i + 1 \in 1..Len(mq)
        BY <1>a, <2>1, HeadTailProperties
    <2>3. LastSent' = LastSent /\ Whole1(out)'
        BY <2>1 DEF LastSent, OrderInv, Whole1, Before, Follows
    <2>4. /\ \A i \in 1..Len(mq') : mq'[i] <= put' /\ LastSent'[1] < mq'[i] /\ Head(mq) < mq'[i]
          /\ \A i, j \in 1..Len(mq') : i < j => mq'[i] < mq'[j]
        BY <1>a, <2>1, <2>2, <2>3 DEF OrderInv
    <2>5. Head(mq) <= put' /\ LastSent'[1] < Head(mq) /\ LastSent'[2] >= FrameLen
        BY <1>a, <2>1, <2>2, <2>3 DEF OrderInv
    <2>6. sending'.frame = Head(mq) /\ sending'.nbSent = 0
        BY <2>1
    <2>7. sending' # None
        <3>1. sending' \in Sendings
            BY <1>a, <2>1 DEF Sendings
        <3> QED
            BY <3>1, NoneIsNoSending
    <2> QED
        BY <1>0, <2>1, <2>3, <2>4, <2>5, <2>6, <2>7 DEF OrderInv
<1>3. ASSUME NEW k \in 1..FrameLen, SendPart(k) PROVE OrderInv'
    <2> DEFINE f == sending.frame
               m == sending.nbSent
    <2>1. /\ sending # None /\ sending \in Sendings /\ UNCHANGED <<mq, put>>
          /\ out' = out \o Bytes(f, m + 1, k)
        BY <1>a, <1>3 DEF SendPart, From
    <2>2. f \in Nat /\ m \in 0..FrameLen - 1 /\ f <= put
        BY <2>1 DEF Sendings, OrderInv
    <2>3. Whole1(out) /\ IF m = 0 THEN LastSent[1] < f /\ LastSent[2] >= FrameLen
                                  ELSE LastSent = <<f, m>>
        BY <2>1 DEF OrderInv
    <2> HIDE DEF f, m
    <2>4. LET t == out \o Bytes(f, m + 1, k)
          IN  t \in Seq(B) /\ Whole1(t) /\ Before(t, Len(t) + 1) = <<f, m + k>>
        BY <1>a, <2>2, <2>3, SendBehind DEF LastSent
    <2>5. Whole1(out)' /\ LastSent' = <<f, m + k>>
        BY <2>1, <2>4 DEF LastSent, Whole1, Before, Follows
    <2>6. \A i \in 1..Len(mq) : f < mq[i]
        BY <2>1 DEF OrderInv, f
    <2>7. LastSent'[1] = f /\ LastSent'[2] = m + k
        BY <2>5
    <2>8. CASE Sent(m + k)
        <3>1. sending' = None
            BY <1>3, <2>8 DEF SendPart, m
        <3>2. LastSent'[2] >= FrameLen
            BY <2>7, <2>8 DEF Sent
        <3> QED
            BY <1>0, <2>1, <2>2, <2>5, <2>6, <2>7, <3>1, <3>2 DEF OrderInv
    <2>9. CASE ~Sent(m + k)
        <3>1. sending' = [sending EXCEPT !.nbSent = m + k, !.asks = k]
            BY <1>3, <2>9 DEF SendPart, m
        <3>2. m + k # 0 /\ m + k \in 0..FrameLen - 1
            BY <1>a, <2>2, <2>9 DEF Sent
        <3>3. sending' \in Sendings /\ sending'.frame = f /\ sending'.nbSent = m + k
            BY <2>1, <3>1, <3>2 DEF Sendings, f
        <3>4. sending' # None
            BY <3>3, NoneIsNoSending
        <3> QED
            BY <1>0, <2>1, <2>2, <2>5, <2>6, <2>7, <3>2, <3>3, <3>4 DEF OrderInv
    <2> QED
        BY <2>8, <2>9
<1>4. CASE GatewaySends
    BY <1>0, <1>4, OrderUnchanged DEF GatewaySends
<1>5. CASE GatewayCloses
    BY <1>0, <1>5, OrderUnchanged DEF GatewayCloses
<1>6. ASSUME NEW n \in 1..BuffLen, NEW junk \in 0..MaxJunk, Recv(n, junk) PROVE OrderInv'
    BY <1>0, <1>6, OrderUnchanged DEF Recv
<1>7. CASE Byte
    BY <1>0, <1>7, OrderUnchanged DEF Byte
<1>8. CASE Disconnect
    <2>1. mq' = mq /\ put' = put /\ out' = <<>> /\ sending' = None
        BY <1>8 DEF Disconnect, Kept
    <2>2. LastSent' = <<0, FrameLen>> /\ Whole1(out)'
        BY <2>1 DEF LastSent, Before, Whole1
    <2>3. \A i \in 1..Len(mq) : 0 < mq[i]
        BY <1>a, <1>b DEF OrderInv, B
    <2> QED
        BY <1>0, <1>a, <2>1, <2>2, <2>3 DEF OrderInv
<1>9. CASE UNCHANGED wire
    BY <1>0, <1>9, OrderUnchanged DEF wire
<1> QED
    BY <1>1, <1>2, <1>3, <1>4, <1>5, <1>6, <1>7, <1>8, <1>9 DEF WireNext

LEMMA OrderShows == OrderInv => NothingTorn
<1> SUFFICES ASSUME OrderInv, NEW i \in DOMAIN out
             PROVE  LET before == IF i = 1 THEN <<0, FrameLen>> ELSE out[i - 1] IN
                    IF out[i][2] = 1 THEN before[1] < out[i][1] /\ before[2] >= FrameLen
                    ELSE before = <<out[i][1], out[i][2] - 1>>
    BY DEF NothingTorn
<1>1. i \in 1..Len(out)
    BY DEF OrderInv, WireTypeOK
<1> QED
    BY <1>1 DEF OrderInv, Whole1, Follows, Before

\* However send cuts them, frames go over the connection from their first
\* byte to their last one, none inside another one, and in their order.
THEOREM FramesNotTorn == WireSpec => []NothingTorn
BY InitOrder, StepOrder, OrderShows, PTL DEF WireSpec

-----------------------------------------------------------------------------
(* Decoding keeps in step: the bytes that wait, those that recv has         *)
(* returned first, follow each other, and the first one is due next.        *)

Succ(b) == IF b[2] = FrameLen THEN <<b[1] + 1, 1>> ELSE <<b[1], b[2] + 1>>
Due == <<Len(decoded) + 1, Len(data) + 1>>
Rest == buff \o pipe

StreamInv ==
    /\ \A k \in 1..Len(Rest) - 1 : Rest[k + 1] = Succ(Rest[k])
    /\ IF Rest = <<>> THEN Due = <<gw + 1, 1>>
                      ELSE Rest[1] = Due /\ Rest[Len(Rest)] = <<gw, FrameLen>>
    /\ Len(data) < FrameLen /\ data = Bytes(Len(decoded) + 1, 1, Len(data))
    /\ \A i \in 1..Len(decoded) : decoded[i] = Whole(i)
StepInv == WireTypeOK /\ (~overrun => StreamInv)

LEMMA RestTypes == WireTypeOK => Rest \in Seq(B) /\ Len(Rest) = Len(buff) + Len(pipe)
BY ConcatProperties DEF WireTypeOK, Rest

\* No byte of a frame is collected yet.
LEMMA BytesNone == ASSUME NEW f \in Nat PROVE Bytes(f, 1, 0) = <<>>
<1>1. Bytes(f, 1, 0) \in Seq(B) /\ Len(Bytes(f, 1, 0)) = 0
    BY FirstBytesAre, Zenon
<1> QED
    BY <1>1, EmptySeq

\* Nothing waits and nothing was collected.
LEMMA EmptyStream ==
    /\ <<>> \o <<>> = <<>> /\ Len(<<>>) = 0 /\ Bytes(0 + 1, 1, 0) = <<>>
    /\ 0 < FrameLen
<1>1. <<>> \o <<>> = <<>>
    BY EmptySeq, ConcatEmptySeq
<1>2. Bytes(0 + 1, 1, 0) = <<>>
    BY BytesNone
<1> QED
    BY <1>1, <1>2, WireAssumption DEF WireAssumption

LEMMA InitInStep == WireInit => StepInv
<1> SUFFICES ASSUME WireInit PROVE StepInv
    OBVIOUS
<1>1. WireTypeOK
    BY InitTypes
<1>2. data = <<>> /\ decoded = <<>> /\ gw = 0 /\ buff = <<>> /\ pipe = <<>>
    BY DEF WireInit
<1>3. Rest = <<>> /\ Len(data) = 0 /\ Len(decoded) = 0
    BY <1>2, EmptyStream DEF Rest
<1>4. Due = <<gw + 1, 1>>
    BY <1>2, <1>3 DEF Due
<1> QED
    BY <1>1, <1>2, <1>3, <1>4, EmptyStream DEF StepInv, StreamInv

\* Steps after which the same bytes wait and the same ones were collected.
LEMMA StreamUnchanged ==
    StepInv /\ WireTypeOK' /\ UNCHANGED <<Rest, data, decoded, gw>>
        /\ (~overrun' => ~overrun) => StepInv'
BY DEF StepInv, StreamInv, Due, Succ

LEMMA StreamGrows ==
    ASSUME StepInv, WireTypeOK', ~overrun, GatewaySends
    PROVE  StreamInv'
<1> DEFINE w == Whole(gw + 1)
<1>0. /\ gw \in Nat /\ buff \in Seq(B) /\ pipe \in Seq(B) /\ FrameLen \in Nat \ {0}
      /\ data \in Seq(B) /\ decoded \in Seq(Seq(B)) /\ StreamInv
    BY WireAssumption DEF WireAssumption, StepInv, WireTypeOK
<1>1. w \in Seq(B) /\ Len(w) = FrameLen /\ \A k \in 1..FrameLen : w[k] = <<gw + 1, k>>
    BY <1>0, WholeIs
<1> HIDE DEF w
<1>2. Rest \in Seq(B)
    BY RestTypes DEF StepInv
<1>3. Rest' = Rest \o w
    <2>1. Rest' = buff \o (pipe \o w)
        BY DEF GatewaySends, Rest, w
    <2>2. (buff \o pipe) \o w = buff \o (pipe \o w)
        <3>1. buff \in Seq(B) /\ pipe \in Seq(B) /\ w \in Seq(B)
            BY <1>0, <1>1, Zenon
        <3> QED
            BY <3>1, ConcatAssociative, SMTT(30)
    <2> QED
        BY <2>1, <2>2, Zenon DEF Rest
<1>4. /\ Len(Rest') = Len(Rest) + FrameLen
      /\ \A i \in 1..Len(Rest) + FrameLen : Rest'[i] = IF i <= Len(Rest) THEN Rest[i] ELSE w[i - Len(Rest)]
    BY <1>1, <1>2, <1>3, ConcatProperties
<1>5. Len(Rest) \in Nat
    BY <1>2
<1> DEFINE R == Rest'
           N == Len(Rest)
<1>6. \A i \in 1..FrameLen : R[N + i] = <<gw + 1, i>>
    <2> TAKE i \in 1..FrameLen
    <2>1. N + i \in 1..N + FrameLen /\ ~(N + i <= N) /\ N + i - N = i
        BY <1>0, <1>5
    <2> QED
        BY <1>1, <1>4, <2>1
<1>7. \A i \in 1..N : R[i] = Rest[i]
    <2> TAKE i \in 1..N
    <2>1. i \in 1..N + FrameLen /\ i <= N
        BY <1>0, <1>5
    <2> QED
        BY <1>4, <2>1
<1>8. Due' = Due /\ gw' = gw + 1
    BY DEF GatewaySends, Due
<1>9. N > 0 => Rest # <<>> /\ Rest[1] = Due /\ Rest[N] = <<gw, FrameLen>>
    BY <1>0, <1>2 DEF StreamInv
<1>10. N = 0 => Due = <<gw + 1, 1>>
    BY <1>0, <1>2 DEF StreamInv
<1>11. R[1] = Due'
    <2>1. CASE N = 0
        <3>1. 1 \in 1..FrameLen /\ N + 1 = 1
            BY <1>0, <2>1
        <3>2. R[N + 1] = <<gw + 1, 1>>
            BY <1>6, <3>1, Zenon
        <3> QED
            BY <1>8, <1>10, <2>1, <3>1, <3>2, Zenon
    <2>2. CASE N > 0
        BY <1>5, <1>7, <1>8, <1>9, <2>2
    <2> QED
        BY <1>5, <2>1, <2>2
<1>12. R[Len(R)] = <<gw', FrameLen>>
    <2>1. FrameLen \in 1..FrameLen
        BY <1>0
    <2>2. R[N + FrameLen] = <<gw + 1, FrameLen>>
        BY <1>6, <2>1, Zenon
    <2> QED
        BY <1>4, <1>8, <2>2, Zenon
<1>13. ASSUME NEW k \in 1..Len(R) - 1 PROVE R[k + 1] = Succ(R[k])
    <2>1. CASE k < N
        <3>1. k \in 1..N /\ k + 1 \in 1..N /\ k \in 1..N - 1
            BY <1>4, <1>5, <2>1
        <3> QED
            BY <1>0, <1>7, <3>1 DEF StreamInv
    <2>2. CASE k = N
        <3>1. N \in 1..N /\ N > 0 /\ 1 \in 1..FrameLen
            BY <1>0, <1>5, <2>2
        <3>2. R[k] = <<gw, FrameLen>> /\ R[k + 1] = <<gw + 1, 1>>
            BY <1>6, <1>7, <1>9, <2>2, <3>1
        <3> QED
            BY <3>2 DEF Succ
    <2>3. CASE k > N
        <3>1. k - N \in 1..FrameLen /\ k - N + 1 \in 1..FrameLen /\ k - N # FrameLen
              /\ N + (k - N) = k /\ N + (k - N + 1) = k + 1
            BY <1>0, <1>4, <1>5, <2>3
        <3>2. R[k] = <<gw + 1, k - N>> /\ R[k + 1] = <<gw + 1, k - N + 1>>
            BY <1>6, <3>1
        <3> QED
            BY <3>1, <3>2 DEF Succ
    <2> QED
        BY <1>4, <1>5, <2>1, <2>2, <2>3
<1>14. Rest' # <<>>
    BY <1>0, <1>4, <1>5
<1> QED
    BY <1>0, <1>11, <1>12, <1>13, <1>14 DEF StreamInv, GatewaySends, Succ

LEMMA StreamShrinks ==
    ASSUME StepInv, WireTypeOK', ~overrun, Byte
    PROVE  StreamInv'
<1> DEFINE N == Len(Rest)
           R == Rest'
           f == Len(decoded) + 1
           n == Len(data)
<1>0. /\ gw \in Nat /\ buff \in Seq(B) /\ buff # <<>> /\ pipe \in Seq(B)
      /\ FrameLen \in Nat \ {0}
      /\ data \in Seq(B) /\ decoded \in Seq(Seq(B)) /\ StreamInv
    BY WireAssumption DEF WireAssumption, StepInv, WireTypeOK, Byte
<1>1. /\ Rest \in Seq(B) /\ N = Len(buff) + Len(pipe) /\ R \in Seq(B)
      /\ Len(R) = Len(buff') + Len(pipe')
    <2>1. /\ buff \in Seq(B) /\ pipe \in Seq(B) /\ buff' \in Seq(B) /\ pipe' \in Seq(B)
        BY DEF StepInv, WireTypeOK
    <2> QED
        BY <2>1, ConcatProperties DEF Rest
<1>2. /\ Len(buff) \in Nat \ {0} /\ Len(pipe) \in Nat
      /\ Len(buff') = Len(buff) - 1 /\ \A i \in 1..Len(buff') : buff'[i] = buff[i + 1]
      /\ buff' \in Seq(B) /\ pipe' = pipe /\ Head(buff) = buff[1]
    BY <1>0, HeadTailProperties DEF Byte
<1>3. /\ \A i \in 1..Len(buff) + Len(pipe) :
            Rest[i] = IF i <= Len(buff) THEN buff[i] ELSE pipe[i - Len(buff)]
      /\ \A i \in 1..Len(buff') + Len(pipe) :
            R[i] = IF i <= Len(buff') THEN buff'[i] ELSE pipe[i - Len(buff')]
    BY <1>0, <1>2, ConcatProperties DEF Rest
<1>4. N \in Nat \ {0} /\ Len(R) = N - 1 /\ Rest # <<>>
    BY <1>1, <1>2
<1>5. ASSUME NEW k \in 1..N - 1 PROVE R[k] = Rest[k + 1]
    <2>1. CASE k <= Len(buff')
        <3>1. k \in 1..Len(buff') /\ k + 1 <= Len(buff)
              /\ k + 1 \in 1..Len(buff) + Len(pipe) /\ k \in 1..Len(buff') + Len(pipe)
            BY <1>1, <1>2, <2>1
        <3> QED
            BY <1>2, <1>3, <2>1, <3>1
    <2>2. CASE ~(k <= Len(buff'))
        <3>1. ~(k + 1 <= Len(buff)) /\ k - Len(buff') = k + 1 - Len(buff)
              /\ k + 1 \in 1..Len(buff) + Len(pipe) /\ k \in 1..Len(buff') + Len(pipe)
            BY <1>1, <1>2, <2>2
        <3> QED
            BY <1>3, <2>2, <3>1
    <2> QED
        BY <2>1, <2>2
<1>6. Head(buff) = <<f, n + 1>> /\ Rest[1] = Due
    <2>1. 1 \in 1..Len(buff) + Len(pipe) /\ 1 <= Len(buff)
        BY <1>2
    <2>2. Rest[1] = buff[1]
        BY <1>3, <2>1
    <2>3. Rest[1] = Due
        BY <1>0, <1>4 DEF StreamInv
    <2> QED
        BY <1>2, <2>2, <2>3 DEF Due
<1>7. f \in Nat /\ n \in Nat /\ n < FrameLen /\ data = Bytes(f, 1, n)
    BY <1>0 DEF StreamInv
<1>8. Collected = Bytes(f, 1, n + 1) /\ Len(Collected) = n + 1
    <2>1. Collected = Append(Bytes(f, 1, n), <<f, n + 1>>)
        BY <1>6, <1>7, Zenon DEF Collected
    <2>2. n + 1 \in Nat
        BY <1>7
    <2>3. Collected = Bytes(f, 1, n + 1)
        BY <1>7, <2>1, BytesGrow, Zenon
    <2> QED
        BY <1>7, <2>2, <2>3, FirstBytesAre, Zenon
<1>9. gw' = gw
    BY DEF Byte
\* What was collected, and what is due next.
<1>10. /\ Due' = Succ(Due) /\ Len(data)' < FrameLen
       /\ data' = Bytes(Len(decoded') + 1, 1, Len(data'))
       /\ \A i \in 1..Len(decoded') : decoded'[i] = Whole(i)
    <2>1. CASE Complete(Collected)
        <3>1. n + 1 = FrameLen /\ decoded' = Append(decoded, Collected) /\ data' = <<>>
            BY <1>8, <2>1 DEF Byte, Complete
        <3>2. Collected = Whole(f) /\ Collected \in Seq(B)
            BY <1>7, <1>8, <3>1, WholeIs, Zenon DEF Whole
        <3>3. /\ Len(decoded') = f /\ decoded'[f] = Whole(f)
              /\ \A i \in 1..Len(decoded) : decoded'[i] = decoded[i]
            BY <1>0, <3>1, <3>2
        <3>4. \A i \in 1..Len(decoded') : decoded'[i] = Whole(i)
            <4>1. \A i \in 1..f : i \in 1..Len(decoded) \/ i = f
                BY <1>0
            <4>2. \A i \in 1..Len(decoded) : decoded[i] = Whole(i)
                BY <1>0 DEF StreamInv
            <4> QED
                BY <3>3, <4>1, <4>2, Zenon
        <3>5. Len(data') = 0 /\ data' = Bytes(f + 1, 1, 0)
            <4>1. f + 1 \in Nat
                BY <1>7
            <4> QED
                BY <3>1, <4>1, BytesNone, EmptySeq
        <3>6. Due' = <<f + 1, 1>> /\ Due = <<f, FrameLen>>
            BY <3>1, <3>3, <3>5 DEF Due
        <3> QED
            BY <1>0, <3>3, <3>4, <3>5, <3>6 DEF Succ
    <2>2. CASE ~Complete(Collected)
        <3>1. n + 1 # FrameLen /\ data' = Collected /\ decoded' = decoded
            BY <1>8, <2>2 DEF Byte, Complete
        <3>2. Len(data') = n + 1 /\ n + 1 < FrameLen
            BY <1>0, <1>7, <1>8, <3>1
        <3>3. Due' = <<f, n + 1 + 1>> /\ Due = <<f, n + 1>>
            BY <3>1, <3>2 DEF Due
        <3>4. \A i \in 1..Len(decoded') : decoded'[i] = Whole(i)
            BY <1>0, <3>1 DEF StreamInv
        <3>5. data' = Bytes(Len(decoded') + 1, 1, Len(data'))
            BY <1>8, <3>1, <3>2, Zenon
        <3> QED
            BY <3>1, <3>2, <3>3, <3>4, <3>5 DEF Succ
    <2> QED
        BY <2>1, <2>2
\* What is left of the stream.
<1>11. \A k \in 1..Len(R) - 1 : R[k + 1] = Succ(R[k])
    <2> TAKE k \in 1..Len(R) - 1
    <2>1. k \in 1..N - 1 /\ k + 1 \in 1..N - 1
        BY <1>4
    <2>2. Rest[k + 1 + 1] = Succ(Rest[k + 1])
        BY <1>0, <2>1 DEF StreamInv
    <2> QED
        BY <1>5, <2>1, <2>2
<1>12. Rest[N] = <<gw, FrameLen>>
    BY <1>0, <1>4 DEF StreamInv
<1>13. CASE N = 1
    <2>1. R = <<>>
        BY <1>1, <1>4, <1>13
    <2>2. Due = <<gw, FrameLen>>
        BY <1>6, <1>12, <1>13
    <2>3. Due' = <<gw' + 1, 1>>
        BY <1>9, <1>10, <2>2 DEF Succ
    <2> QED
        BY <1>10, <1>11, <2>1, <2>3 DEF StreamInv, Succ
<1>14. CASE N # 1
    <2>1. 1 \in 1..N - 1 /\ N - 1 \in 1..N - 1 /\ R # <<>>
        BY <1>1, <1>4, <1>14
    <2>2. Rest[1 + 1] = Succ(Rest[1])
        BY <1>0, <2>1 DEF StreamInv
    <2>3. R[1] = Due'
        BY <1>5, <1>6, <1>10, <2>1, <2>2
    <2>4. R[Len(R)] = <<gw', FrameLen>>
        BY <1>4, <1>5, <1>9, <1>12, <2>1
    <2> QED
        BY <1>10, <1>11, <2>1, <2>3, <2>4 DEF StreamInv, Succ
<1> QED
    BY <1>13, <1>14

\* What recv returns is what waited, as long as the buffer is not full.
LEMMA RecvKeeps ==
    ASSUME WireTypeOK, NEW n \in 1..BuffLen, NEW junk \in 0..MaxJunk, Recv(n, junk),
           ~overrun'
    PROVE  Rest' = Rest /\ ~overrun
<1>0. junk = 0 /\ ~overrun
    BY Zenon DEF Recv
<1>1. /\ buff = <<>> /\ pipe \in Seq(B) /\ n \in 1..Len(pipe) /\ Len(pipe) \in Nat
      /\ junk = 0 /\ ~overrun
    BY <1>0 DEF Recv, WireTypeOK
<1>2. Bytes(0, 1, junk) = <<>>
    BY <1>1, BytesNone
<1>3. SubSeq(pipe, 1, n) \in Seq(B)
    BY <1>1, SubSeqProperties, ElementOfSeq
<1>4. buff' = SubSeq(pipe, 1, n) /\ pipe' = SubSeq(pipe, n + 1, Len(pipe))
    BY <1>2, <1>3, ConcatEmptySeq DEF Recv
<1>5. SubSeq(pipe, 1, n) \o SubSeq(pipe, n + 1, Len(pipe)) = SubSeq(pipe, 1, Len(pipe))
    <2>1. 1 \in 1..Len(pipe) + 1 /\ n \in 1 - 1..Len(pipe) /\ Len(pipe) \in n..Len(pipe)
        BY <1>1
    <2> QED
        BY <1>1, <2>1, ConcatAdjacentSubSeq
<1>6. SubSeq(pipe, 1, Len(pipe)) = pipe /\ <<>> \o pipe = pipe
    BY <1>1, SubSeqFull, ConcatEmptySeq
<1> QED
    BY <1>1, <1>4, <1>5, <1>6 DEF Rest

LEMMA StepInStep == StepInv /\ [WireNext]_wire => StepInv'
<1> SUFFICES ASSUME StepInv, [WireNext]_wire PROVE StepInv'
    OBVIOUS
<1>0. WireTypeOK /\ WireTypeOK'
    BY StepTypes DEF StepInv
<1>a. ASSUME UNCHANGED incoming PROVE StepInv'
    BY <1>0, <1>a, StreamUnchanged DEF incoming, Rest
<1>1. CASE sensorsNetworkSend
    BY <1>1, <1>a DEF sensorsNetworkSend
<1>2. CASE TakeFrame
    BY <1>2, <1>a DEF TakeFrame
<1>3. ASSUME NEW k \in 1..FrameLen, SendPart(k) PROVE StepInv'
    BY <1>3, <1>a DEF SendPart
<1>4. CASE GatewaySends
    BY <1>0, <1>4, StreamGrows DEF GatewaySends, StepInv
<1>5. CASE GatewayCloses
    BY <1>5, <1>a DEF GatewayCloses
<1>6. ASSUME NEW n \in 1..BuffLen, NEW junk \in 0..MaxJunk, Recv(n, junk) PROVE StepInv'
    <2>1. CASE overrun'
        BY <1>0, <2>1 DEF StepInv
    <2>2. CASE ~overrun'
        <3>1. Rest' = Rest /\ ~overrun
            BY <1>0, <1>6, <2>2, RecvKeeps
        <3> QED
            BY <1>0, <1>6, <3>1, StreamUnchanged DEF Recv
    <2> QED
        BY <2>1, <2>2
<1>7. CASE Byte
    BY <1>0, <1>7, StreamShrinks DEF Byte, StepInv
<1>8. CASE Disconnect
    <2>1. data' = <<>> /\ decoded' = <<>> /\ gw' = 0 /\ buff' = <<>> /\ pipe' = <<>>
        BY <1>8 DEF Disconnect
    <2>2. Rest' = <<>> /\ Len(data') = 0 /\ Len(decoded') = 0
        BY <2>1, EmptyStream DEF Rest
    <2>3. Due' = <<gw' + 1, 1>>
        BY <2>1, <2>2 DEF Due
    <2> QED
        BY <1>0, <2>1, <2>2, <2>3, EmptyStream DEF StepInv, StreamInv
<1>9. CASE UNCHANGED wire
    BY <1>9, <1>a DEF wire
<1> QED
    BY <1>1, <1>2, <1>3, <1>4, <1>5, <1>6, <1>7, <1>8, <1>9 DEF WireNext

LEMMA InStepShows == StepInv => DecodedInStep
BY DEF StepInv, StreamInv, WireTypeOK, DecodedInStep

\* Until a recv fills the buffer, what is handed to decodeTrame are the
\* gateway's frames, whole and in their order, however recv cuts the stream
\* and whatever the lengths of frames and buffer.
THEOREM FramesDecodedInStep == WireSpec => []DecodedInStep
BY InitInStep, StepInStep, InStepShows, PTL DEF WireSpec
==============================================================================
