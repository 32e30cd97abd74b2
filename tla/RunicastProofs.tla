--------------------------- MODULE RunicastProofs ---------------------------
(***************************************************************************)
(* Theorems about Runicast, for every set of destinations, every number of *)
(* sequence numbers from 2 on, every number of retransmissions and of      *)
(* messages, and every channel capacity.                                   *)
(***************************************************************************)
EXTENDS Runicast, TLAPS

-----------------------------------------------------------------------------
(***************************************************************************)
(* Sequence numbers: arithmetic modulo SeqMod.                             *)
(***************************************************************************)

\* A natural number is its quotient and its remainder by SeqMod.
LEMMA QuotientRemainder ==
  ASSUME NEW a \in Nat
  PROVE  /\ a % SeqMod \in SeqNos /\ a \div SeqMod \in Int
         /\ a = SeqMod * (a \div SeqMod) + (a % SeqMod)
<1>1. a % SeqMod \in 0 .. (SeqMod - 1) /\ a \div SeqMod \in Int
  BY SeqModAssumption
<1>2. a = SeqMod * (a \div SeqMod) + (a % SeqMod)
  BY SeqModAssumption
<1> QED BY <1>1, <1>2 DEF SeqNos

\* Quotient and remainder are unique.
LEMMA DivisionUnique ==
  ASSUME NEW q \in Int, NEW p \in Int, NEW r \in SeqNos, NEW s \in SeqNos,
         SeqMod * q + r = SeqMod * p + s
  PROVE  r = s /\ q = p
<1>1. SeqMod * (q - p) = s - r
  BY SeqModAssumption DEF SeqNos
<1>2. q - p = 0
  BY <1>1, SeqModAssumption DEF SeqNos
<1> QED BY <1>1, <1>2, SeqModAssumption DEF SeqNos

\* Numbers less than SeqMod apart with the same sequence number are equal: an
\* acknowledgement that is fresh names one packet only.
LEMMA SeqNoIdentifies ==
  ASSUME NEW a \in Nat, NEW b \in Nat, a % SeqMod = b % SeqMod,
         a <= b, b < a + SeqMod
  PROVE  a = b
<1> DEFINE q == a \div SeqMod
           p == b \div SeqMod
           r == a % SeqMod
<1>1. a = SeqMod * q + r /\ b = SeqMod * p + r /\ q \in Int /\ p \in Int
  BY QuotientRemainder
<1>2. r \in SeqNos
  BY QuotientRemainder
<1> HIDE DEF q, p, r
<1>3. b - a = SeqMod * (p - q)
  BY <1>1, <1>2, SeqModAssumption DEF SeqNos
<1>4. p - q = 0
  BY <1>1, <1>3, SeqModAssumption
<1> QED BY <1>1, <1>3, <1>4

\* Succ follows the increment of the number it stands for.
LEMMA SuccOfSeqNo ==
  ASSUME NEW a \in Nat
  PROVE  Succ(a % SeqMod) = (a + 1) % SeqMod
<1> DEFINE q == a \div SeqMod
           r == a % SeqMod
           t == (r + 1) \div SeqMod
           s == (r + 1) % SeqMod
           v == (a + 1) \div SeqMod
           u == (a + 1) % SeqMod
<1>1. a = SeqMod * q + r /\ q \in Int /\ r \in SeqNos
  BY QuotientRemainder
<1>2. r + 1 \in Nat /\ a + 1 \in Nat
  BY <1>1, SeqModAssumption DEF SeqNos
<1>3. r + 1 = SeqMod * t + s /\ t \in Int /\ s \in SeqNos
  BY <1>2, QuotientRemainder
<1>4. a + 1 = SeqMod * v + u /\ v \in Int /\ u \in SeqNos
  BY <1>2, QuotientRemainder
<1>5. Succ(r) = s
  BY DEF Succ
<1> HIDE DEF q, r, s, t, u, v
<1>6. SeqMod * v + u = SeqMod * (q + t) + s
  BY <1>1, <1>3, <1>4, SeqModAssumption DEF SeqNos
<1>7. u = s
  BY <1>1, <1>3, <1>4, <1>6, DivisionUnique
<1> QED BY <1>5, <1>7 DEF r, u

LEMMA SuccType == ASSUME NEW s \in SeqNos PROVE Succ(s) \in SeqNos
  BY QuotientRemainder, SeqModAssumption DEF Succ, SeqNos

-----------------------------------------------------------------------------
(***************************************************************************)
(* Types.                                                                  *)
(***************************************************************************)

\* A packet is in hand whenever the sender thread works on one.
PacketInHand == cur = NoPacket => spc \in {"clear", "pop"}

TypeInv == TypeOK /\ PacketInHand

\* The constructors establish the types.
LEMMA InitTypeInv == Init => TypeInv
<1> SUFFICES ASSUME Init PROVE TypeInv
  OBVIOUS
<1>1. /\ packed \in 0 .. NumMsgs /\ sendSeq \in SeqNos /\ recvSeq \in SeqNos
      /\ tries \in Nat /\ incs \in Nat
  BY SeqModAssumption, BoundsAssumption DEF Init, SeqNos
<1>6. /\ hpc \in {"idle", "stop", "inc"} /\ done \in BOOLEAN /\ stop \in BOOLEAN
      /\ timely \in BOOLEAN
      /\ spc \in {"clear", "pop", "publish", "wait", "check", "timeout"}
  BY DEF Init
<1>2. /\ queue \in Seq(Packet)
      /\ data \in [Dests -> Seq(Packet)] /\ acks \in [Dests -> Seq(Packet)]
  BY DEF Init
<1>3. /\ outcome \in [MsgIds -> Outcomes] /\ delivered \in [MsgIds -> Nat]
      /\ last \in [Dests -> MsgIds \cup {-1}]
  BY DEF Init, Outcomes
<1>4. hack \in Packet \cup {NoPacket} /\ cur \in Packet \cup {NoPacket}
  BY DEF Init
<1>5. PacketInHand
  BY DEF Init, PacketInHand
<1> QED BY <1>1, <1>2, <1>3, <1>4, <1>5, <1>6 DEF TypeInv, TypeOK

\* Transmit keeps the channels typed.
LEMMA TransmitType ==
  ASSUME NEW c \in [Dests -> Seq(Packet)], NEW c1, NEW d \in Dests,
         NEW f \in Packet,
         c1 = IF Len(c[d]) < ChanCap THEN [c EXCEPT ![d] = Append(@, f)] ELSE c
  PROVE  c1 \in [Dests -> Seq(Packet)]
  OBVIOUS

\* Every step keeps the types.
LEMMA NextTypeInv == TypeInv /\ [Next]_vars => TypeInv'
<1> SUFFICES ASSUME TypeInv, [Next]_vars PROVE TypeInv'
  OBVIOUS
<1> USE DEF TypeInv, TypeOK, PacketInHand, handlerVars, senderVars, peerVars
<1>1. ASSUME NEW d \in Dests, Pack(d) PROVE TypeInv'
  <2>1. [id |-> packed, seq |-> sendSeq, dest |-> d] \in Packet
    BY <1>1, BoundsAssumption DEF Pack, Packet, MsgIds
  <2>2. queue' \in Seq(Packet) /\ sendSeq' \in SeqNos /\ packed' \in 0 .. NumMsgs
    BY <1>1, <2>1, SuccType, BoundsAssumption DEF Pack
  <2> QED BY <1>1, <2>2 DEF Pack
<1>2. CASE PackEof
  BY <1>2 DEF PackEof
<1>3. ASSUME NEW d \in Dests, IgnoreAck(d) PROVE TypeInv'
  BY <1>3 DEF IgnoreAck
<1>4. ASSUME NEW d \in Dests, AcceptAck(d) PROVE TypeInv'
  BY <1>4 DEF AcceptAck
<1>5. CASE StopSender
  BY <1>5 DEF StopSender
<1>6. CASE CountAck
  BY <1>6, SuccType DEF CountAck, IncRecvSeq
<1>7. CASE ClearStop
  BY <1>7 DEF ClearStop
<1>8. CASE QueuePop
  <2>1. Head(queue) \in Packet /\ Tail(queue) \in Seq(Packet)
    BY <1>8 DEF QueuePop
  <2>2. Head(queue) # NoPacket
    BY <2>1 DEF Packet, NoPacket, MsgIds
  <2> QED BY <1>8, <2>1, <2>2 DEF QueuePop
<1>9. CASE Publish
  <2>1. cur \in Packet /\ cur.dest \in Dests
    BY <1>9 DEF Publish, Packet
  <2>2. data' \in [Dests -> Seq(Packet)]
    BY <1>9, <2>1, TransmitType DEF Publish, Transmit
  <2> QED BY <1>9, <2>2 DEF Publish
<1>10. CASE WaitReturns
  BY <1>10 DEF WaitReturns
<1>11. CASE CheckStop
  BY <1>11 DEF CheckStop, Outcomes
<1>12. CASE CountTimeout
  <2>1. recvSeq' \in SeqNos /\ incs' \in Nat
    BY <1>12, SuccType DEF CountTimeout, IncRecvSeq
  <2>2. outcome' \in [MsgIds -> Outcomes]
    BY <1>12 DEF CountTimeout, Outcomes
  <2> QED BY <1>12, <2>1, <2>2 DEF CountTimeout
<1>13. ASSUME NEW d \in Dests, UnpackData(d) PROVE TypeInv'
  <2>1. Head(data[d]) \in Packet /\ Tail(data[d]) \in Seq(Packet)
    BY <1>13 DEF UnpackData
  <2>2. Head(data[d]).id \in MsgIds
    BY <2>1 DEF Packet
  <2>3. acks' \in [Dests -> Seq(Packet)]
    BY <1>13, <2>1, TransmitType DEF UnpackData, Transmit
  <2>4. data' \in [Dests -> Seq(Packet)]
    BY <1>13, <2>1 DEF UnpackData
  <2>5. delivered' \in [MsgIds -> Nat] /\ last' \in [Dests -> MsgIds \cup {-1}]
    BY <1>13, <2>2 DEF UnpackData
  <2> QED BY <1>13, <2>3, <2>4, <2>5 DEF UnpackData
<1>14. ASSUME NEW d \in Dests, LoseData(d) PROVE TypeInv'
  BY <1>14 DEF LoseData
<1>15. ASSUME NEW d \in Dests, LoseAck(d) PROVE TypeInv'
  BY <1>15 DEF LoseAck
<1>16. CASE Quiescent \/ UNCHANGED vars
  BY <1>16 DEF Quiescent, vars
<1> QED
  BY <1>1, <1>2, <1>3, <1>4, <1>5, <1>6, <1>7, <1>8, <1>9, <1>10, <1>11, <1>12,
     <1>13, <1>14, <1>15, <1>16 DEF Next, HandlerThread, SenderThread

\* Every variable of the connection, of the sender thread and of the network
\* keeps its type in every behaviour, timely or not.
THEOREM Typing == Spec => []TypeOK
<1>1. TypeInv => TypeOK
  BY DEF TypeInv
<1> QED BY <1>1, InitTypeInv, NextTypeInv, PTL DEF Spec

-----------------------------------------------------------------------------
(***************************************************************************)
(* The inductive invariant, one conjunct at a time. First what holds of    *)
(* every behaviour.                                                        *)
(***************************************************************************)

LEMMA TypeOfBaseInv == BaseInv => TypeInv
  BY DEF BaseInv, QueueInv, TypeInv, PacketInHand

\* A packet in hand has an id that is a message's; NoPacket counts as -1.
LEMMA CurId == TypeInv => /\ cur.id \in MsgIds \cup {-1}
                          /\ cur # NoPacket => cur \in Packet /\ cur.id \in MsgIds
  BY DEF TypeInv, TypeOK, Packet, NoPacket

LEMMA InitIInv == Init => IInv
<1> SUFFICES ASSUME Init PROVE IInv
  OBVIOUS
<1>1. TypeOK
  BY InitTypeInv DEF TypeInv
<1>2. cur.id = -1 /\ Settled = 0 /\ ~Notified /\ queue = << >> /\ Len(queue) = 0
  BY DEF Init, NoPacket, Settled, Notified
<1>3. 0 % SeqMod = 0
  BY SeqModAssumption
<1>4. QueueInv
  BY <1>2, <1>3 DEF Init, QueueInv
<1>5. OutcomeInv
  BY <1>2, BoundsAssumption DEF Init, OutcomeInv, MsgIds
<1>6. FrameInv
  <2>1. \A d \in Dests : Len(data[d]) = 0 /\ Len(acks[d]) = 0
    BY DEF Init
  <2>2. 1 .. 0 = {}
    OBVIOUS
  <2>3. \A k \in MsgIds : ~(delivered[k] > 0)
    BY DEF Init
  <2>4. hpc # "stop"
    BY DEF Init
  <2> QED BY <2>1, <2>2, <2>3, <2>4, Zenon DEF FrameInv
<1>7. DeliveryInv
  <2>1. \A k \in MsgIds : delivered[k] = 0 /\ outcome[k] = "pending"
    BY DEF Init
  <2>2. hpc = "idle"
    BY DEF Init
  <2> QED BY <1>2, <2>1, <2>2 DEF DeliveryInv
<1>8. SeqInv /\ CountInv
  BY <1>2, <1>3 DEF Init, SeqInv, CountInv
<1>9. StopInv
  BY DEF Init, StopInv
<1> QED BY <1>1, <1>4, <1>5, <1>6, <1>7, <1>8, <1>9 DEF IInv, BaseInv

\* Numbering: pack appends the next number, queue_pop takes the lowest one.
LEMMA NextQueueInv == TypeInv /\ QueueInv /\ [Next]_vars => QueueInv'
<1> SUFFICES ASSUME TypeInv, QueueInv, [Next]_vars PROVE QueueInv'
  OBVIOUS
<1>1. TypeInv /\ TypeInv'
  BY NextTypeInv
<1>2. cur.id \in Int /\ packed \in Nat /\ queue \in Seq(Packet) /\ sendSeq \in SeqNos
  BY <1>1, CurId, BoundsAssumption DEF TypeInv, TypeOK, MsgIds
<1>3. (cur = NoPacket => spc \in {"clear", "pop"})'
  BY <1>1 DEF TypeInv, PacketInHand
<1>4. QueueInv
  OBVIOUS
<1>5. ASSUME NEW d \in Dests, Pack(d) PROVE QueueInv'
  <2> DEFINE p == [id |-> packed, seq |-> sendSeq, dest |-> d]
  <2>1. queue' = Append(queue, p) /\ packed' = packed + 1 /\ cur' = cur
    BY <1>5 DEF Pack
  <2>2. p.id = cur.id + Len(queue') /\ p.seq = p.id % SeqMod
    <3>1. p.id = packed /\ p.seq = sendSeq
      OBVIOUS
    <3>2. Len(queue') = Len(queue) + 1
      BY <1>2, <2>1
    <3>3. packed = cur.id + 1 + Len(queue) /\ sendSeq = packed % SeqMod
      BY <1>4 DEF QueueInv
    <3> HIDE DEF p
    <3> QED BY <1>2, <3>1, <3>2, <3>3
  <2> HIDE DEF p
  <2>3. packed' = cur'.id + 1 + Len(queue')
    <3>1. Len(queue') = Len(queue) + 1 /\ Len(queue) \in Nat
      BY <1>2, <2>1
    <3>2. packed = cur.id + 1 + Len(queue)
      BY <1>4 DEF QueueInv
    <3> QED BY <1>2, <2>1, <3>1, <3>2
  <2>4. sendSeq' = packed' % SeqMod
    BY <1>2, <1>4, <1>5, SuccOfSeqNo DEF QueueInv, Pack
  <2>5. ASSUME NEW i \in 1 .. Len(queue')
        PROVE  queue'[i].id = cur'.id + i /\ queue'[i].seq = queue'[i].id % SeqMod
    <3>1. CASE i = Len(queue')
      BY <1>2, <2>1, <2>2, <3>1
    <3>2. CASE i \in 1 .. Len(queue)
      BY <1>2, <1>4, <2>1, <3>2 DEF QueueInv
    <3> QED BY <1>2, <2>1, <3>1, <3>2
  <2>6. (cur # NoPacket => cur.seq = cur.id % SeqMod)'
    BY <1>4, <2>1 DEF QueueInv
  <2> QED BY <1>3, <2>3, <2>4, <2>5, <2>6 DEF QueueInv
<1>6. CASE QueuePop
  <2>1. /\ queue # << >> /\ cur' = queue[1] /\ queue' = Tail(queue)
        /\ packed' = packed /\ sendSeq' = sendSeq
    BY <1>2, <1>6 DEF QueuePop, handlerVars
  <2>2. Len(queue) \in Nat /\ Len(queue) >= 1
    BY <1>2, <2>1
  <2>3. cur'.id = cur.id + 1 /\ cur'.seq = cur'.id % SeqMod
    BY <1>4, <2>1, <2>2 DEF QueueInv
  <2>4. Len(queue') = Len(queue) - 1
    BY <1>2, <2>1
  <2>5. \A i \in 1 .. Len(queue') : queue'[i] = queue[i + 1]
    BY <1>2, <2>1
  <2>6. ASSUME NEW i \in 1 .. Len(queue')
        PROVE  queue'[i].id = cur'.id + i /\ queue'[i].seq = queue'[i].id % SeqMod
    <3>1. i + 1 \in 1 .. Len(queue) /\ queue'[i] = queue[i + 1]
      BY <2>2, <2>4, <2>5
    <3>2. queue[i + 1].id = cur.id + (i + 1)
          /\ queue[i + 1].seq = queue[i + 1].id % SeqMod
      BY <1>4, <3>1 DEF QueueInv
    <3>3. i \in Int
      BY <2>2, <2>4
    <3>4. cur.id + (i + 1) = cur'.id + i
      BY <1>2, <2>3, <3>3
    <3> QED BY <3>1, <3>2, <3>4
  <2>7. packed' = cur'.id + 1 + Len(queue') /\ sendSeq' = packed' % SeqMod
    BY <1>2, <1>4, <2>1, <2>2, <2>3, <2>4 DEF QueueInv
  <2>8. (cur # NoPacket => cur.seq = cur.id % SeqMod)'
    BY <2>3
  <2> QED BY <1>3, <2>6, <2>7, <2>8 DEF QueueInv
<1>7. CASE UNCHANGED <<packed, sendSeq, cur, queue>>
  BY <1>3, <1>4, <1>7 DEF QueueInv
<1> QED
  BY <1>5, <1>6, <1>7
  DEF Next, HandlerThread, SenderThread, PackEof, IgnoreAck, AcceptAck,
      StopSender, CountAck, ClearStop, Publish, WaitReturns, CheckStop,
      CountTimeout, UnpackData, LoseData, LoseAck, Quiescent, vars,
      handlerVars, senderVars

\* How far the sender thread has come moves on only when it is done with a packet.
LEMMA SettledStep ==
  ASSUME BaseInv, [Next]_vars
  PROVE  /\ (CheckStop /\ stop) \/ CountTimeout => Settled' = Settled + 1
         /\ ~(CheckStop /\ stop) /\ ~CountTimeout => Settled' = Settled
<1>1. cur.id \in Int
  BY TypeOfBaseInv, CurId DEF MsgIds
<1>2. CASE CheckStop \/ CountTimeout
  BY <1>1, <1>2 DEF CheckStop, CountTimeout, Settled
<1>3. CASE QueuePop
  <2>1. queue \in Seq(Packet) /\ queue # << >> /\ cur' = Head(queue)
    BY <1>3 DEF QueuePop, BaseInv, TypeOK
  <2>2. 1 \in 1 .. Len(queue) /\ cur' = queue[1]
    BY <2>1
  <2>3. cur'.id = cur.id + 1
    BY <2>2 DEF BaseInv, QueueInv
  <2> QED BY <1>1, <1>3, <2>3 DEF QueuePop, Settled, CheckStop, CountTimeout
<1>4. CASE /\ ~CheckStop /\ ~CountTimeout /\ cur' = cur
           /\ (spc' \in {"clear", "pop"} <=> spc \in {"clear", "pop"})
  BY <1>4 DEF Settled
<1>5. QueuePop \/ CheckStop \/ CountTimeout
      \/ (cur' = cur /\ (spc' \in {"clear", "pop"} <=> spc \in {"clear", "pop"}))
  BY DEF Next, HandlerThread, SenderThread, Pack, PackEof, IgnoreAck, AcceptAck,
         StopSender, CountAck, ClearStop, QueuePop, Publish, WaitReturns,
         UnpackData, LoseData, LoseAck, Quiescent, vars, handlerVars, senderVars
<1> QED BY <1>2, <1>3, <1>4, <1>5

\* Packets are settled in order.
LEMMA NextOutcomeInv == BaseInv /\ [Next]_vars => OutcomeInv'
<1> SUFFICES ASSUME BaseInv, [Next]_vars PROVE OutcomeInv'
  OBVIOUS
<1>1. OutcomeInv /\ outcome \in [MsgIds -> Outcomes]
  BY DEF BaseInv, TypeOK
<1>2. CASE (CheckStop /\ stop) \/ CountTimeout
  <2>1. Settled = cur.id /\ cur.id \in Int
    BY <1>2, TypeOfBaseInv, CurId DEF CheckStop, CountTimeout, Settled, MsgIds
  <2>2. PICK o \in {"stopped", "timeout"} : outcome' = [outcome EXCEPT ![cur.id] = o]
    BY <1>2 DEF CheckStop, CountTimeout
  <2>3. Settled' = cur.id + 1
    BY <1>2, <2>1, SettledStep
  <2>4. ASSUME NEW k \in MsgIds
        PROVE  outcome'[k] # "pending" <=> k < Settled'
    <3>1. CASE k = cur.id
      BY <1>1, <2>1, <2>2, <2>3, <3>1
    <3>2. CASE k # cur.id
      <4>1. outcome'[k] = outcome[k]
        BY <1>1, <2>2, <3>2
      <4>2. outcome[k] # "pending" <=> k < cur.id
        BY <1>1, <2>1 DEF OutcomeInv
      <4> QED BY <2>1, <2>3, <3>2, <4>1, <4>2 DEF MsgIds
    <3> QED BY <3>1, <3>2
  <2> QED BY <2>4 DEF OutcomeInv
<1>3. CASE ~(CheckStop /\ stop) /\ ~CountTimeout
  <2>1. Settled' = Settled
    BY <1>3, SettledStep
  <2>2. outcome' = outcome
    BY <1>3 DEF Next, HandlerThread, SenderThread, Pack, PackEof, IgnoreAck,
         AcceptAck, StopSender, CountAck, ClearStop, QueuePop, Publish,
         WaitReturns, CheckStop, UnpackData, LoseData, LoseAck, Quiescent, vars,
         senderVars
  <2> QED BY <1>1, <2>1, <2>2 DEF OutcomeInv
<1> QED BY <1>2, <1>3

\* Appending a frame to a channel adds that frame to it and nothing else.
LEMMA TransmitElements ==
  ASSUME NEW c \in [Dests -> Seq(Packet)], NEW c1, NEW d \in Dests,
         NEW f \in Packet,
         c1 = IF Len(c[d]) < ChanCap THEN [c EXCEPT ![d] = Append(@, f)] ELSE c,
         NEW e \in Dests, NEW i \in 1 .. Len(c1[e])
  PROVE  c1[e][i] = f \/ (i \in 1 .. Len(c[e]) /\ c1[e][i] = c[e][i])
<1>1. CASE e = d /\ Len(c[d]) < ChanCap
  <2>1. c1[e] = Append(c[e], f) /\ c[e] \in Seq(Packet)
    BY <1>1
  <2> QED BY <2>1
<1>2. CASE ~(e = d /\ Len(c[d]) < ChanCap)
  <2>1. c1[e] = c[e]
    BY <1>2
  <2> QED BY <2>1
<1> QED BY <1>1, <1>2

\* Taking the first frame off a channel adds none.
LEMMA TailElements ==
  ASSUME NEW c \in [Dests -> Seq(Packet)], NEW c1, NEW d \in Dests,
         c[d] # << >>, c1 = [c EXCEPT ![d] = Tail(@)],
         NEW e \in Dests, NEW i \in 1 .. Len(c1[e])
  PROVE  \E j \in 1 .. Len(c[e]) : c1[e][i] = c[e][j]
<1>1. CASE e = d
  <2>1. c1[e] = Tail(c[e]) /\ c[e] \in Seq(Packet) /\ c[e] # << >>
    BY <1>1
  <2>2. i + 1 \in 1 .. Len(c[e]) /\ c1[e][i] = c[e][i + 1]
    BY <2>1
  <2> QED BY <2>2
<1>2. CASE e # d
  BY <1>2
<1> QED BY <1>1, <1>2

\* No step takes the sender thread back to an earlier packet.
LEMMA CurGrows ==
  TypeInv /\ QueueInv /\ [Next]_vars => cur'.id >= cur.id /\ cur.id \in Int /\ cur'.id \in Int
<1> SUFFICES ASSUME TypeInv, QueueInv, [Next]_vars
             PROVE  cur'.id >= cur.id /\ cur.id \in Int /\ cur'.id \in Int
  OBVIOUS
<1>1. cur.id \in Int
  BY CurId DEF MsgIds
<1>2. CASE QueuePop
  <2>1. queue \in Seq(Packet) /\ queue # << >> /\ cur' = Head(queue)
    BY <1>2 DEF QueuePop, TypeInv, TypeOK
  <2>2. 1 \in 1 .. Len(queue) /\ cur' = queue[1]
    BY <2>1
  <2>3. cur'.id = cur.id + 1
    BY <2>2 DEF QueueInv
  <2> QED BY <1>1, <2>3
<1>3. CASE cur' = cur
  BY <1>1, <1>3
<1> QED
  BY <1>2, <1>3
  DEF Next, HandlerThread, SenderThread, Pack, PackEof, IgnoreAck, AcceptAck,
      StopSender, CountAck, ClearStop, Publish, WaitReturns, CheckStop,
      CountTimeout, UnpackData, LoseData, LoseAck, Quiescent, vars, senderVars

\* A payload once handed over stays handed over.
LEMMA DeliveredGrows ==
  BaseInv /\ [Next]_vars => \A k \in MsgIds : delivered'[k] >= delivered[k]
<1> SUFFICES ASSUME BaseInv, [Next]_vars, NEW k \in MsgIds
             PROVE  delivered'[k] >= delivered[k]
  OBVIOUS
<1>1. delivered \in [MsgIds -> Nat]
  BY DEF BaseInv, TypeOK
<1>2. ASSUME NEW d \in Dests, UnpackData(d) PROVE delivered'[k] >= delivered[k]
  BY <1>1, <1>2 DEF UnpackData
<1>3. CASE delivered' = delivered
  BY <1>1, <1>3
<1> QED
  BY <1>2, <1>3
  DEF Next, HandlerThread, SenderThread, Pack, PackEof, IgnoreAck, AcceptAck,
      StopSender, CountAck, ClearStop, QueuePop, Publish, WaitReturns, CheckStop,
      CountTimeout, LoseData, LoseAck, Quiescent, vars, peerVars

\* Frames on the way stem from packets that were popped, acknowledgements from
\* packets that were handed to an application.
LEMMA NextFrameInv == BaseInv /\ [Next]_vars => FrameInv'
<1> SUFFICES ASSUME BaseInv, [Next]_vars PROVE FrameInv'
  OBVIOUS
<1> DEFINE OKNext(f) == f.id <= cur'.id /\ f.seq = f.id % SeqMod
           AckedNext(f) == OKNext(f) /\ delivered'[f.id] > 0
<1>1. /\ FrameInv /\ data \in [Dests -> Seq(Packet)] /\ acks \in [Dests -> Seq(Packet)]
      /\ delivered \in [MsgIds -> Nat] /\ delivered' \in [MsgIds -> Nat]
      /\ cur.id \in Int /\ cur'.id \in Int /\ cur'.id >= cur.id
  BY CurGrows, TypeOfBaseInv, NextTypeInv DEF BaseInv, TypeOK, TypeInv
<1>2. ASSUME NEW f \in Packet, FrameOK(f) PROVE OKNext(f)
  <2>1. f.id \in Int
    BY DEF Packet, MsgIds
  <2> QED BY <1>1, <1>2, <2>1 DEF FrameOK
<1>3. ASSUME NEW e \in Dests, NEW i \in 1 .. Len(data[e]) PROVE OKNext(data[e][i])
  <2>1. data[e][i] \in Packet /\ FrameOK(data[e][i])
    BY <1>1 DEF FrameInv
  <2> QED BY <1>2, <2>1
<1>4. ASSUME NEW e \in Dests, NEW i \in 1 .. Len(acks[e]) PROVE AckedNext(acks[e][i])
  <2>1. acks[e][i] \in Packet /\ FrameOK(acks[e][i]) /\ delivered[acks[e][i].id] > 0
    BY <1>1 DEF FrameInv
  <2>2. acks[e][i].id \in MsgIds
    BY <2>1 DEF Packet
  <2>3. delivered'[acks[e][i].id] > 0
    BY <1>1, <2>1, <2>2, DeliveredGrows
  <2> QED BY <1>2, <2>1, <2>3
<1>5. ASSUME NEW e \in Dests, NEW i \in 1 .. Len(data'[e]) PROVE OKNext(data'[e][i])
  <2>1. CASE data' = data
    BY <1>3, <2>1
  <2>2. ASSUME NEW d \in Dests, data[d] # << >>,
               data' = [data EXCEPT ![d] = Tail(@)]
        PROVE  OKNext(data'[e][i])
    <3>1. PICK j \in 1 .. Len(data[e]) : data'[e][i] = data[e][j]
      BY <1>1, <2>2, TailElements
    <3> QED BY <1>3, <3>1
  <2>3. CASE Publish /\ ~done
    <3>3. spc = "publish"
      BY <2>3 DEF Publish
    <3>4. cur # NoPacket
      BY <3>3, TypeOfBaseInv DEF TypeInv, PacketInHand
    <3>5. cur \in Packet /\ cur.dest \in Dests
      BY <3>4, TypeOfBaseInv, CurId DEF Packet
    <3>6. FrameOK(cur)
      BY <1>1, <3>4 DEF FrameOK, BaseInv, QueueInv
    <3>1. cur \in Packet /\ cur.dest \in Dests /\ FrameOK(cur)
      BY <3>5, <3>6
    <3>2. data'[e][i] = cur \/ (i \in 1 .. Len(data[e]) /\ data'[e][i] = data[e][i])
      <4>1. data' = IF Len(data[cur.dest]) < ChanCap
                    THEN [data EXCEPT ![cur.dest] = Append(@, cur)] ELSE data
        BY <2>3 DEF Publish, Transmit
      <4> QED BY <1>1, <3>1, <4>1, TransmitElements
    <3> QED BY <1>2, <1>3, <3>1, <3>2
  <2> QED
    BY <2>1, <2>2, <2>3
    DEF Next, HandlerThread, SenderThread, Pack, PackEof, IgnoreAck, AcceptAck,
        StopSender, CountAck, ClearStop, QueuePop, Publish, WaitReturns,
        CheckStop, CountTimeout, UnpackData, LoseData, LoseAck, Quiescent, vars
<1>6. ASSUME NEW e \in Dests, NEW i \in 1 .. Len(acks'[e]) PROVE AckedNext(acks'[e][i])
  <2>1. CASE acks' = acks
    BY <1>4, <2>1
  <2>2. ASSUME NEW d \in Dests, acks[d] # << >>,
               acks' = [acks EXCEPT ![d] = Tail(@)]
        PROVE  AckedNext(acks'[e][i])
    <3>1. PICK j \in 1 .. Len(acks[e]) : acks'[e][i] = acks[e][j]
      BY <1>1, <2>2, TailElements
    <3> QED BY <1>4, <3>1
  <2>3. ASSUME NEW d \in Dests, UnpackData(d) PROVE AckedNext(acks'[e][i])
    <3> DEFINE f == Head(data[d])
    <3>1. f \in Packet /\ 1 \in 1 .. Len(data[d]) /\ f = data[d][1] /\ f.id \in MsgIds
      <4>1. data[d] \in Seq(Packet) /\ data[d] # << >>
        BY <1>1, <2>3 DEF UnpackData
      <4>2. f \in Packet /\ 1 \in 1 .. Len(data[d]) /\ f = data[d][1]
        BY <4>1
      <4> QED BY <4>2 DEF Packet
    <3>2. OKNext(f)
      BY <1>3, <3>1
    <3>3. delivered'[f.id] = delivered[f.id] + 1
      BY <1>1, <2>3, <3>1 DEF UnpackData
    <3>4. delivered'[f.id] > 0
      BY <1>1, <3>1, <3>3
    <3>5. acks'[e][i] = f \/ (i \in 1 .. Len(acks[e]) /\ acks'[e][i] = acks[e][i])
      BY <1>1, <2>3, <3>1, TransmitElements DEF UnpackData, Transmit
    <3> QED BY <1>4, <3>2, <3>4, <3>5
  <2> QED
    BY <2>1, <2>2, <2>3
    DEF Next, HandlerThread, SenderThread, Pack, PackEof, IgnoreAck, AcceptAck,
        StopSender, CountAck, ClearStop, QueuePop, Publish, WaitReturns,
        CheckStop, CountTimeout, LoseData, LoseAck, Quiescent, vars
<1>7. hpc' = "stop" =>
        hack' \in Packet /\ hack'.id <= cur'.id /\ delivered'[hack'.id] > 0
  <2>1. ASSUME NEW d \in Dests, AcceptAck(d)
        PROVE  hack' \in Packet /\ AckedNext(hack')
    <3>1. acks[d] \in Seq(Packet) /\ acks[d] # << >> /\ hack' = Head(acks[d])
      BY <1>1, <2>1 DEF AcceptAck
    <3>2. hack' \in Packet /\ 1 \in 1 .. Len(acks[d]) /\ hack' = acks[d][1]
      BY <3>1
    <3> QED BY <1>4, <3>2
  <2>2. CASE hpc = "stop" /\ hack' = hack
    <3>1. hack \in Packet /\ hack.id <= cur.id /\ delivered[hack.id] > 0
      BY <2>2 DEF BaseInv, FrameInv
    <3>2. hack.id \in MsgIds /\ hack.id \in Int
      BY <3>1 DEF Packet, MsgIds
    <3>3. delivered'[hack.id] > 0
      BY <1>1, <3>1, <3>2, DeliveredGrows
    <3> QED BY <1>1, <2>2, <3>1, <3>2, <3>3
  <2>3. (\E d \in Dests : AcceptAck(d)) \/ (hpc = "stop" /\ hack' = hack) \/ hpc' # "stop"
    BY DEF Next, HandlerThread, SenderThread, Pack, PackEof, IgnoreAck,
        StopSender, CountAck, ClearStop, QueuePop, Publish, WaitReturns,
        CheckStop, CountTimeout, UnpackData, LoseData, LoseAck, Quiescent, vars,
        handlerVars
  <2> QED BY <2>1, <2>2, <2>3
<1>8. ASSUME NEW k \in MsgIds, delivered'[k] > 0 PROVE k <= cur'.id
  <2>1. k \in Int
    BY DEF MsgIds
  <2>2. CASE delivered[k] > 0
    BY <1>1, <2>1, <2>2 DEF FrameInv
  <2>3. ASSUME NEW d \in Dests, UnpackData(d) PROVE k <= cur'.id
    <3>1. data[d] \in Seq(Packet) /\ data[d] # << >>
      BY <1>1, <2>3 DEF UnpackData
    <3>2. Head(data[d]) \in Packet /\ 1 \in 1 .. Len(data[d]) /\ Head(data[d]) = data[d][1]
      BY <3>1
    <3>3. Head(data[d]).id <= cur'.id
      BY <1>3, <3>2
    <3>4. k = Head(data[d]).id \/ delivered'[k] = delivered[k]
      BY <1>1, <2>3 DEF UnpackData
    <3> QED BY <1>8, <2>2, <3>3, <3>4
  <2>4. CASE delivered' = delivered
    BY <1>8, <2>2, <2>4
  <2> QED
    BY <2>3, <2>4
    DEF Next, HandlerThread, SenderThread, Pack, PackEof, IgnoreAck, AcceptAck,
        StopSender, CountAck, ClearStop, QueuePop, Publish, WaitReturns,
        CheckStop, CountTimeout, LoseData, LoseAck, Quiescent, vars, peerVars
<1>9. \A d \in Dests :
        /\ \A i \in 1 .. Len(data'[d]) : OKNext(data'[d][i])
        /\ \A i \in 1 .. Len(acks'[d]) : AckedNext(acks'[d][i])
  BY <1>5, <1>6
<1> QED BY <1>7, <1>8, <1>9 DEF FrameInv, FrameOK

\* What was delivered up to some packet stays delivered, and so do later ones.
LEMMA DeliveredUpToGrows ==
  ASSUME BaseInv, [Next]_vars, NEW k \in Int, NEW l \in Int, k <= l, DeliveredUpTo(k)
  PROVE  \E j \in MsgIds : j <= l /\ delivered'[j] > 0
<1>1. PICK j \in MsgIds : j <= k /\ delivered[j] > 0
  BY DEF DeliveredUpTo
<1>2. delivered \in [MsgIds -> Nat] /\ delivered' \in [MsgIds -> Nat]
  BY TypeOfBaseInv, NextTypeInv DEF TypeInv, TypeOK
<1>3. delivered'[j] > 0 /\ j <= l
  BY <1>1, <1>2, DeliveredGrows DEF MsgIds
<1> QED BY <1>3

\* d_stop is set on acknowledgements only, and cleared before the next packet.
LEMMA NextStopInv == BaseInv /\ [Next]_vars => StopInv'
<1> SUFFICES ASSUME BaseInv, [Next]_vars PROVE StopInv'
  OBVIOUS
<1>1. /\ StopInv /\ TypeOK
      /\ cur.id \in Int /\ cur'.id \in Int /\ cur'.id >= cur.id
  BY CurGrows, TypeOfBaseInv DEF BaseInv, TypeInv
<1>2. ASSUME stop' PROVE \E j \in MsgIds : j <= cur'.id /\ delivered'[j] > 0
  <2>1. CASE stop
    <3>1. DeliveredUpTo(cur.id)
      BY <1>1, <2>1 DEF StopInv
    <3> QED BY <1>1, <3>1, DeliveredUpToGrows
  <2>2. CASE StopSender
    <3>1. hack \in Packet /\ hack.id <= cur.id /\ delivered[hack.id] > 0
      BY <2>2 DEF StopSender, BaseInv, FrameInv
    <3>2. hack.id \in MsgIds
      BY <3>1 DEF Packet
    <3>3. DeliveredUpTo(cur.id)
      BY <3>1, <3>2 DEF DeliveredUpTo
    <3> QED BY <1>1, <3>3, DeliveredUpToGrows
  <2>3. CASE ClearStop
    BY <1>2, <2>3 DEF ClearStop
  <2>4. CASE stop' = stop
    BY <1>2, <2>1, <2>4
  <2> QED
    BY <2>2, <2>3, <2>4
    DEF Next, HandlerThread, SenderThread, Pack, PackEof, IgnoreAck, AcceptAck,
        CountAck, QueuePop, Publish, WaitReturns, CheckStop, CountTimeout,
        UnpackData, LoseData, LoseAck, Quiescent, vars
<1>3. ASSUME NEW k \in MsgIds, outcome'[k] = "stopped"
      PROVE  \E j \in MsgIds : j <= k /\ delivered'[j] > 0
  <2>1. k \in Int
    BY DEF MsgIds
  <2>2. CASE outcome[k] = "stopped"
    <3>1. DeliveredUpTo(k)
      BY <1>1, <2>2 DEF StopInv
    <3> QED BY <2>1, <3>1, DeliveredUpToGrows
  <2>3. CASE CheckStop /\ stop /\ k = cur.id
    <3>1. DeliveredUpTo(cur.id)
      BY <1>1, <2>3 DEF StopInv
    <3> QED BY <1>1, <2>1, <2>3, <3>1, DeliveredUpToGrows
  <2>4. CASE CheckStop /\ ~(stop /\ k = cur.id)
    BY <1>1, <1>3, <2>2, <2>4 DEF CheckStop, TypeOK
  <2>5. CASE CountTimeout
    BY <1>1, <1>3, <2>2, <2>5 DEF CountTimeout, TypeOK
  <2>6. CASE outcome' = outcome
    BY <1>3, <2>2, <2>6
  <2> QED
    BY <2>3, <2>4, <2>5, <2>6
    DEF Next, HandlerThread, SenderThread, Pack, PackEof, IgnoreAck, AcceptAck,
        StopSender, CountAck, ClearStop, QueuePop, Publish, WaitReturns,
        UnpackData, LoseData, LoseAck, Quiescent, vars, senderVars
<1>4. (stop => DeliveredUpTo(cur.id))'
  BY <1>2 DEF DeliveredUpTo
<1>5. (\A k \in MsgIds : outcome[k] = "stopped" => DeliveredUpTo(k))'
  BY <1>3 DEF DeliveredUpTo
<1> QED BY <1>4, <1>5 DEF StopInv

\* Every packet is counted in d_recv_seqno, by its timeout or by the acknowledgement
\* that set the d_stop that ended it.
LEMMA NextCountInv == BaseInv /\ [Next]_vars => CountInv'
<1> SUFFICES ASSUME BaseInv, [Next]_vars PROVE CountInv'
  OBVIOUS
<1>1. /\ CountInv /\ incs \in Nat /\ recvSeq \in SeqNos /\ stop \in BOOLEAN
      /\ spc \in {"clear", "pop", "publish", "wait", "check", "timeout"}
      /\ hpc \in {"idle", "stop", "inc"} /\ Settled \in Int
  BY TypeOfBaseInv, CurId DEF BaseInv, TypeOK, Settled, MsgIds
<1>2. CASE StopSender
  <2>1. /\ hpc = "stop" /\ hpc' = "inc" /\ stop' = TRUE /\ spc' = spc
        /\ recvSeq' = recvSeq /\ incs' = incs /\ Settled' = Settled
    BY <1>2 DEF StopSender, senderVars, Settled
  <2> QED BY <1>1, <2>1 DEF CountInv
<1>3. CASE CountAck
  <2>1. /\ hpc = "inc" /\ hpc' = "idle" /\ spc' = spc /\ stop' = stop
        /\ recvSeq' = Succ(recvSeq) /\ incs' = incs + 1 /\ Settled' = Settled
    BY <1>3 DEF CountAck, IncRecvSeq, senderVars, Settled
  <2>2. recvSeq' = incs' % SeqMod
    BY <1>1, <2>1, SuccOfSeqNo DEF CountInv
  <2> QED BY <1>1, <2>1, <2>2 DEF CountInv
<1>4. CASE CountTimeout
  <2>1. /\ spc = "timeout" /\ spc' = "clear" /\ stop' = stop /\ hpc' = hpc
        /\ recvSeq' = Succ(recvSeq) /\ incs' = incs + 1
    BY <1>4 DEF CountTimeout, IncRecvSeq, handlerVars
  <2>2. recvSeq' = incs' % SeqMod
    BY <1>1, <2>1, SuccOfSeqNo DEF CountInv
  <2>3. Settled' = Settled + 1
    BY <1>4, SettledStep
  <2> QED BY <1>1, <2>1, <2>2, <2>3 DEF CountInv
<1>5. CASE CheckStop
  <2>1. /\ spc = "check" /\ stop' = stop /\ hpc' = hpc
        /\ recvSeq' = recvSeq /\ incs' = incs
    BY <1>5 DEF CheckStop, handlerVars
  <2>2. CASE stop
    <3>1. Settled' = Settled + 1 /\ spc' = "clear"
      BY <1>5, <2>2, SettledStep DEF CheckStop
    <3> QED BY <1>1, <2>1, <2>2, <3>1 DEF CountInv
  <2>3. CASE ~stop
    <3>1. Settled' = Settled /\ spc' = "timeout"
      BY <1>5, <2>1, <2>3, SettledStep DEF CheckStop, CountTimeout
    <3> QED BY <1>1, <2>1, <2>3, <3>1 DEF CountInv
  <2> QED BY <2>2, <2>3
<1>6. CASE ClearStop \/ QueuePop
  <2>1. recvSeq' = recvSeq /\ incs' = incs /\ hpc' = hpc
    BY <1>6 DEF ClearStop, QueuePop, handlerVars
  <2>2. \/ spc = "clear" /\ stop' = FALSE
        \/ spc = "pop" /\ spc' = "publish" /\ stop' = stop
    BY <1>6 DEF ClearStop, QueuePop
  <2>3. Settled' = Settled
    BY <1>6, SettledStep DEF ClearStop, QueuePop, CheckStop, CountTimeout
  <2> QED BY <1>1, <2>1, <2>2, <2>3 DEF CountInv
<1>7. CASE Publish \/ WaitReturns
  <2>1. /\ recvSeq' = recvSeq /\ incs' = incs /\ hpc' = hpc /\ stop' = stop
        /\ spc \in {"publish", "wait"} /\ spc' \in {"publish", "wait", "check"}
        /\ Settled' = Settled
    BY <1>7 DEF Publish, WaitReturns, handlerVars, Settled
  <2> QED BY <1>1, <2>1 DEF CountInv
<1>8. ASSUME NEW d \in Dests, AcceptAck(d) PROVE CountInv'
  <2>1. /\ hpc = "idle" /\ hpc' = "stop" /\ recvSeq' = recvSeq /\ incs' = incs
        /\ spc' = spc /\ stop' = stop /\ Settled' = Settled
    BY <1>8 DEF AcceptAck, senderVars, Settled
  <2> QED BY <1>1, <2>1 DEF CountInv
<1>9. CASE UNCHANGED <<recvSeq, incs, hpc, spc, stop, cur>>
  BY <1>1, <1>9 DEF CountInv, Settled
<1> QED
  BY <1>2, <1>3, <1>4, <1>5, <1>6, <1>7, <1>8, <1>9
  DEF Next, HandlerThread, SenderThread, Pack, PackEof, IgnoreAck, UnpackData,
      LoseData, LoseAck, Quiescent, vars, handlerVars, senderVars

\* What holds of every behaviour is inductive.
LEMMA NextBaseInv == BaseInv /\ [Next]_vars => BaseInv'
<1> SUFFICES ASSUME BaseInv, [Next]_vars PROVE BaseInv'
  OBVIOUS
<1>1. TypeOK'
  BY TypeOfBaseInv, NextTypeInv DEF TypeInv
<1> QED
  BY <1>1, TypeOfBaseInv, NextQueueInv, NextOutcomeInv, NextFrameInv,
     NextStopInv, NextCountInv DEF BaseInv

-----------------------------------------------------------------------------
(***************************************************************************)
(* What holds besides while acknowledgements are timely.                   *)
(***************************************************************************)

\* Once an acknowledgement was untimely, timely stays FALSE.
LEMMA TimelyBefore == [Next]_vars /\ timely' => timely
  BY DEF Next, HandlerThread, SenderThread, Pack, PackEof, IgnoreAck, AcceptAck,
         StopSender, CountAck, ClearStop, QueuePop, Publish, WaitReturns,
         CheckStop, CountTimeout, UnpackData, LoseData, LoseAck, Quiescent, vars

\* An acknowledgement that is accepted in time is the one of the packet in hand.
LEMMA AcceptedIsCurrent ==
  ASSUME IInv, timely, NEW d \in Dests, AcceptAck(d), timely'
  PROVE  /\ hack' = Head(acks[d]) /\ hack'.id = cur.id
         /\ spc \in {"publish", "wait", "check"} /\ ~stop
         /\ delivered[cur.id] > 0
<1> DEFINE a == Head(acks[d])
<1>1. acks[d] \in Seq(Packet) /\ acks[d] # << >>
  BY DEF IInv, BaseInv, TypeOK, AcceptAck
<1>2. a \in Packet /\ 1 \in 1 .. Len(acks[d]) /\ a = acks[d][1]
  BY <1>1
<1>3. FrameOK(a) /\ delivered[a.id] > 0
  BY <1>2, Zenon DEF IInv, BaseInv, FrameInv
<1>4. hpc = "idle" /\ a.seq = recvSeq /\ hack' = a
  BY DEF AcceptAck
<1>5. a.id \in Nat /\ incs \in Nat /\ cur.id \in Int
  <2>1. a.id \in MsgIds
    BY <1>2 DEF Packet
  <2>2. cur.id \in MsgIds \cup {-1} /\ incs \in Nat
    BY TypeOfBaseInv, CurId DEF IInv, BaseInv, TypeOK
  <2> QED BY <2>1, <2>2, BoundsAssumption DEF MsgIds
<1>6. a.id % SeqMod = incs % SeqMod /\ a.id <= cur.id
  BY <1>3, <1>4 DEF FrameOK, IInv, BaseInv, CountInv
<1>7. incs < a.id + SeqMod
  <2>1. a.id + SeqMod > incs
    BY DEF AcceptAck, Fresh
  <2> QED BY <1>5, <2>1, SeqModAssumption
<1>8. incs = Settled + (IF Notified THEN 1 ELSE 0)
  BY <1>4, <1>5 DEF IInv, SeqInv, Settled
<1> HIDE DEF a
<1>9. a.id <= incs
  BY <1>5, <1>6, <1>8 DEF Settled
<1>10. a.id = incs
  BY <1>5, <1>6, <1>7, <1>9, SeqNoIdentifies
<1>11. a.id = cur.id /\ spc \notin {"clear", "pop"} /\ ~Notified
  BY <1>5, <1>6, <1>8, <1>10 DEF Settled
<1>12. spc # "timeout"
  <2>1. hpc' = "stop" /\ spc' = spc
    BY DEF AcceptAck, senderVars
  <2>2. ~TimeoutRace'
    BY DEF AcceptAck
  <2> QED BY <2>1, <2>2 DEF TimeoutRace
<1>13. spc \in {"publish", "wait", "check"}
  BY <1>11, <1>12 DEF IInv, BaseInv, TypeOK
<1>14. hack' = Head(acks[d])
  BY <1>4 DEF a
<1> QED BY <1>3, <1>4, <1>11, <1>13, <1>14 DEF Notified

\* d_recv_seqno follows the packets settled; an acknowledgement and the sender
\* thread's own decision never count the same packet twice.
LEMMA NextSeqInv == IInv /\ timely /\ [Next]_vars => SeqInv'
<1> SUFFICES ASSUME IInv, timely, [Next]_vars PROVE SeqInv'
  OBVIOUS
<1>1. BaseInv /\ [Next]_vars
  BY DEF IInv
<1>2. /\ SeqInv /\ incs \in Nat /\ recvSeq \in SeqNos /\ stop \in BOOLEAN
      /\ spc \in {"clear", "pop", "publish", "wait", "check", "timeout"}
      /\ hpc \in {"idle", "stop", "inc"} /\ Settled \in Int
  BY TypeOfBaseInv, CurId DEF IInv, BaseInv, TypeOK, Settled, MsgIds
<1>3. CASE StopSender
  <2>1. /\ hpc = "stop" /\ hpc' = "inc" /\ stop' = TRUE /\ spc' = spc
        /\ recvSeq' = recvSeq /\ incs' = incs
    BY <1>3 DEF StopSender, senderVars
  <2>2. spc \in {"publish", "wait", "check"} /\ ~stop
    BY <2>1 DEF IInv, DeliveryInv
  <2>3. Settled' = Settled
    BY <1>1, <1>3, <2>2, SettledStep DEF StopSender, CheckStop, CountTimeout, senderVars
  <2> QED BY <1>2, <2>1, <2>2, <2>3 DEF SeqInv, Notified
<1>4. CASE CountAck
  <2>1. /\ hpc = "inc" /\ hpc' = "idle" /\ spc' = spc /\ stop' = stop
        /\ recvSeq' = Succ(recvSeq) /\ incs' = incs + 1 /\ cur' = cur
    BY <1>4 DEF CountAck, IncRecvSeq, senderVars
  <2>3. Settled' = Settled /\ Notified' = Notified
    BY <2>1 DEF Settled, Notified
  <2> QED BY <1>2, <2>1, <2>3 DEF SeqInv
<1>5. CASE CountTimeout
  <2>1. /\ spc = "timeout" /\ spc' = "clear" /\ stop' = stop /\ hpc' = hpc
        /\ recvSeq' = Succ(recvSeq) /\ incs' = incs + 1
    BY <1>5 DEF CountTimeout, IncRecvSeq, handlerVars
  <2>3. Settled' = Settled + 1
    BY <1>1, <1>5, SettledStep
  <2> QED BY <1>2, <2>1, <2>3 DEF SeqInv, Notified
<1>6. CASE CheckStop
  <2>1. /\ spc = "check" /\ stop' = stop /\ hpc' = hpc
        /\ recvSeq' = recvSeq /\ incs' = incs
    BY <1>6 DEF CheckStop, handlerVars
  <2>2. CASE stop
    <3>1. Settled' = Settled + 1 /\ spc' = "clear"
      BY <1>1, <1>6, <2>2, SettledStep DEF CheckStop
    <3> QED BY <1>2, <2>1, <2>2, <3>1 DEF SeqInv, Notified
  <2>3. CASE ~stop
    <3>1. Settled' = Settled /\ spc' = "timeout"
      BY <1>1, <1>6, <2>1, <2>3, SettledStep DEF CheckStop, CountTimeout
    <3> QED BY <1>2, <2>1, <2>3, <3>1 DEF SeqInv, Notified
  <2> QED BY <2>2, <2>3
<1>7. CASE ClearStop \/ QueuePop
  <2>1. recvSeq' = recvSeq /\ incs' = incs /\ hpc' = hpc
    BY <1>7 DEF ClearStop, QueuePop, handlerVars
  <2>2. ~Notified /\ ~Notified' /\ (spc' \in {"pop", "timeout"} => ~stop')
    <3>1. CASE ClearStop
      BY <3>1 DEF ClearStop, Notified
    <3>2. CASE QueuePop
      <4>1. spc = "pop" /\ spc' = "publish" /\ stop' = stop
        BY <3>2 DEF QueuePop
      <4>2. ~stop
        BY <1>2, <4>1 DEF SeqInv
      <4> QED BY <4>1, <4>2 DEF Notified
    <3> QED BY <1>7, <3>1, <3>2
  <2>3. Settled' = Settled
    BY <1>1, <1>7, SettledStep DEF ClearStop, QueuePop, CheckStop, CountTimeout
  <2> QED BY <1>2, <2>1, <2>2, <2>3 DEF SeqInv
<1>8. CASE Publish \/ WaitReturns
  <2>1. /\ recvSeq' = recvSeq /\ incs' = incs /\ hpc' = hpc /\ stop' = stop
        /\ cur' = cur /\ spc \in {"publish", "wait"}
        /\ spc' \in {"publish", "wait", "check"}
    BY <1>8 DEF Publish, WaitReturns, handlerVars
  <2> QED BY <1>2, <2>1 DEF SeqInv, Notified, Settled
<1>9. ASSUME NEW d \in Dests, AcceptAck(d) PROVE SeqInv'
  <2>1. /\ hpc = "idle" /\ hpc' = "stop" /\ recvSeq' = recvSeq /\ incs' = incs
        /\ spc' = spc /\ stop' = stop /\ cur' = cur
    BY <1>9 DEF AcceptAck, senderVars
  <2> QED BY <1>2, <2>1 DEF SeqInv, Notified, Settled
<1>10. CASE UNCHANGED <<recvSeq, incs, hpc, spc, stop, cur>>
  BY <1>2, <1>10 DEF SeqInv, Notified, Settled
<1> QED
  BY <1>1, <1>3, <1>4, <1>5, <1>6, <1>7, <1>8, <1>9, <1>10
  DEF Next, HandlerThread, SenderThread, Pack, PackEof, IgnoreAck, UnpackData,
      LoseData, LoseAck, Quiescent, vars, handlerVars, senderVars

\* A packet is stopped, or about to be, only when it was delivered.
LEMMA NextDeliveryInv == IInv /\ timely /\ timely' /\ [Next]_vars => DeliveryInv'
<1> SUFFICES ASSUME IInv, timely, timely', [Next]_vars PROVE DeliveryInv'
  OBVIOUS
<1>1. BaseInv /\ [Next]_vars
  BY DEF IInv
<1>2. /\ DeliveryInv /\ TypeOK /\ TypeOK'
      /\ cur.id \in MsgIds \cup {-1} /\ (cur # NoPacket => cur.id \in MsgIds)
      /\ (cur = NoPacket => spc \in {"clear", "pop"})
  BY <1>1, TypeOfBaseInv, CurId, NextTypeInv DEF IInv, BaseInv, TypeInv, PacketInHand
<1>3. \A k \in MsgIds : delivered[k] > 0 => delivered'[k] > 0
  BY <1>1, <1>2, DeliveredGrows DEF TypeOK
<1>5. \A k \in MsgIds : outcome'[k] = "stopped" => delivered'[k] > 0
  <2>1. SUFFICES ASSUME NEW k \in MsgIds, outcome'[k] = "stopped"
                 PROVE  delivered'[k] > 0
    OBVIOUS
  <2>2. CASE outcome[k] = "stopped"
    BY <1>2, <1>3, <2>2 DEF DeliveryInv
  <2>3. CASE CheckStop
    <3>1. CASE k = cur.id /\ stop
      BY <1>2, <1>3, <2>3, <3>1 DEF CheckStop, DeliveryInv, Notified
    <3>2. CASE ~(k = cur.id /\ stop)
      BY <1>2, <2>1, <2>2, <2>3, <3>2 DEF CheckStop, TypeOK
    <3> QED BY <3>1, <3>2
  <2>4. CASE CountTimeout
    BY <1>2, <2>1, <2>2, <2>4 DEF CountTimeout, TypeOK
  <2>5. CASE outcome' = outcome
    BY <2>1, <2>2, <2>5
  <2> QED
    BY <1>1, <2>3, <2>4, <2>5
    DEF Next, HandlerThread, SenderThread, Pack, PackEof, IgnoreAck, AcceptAck,
        StopSender, CountAck, ClearStop, QueuePop, Publish, WaitReturns,
        UnpackData, LoseData, LoseAck, Quiescent, vars, senderVars
<1>6. Notified' => delivered'[cur'.id] > 0
  <2>1. ASSUME Notified, cur' = cur PROVE delivered'[cur'.id] > 0
    <3>1. cur.id \in MsgIds
      BY <1>2, <2>1 DEF Notified
    <3>2. delivered[cur.id] > 0
      BY <1>2, <2>1 DEF DeliveryInv
    <3> QED BY <1>3, <2>1, <3>1, <3>2
  <2>2. CASE StopSender
    <3>1. delivered[cur.id] > 0 /\ cur' = cur /\ delivered' = delivered
      BY <1>2, <2>2 DEF StopSender, DeliveryInv, senderVars, peerVars
    <3> QED BY <3>1
  <2>3. CASE QueuePop
    BY <2>3 DEF QueuePop, Notified, IInv, SeqInv
  <2>4. CASE ClearStop
    BY <2>4 DEF ClearStop, Notified
  <2>5. CASE cur' = cur /\ (Notified' => Notified)
    BY <2>1, <2>5
  <2>6. CASE Publish \/ WaitReturns \/ CheckStop \/ CountTimeout
    BY <2>5, <2>6 DEF Publish, WaitReturns, CheckStop, CountTimeout, Notified
  <2>7. CASE UNCHANGED <<cur, stop, spc>>
    BY <2>5, <2>7 DEF Notified
  <2> QED
    BY <1>1, <2>2, <2>3, <2>4, <2>6, <2>7
    DEF Next, HandlerThread, SenderThread, Pack, PackEof, IgnoreAck, AcceptAck,
        CountAck, UnpackData, LoseData, LoseAck, Quiescent, vars, senderVars
<1>7. ASSUME hpc' = "stop"
      PROVE  /\ spc' \in {"publish", "wait", "check"} /\ ~stop'
             /\ delivered'[cur'.id] > 0
  <2>1. ASSUME NEW d \in Dests, AcceptAck(d)
        PROVE  /\ spc' \in {"publish", "wait", "check"} /\ ~stop'
               /\ delivered'[cur'.id] > 0
    <3>2. spc \in {"publish", "wait", "check"} /\ ~stop /\ delivered[cur.id] > 0
      BY <2>1, AcceptedIsCurrent
    <3> QED BY <2>1, <3>2 DEF AcceptAck, senderVars, peerVars
  <2>2. CASE hpc = "stop"
    <3>1. spc \in {"publish", "wait", "check"} /\ ~stop /\ delivered[cur.id] > 0
      BY <1>2, <2>2 DEF DeliveryInv
    <3>2. cur.id \in MsgIds
      BY <1>2, <3>1
    <3>3. delivered'[cur.id] > 0
      BY <1>3, <3>1, <3>2
    <3>4. CASE Publish \/ WaitReturns
      BY <3>1, <3>3, <3>4 DEF Publish, WaitReturns
    <3>5. CASE CheckStop
      BY <1>7, <3>1, <3>5 DEF CheckStop, TimeoutRace
    <3>6. CASE UNCHANGED <<spc, stop, cur>>
      BY <3>1, <3>3, <3>6
    <3> QED
      BY <1>7, <2>2, <3>1, <3>4, <3>5, <3>6
      DEF Next, HandlerThread, SenderThread, Pack, PackEof, IgnoreAck,
          AcceptAck, StopSender, CountAck, ClearStop, QueuePop, CountTimeout,
          UnpackData, LoseData, LoseAck, Quiescent, vars, senderVars
  <2> QED
    BY <1>7, <2>1, <2>2
    DEF Next, HandlerThread, SenderThread, Pack, PackEof, IgnoreAck,
        StopSender, CountAck, ClearStop, QueuePop, Publish, WaitReturns,
        CheckStop, CountTimeout, UnpackData, LoseData, LoseAck, Quiescent, vars,
        handlerVars
<1> QED BY <1>5, <1>6, <1>7 DEF DeliveryInv

-----------------------------------------------------------------------------
(***************************************************************************)
(* The theorems.                                                           *)
(***************************************************************************)

\* The invariant is inductive.
LEMMA NextIInv == IInv /\ [Next]_vars => IInv'
<1> SUFFICES ASSUME IInv, [Next]_vars PROVE IInv'
  OBVIOUS
<1>1. BaseInv'
  BY NextBaseInv DEF IInv
<1>2. ASSUME timely' PROVE DeliveryInv' /\ SeqInv'
  BY <1>2, TimelyBefore, NextDeliveryInv, NextSeqInv
<1> QED BY <1>1, <1>2 DEF IInv

\* Every state of every behaviour, with the two threads interleaved in any way,
\* satisfies the inductive invariant.
THEOREM Invariance == Spec => []IInv
  BY InitIInv, NextIInv, PTL DEF Spec

\* Reliability of ruc_connection and stubborn_sender. In every behaviour, a packet
\* whose retransmissions are cut short was stopped on the acknowledgement of a
\* delivered packet; of itself, as long as acknowledgements are timely.
THEOREM Reliability == Spec => []StoppedMeansDelivered
<1>1. IInv => StoppedMeansDelivered
  <2> SUFFICES ASSUME IInv, NEW k \in MsgIds, outcome[k] = "stopped"
               PROVE  \E j \in MsgIds : j <= k /\ delivered[j] > 0 /\ (timely => j = k)
    BY DEF StoppedMeansDelivered
  <2>1. CASE timely
    <3>1. delivered[k] > 0 /\ k <= k
      BY <2>1 DEF IInv, DeliveryInv, MsgIds
    <3> QED BY <3>1
  <2>2. CASE ~timely
    BY <2>2 DEF IInv, BaseInv, StopInv, DeliveredUpTo
  <2> QED BY <2>1, <2>2
<1> QED BY <1>1, Invariance, PTL

\* d_recv_seqno and d_send_seqno, whenever the connection has nothing to do. In every
\* behaviour no packet is left uncounted; none is counted twice, so that the two
\* agree, as long as acknowledgements are timely.
THEOREM CounterAgreement == Spec => []CountersAgree
<1>1. IInv => CountersAgree
  <2> SUFFICES ASSUME IInv, spc = "pop", queue = << >>, hpc = "idle"
               PROVE  incs >= packed /\ (timely => recvSeq = sendSeq)
    BY DEF CountersAgree
  <2>1. Len(queue) = 0 /\ cur.id \in Int /\ incs \in Nat
    BY TypeOfBaseInv, CurId DEF MsgIds, IInv, BaseInv, TypeOK
  <2>2. packed = cur.id + 1 /\ sendSeq = packed % SeqMod
    BY <2>1 DEF IInv, BaseInv, QueueInv
  <2>3. incs >= packed /\ recvSeq = incs % SeqMod
    BY <2>1, <2>2 DEF IInv, BaseInv, CountInv, Settled
  <2>4. timely => incs = packed
    BY <2>1, <2>2 DEF IInv, SeqInv, Settled, Notified
  <2> QED BY <2>2, <2>3, <2>4
<1> QED BY <1>1, Invariance, PTL

\* What ruc_connection::unpack ignores. In every behaviour it is an acknowledgement of
\* a packet that is settled or that d_recv_seqno was counted past; a duplicate, as long
\* as acknowledgements are timely.
THEOREM IgnoredAreDuplicates == Spec => OnlyDuplicatesIgnored
<1> DEFINE Ignorable(d) ==
             LET k == Head(acks[d]).id
             IN  /\ outcome[k] # "pending" \/ incs > k
                 /\ timely => outcome[k] # "pending" \/ (k = cur.id /\ stop)
<1>1. ASSUME IInv, NEW d \in Dests, IgnoreAck(d) PROVE Ignorable(d)
  <2> DEFINE a == Head(acks[d])
  <2>1. acks[d] \in Seq(Packet) /\ acks[d] # << >> /\ a.seq # recvSeq /\ hpc = "idle"
    BY <1>1 DEF IgnoreAck, IInv, BaseInv, TypeOK
  <2>2. a \in Packet /\ 1 \in 1 .. Len(acks[d]) /\ a = acks[d][1]
    BY <2>1
  <2>3. a.id <= cur.id /\ a.seq = a.id % SeqMod
    BY <1>1, <2>2 DEF IInv, BaseInv, FrameInv, FrameOK
  <2>4. /\ a.id \in MsgIds /\ a.id \in Int /\ cur.id \in Int
        /\ incs \in Nat /\ spc \in {"clear", "pop", "publish", "wait", "check", "timeout"}
    <3>1. BaseInv
      BY <1>1 DEF IInv
    <3>2. a.id \in MsgIds
      BY <2>2 DEF Packet
    <3>3. cur.id \in MsgIds \cup {-1}
      BY <3>1, TypeOfBaseInv, CurId
    <3> QED BY <3>1, <3>2, <3>3 DEF BaseInv, TypeOK, MsgIds
  <2>5. CASE a.id < Settled
    <3>1. outcome[a.id] # "pending"
      BY <1>1, <2>4, <2>5 DEF IInv, BaseInv, OutcomeInv
    <3> QED BY <3>1
  <2>6. CASE ~(a.id < Settled)
    <3> HIDE DEF a
    <3>1. Settled = cur.id /\ a.id = cur.id
      BY <2>3, <2>4, <2>6 DEF Settled
    <3>2. incs # cur.id
      BY <1>1, <2>1, <2>3, <3>1 DEF IInv, BaseInv, CountInv
    <3>3. incs > a.id
      BY <1>1, <2>1, <2>4, <3>1, <3>2 DEF IInv, BaseInv, CountInv
    <3>4. timely => Notified
      BY <1>1, <2>1, <2>4, <3>1, <3>2 DEF IInv, SeqInv
    <3> QED BY <3>1, <3>3, <3>4 DEF Notified, a
  <2> QED BY <2>5, <2>6
<1>2. IInv /\ [Next]_vars => [\A d \in Dests : IgnoreAck(d) => Ignorable(d)]_vars
  BY <1>1
<1>3. [][\A d \in Dests : IgnoreAck(d) => Ignorable(d)]_vars <=> OnlyDuplicatesIgnored
  BY DEF OnlyDuplicatesIgnored
<1> QED BY <1>2, <1>3, Invariance, PTL DEF Spec

-----------------------------------------------------------------------------
(***************************************************************************)
(* Refinement: a connection implements ReliableUnicast, which is sound as  *)
(* long as acknowledgements are timely.                                    *)
(***************************************************************************)

\* A packet that was popped has its turn: it was submitted, and every earlier one
\* is settled.
LEMMA PoppedHasTurn ==
  ASSUME BaseInv, NEW k \in MsgIds, k <= cur.id
  PROVE  Channel!HasTurn(k)
<1>1. cur.id \in Int /\ k \in Int /\ Len(queue) \in Nat
  BY TypeOfBaseInv, CurId DEF MsgIds, BaseInv, TypeOK
<1>2. k < packed
  BY <1>1 DEF BaseInv, QueueInv
<1>3. ASSUME NEW j \in MsgIds, j < k PROVE outcome[j] # "pending"
  <2>1. j < Settled
    BY <1>1, <1>3 DEF Settled, MsgIds
  <2> QED BY <2>1 DEF BaseInv, OutcomeInv
<1> QED BY <1>2, <1>3 DEF Channel!HasTurn, Channel!MsgIds, MsgIds

LEMMA InitRefines == Init => Channel!Init
<1> SUFFICES ASSUME Init PROVE Channel!Init
  OBVIOUS
<1>1. {k \in MsgIds : delivered[k] > 0} = {}
  BY DEF Init
<1> QED BY <1>1 DEF Init, Channel!Init, Channel!MsgIds, MsgIds

\* Every step is a step of the channel or leaves it unchanged.
LEMMA StepRefines == IInv /\ [Next]_vars => [Channel!Next]_(Channel!vars)
<1> SUFFICES ASSUME IInv, [Next]_vars
             PROVE  Channel!Next \/ UNCHANGED Channel!vars
  BY DEF Channel!vars
<1> DEFINE received == {k \in MsgIds : delivered[k] > 0}
<1>1. [Next]_vars /\ TypeOK /\ BaseInv
  BY DEF IInv, BaseInv
<1>2. \A k \in MsgIds : k \in Channel!MsgIds
  BY DEF Channel!MsgIds, MsgIds
<1>3. ASSUME NEW d \in Dests, Pack(d) PROVE Channel!Next
  <2>1. Channel!Submit
    BY <1>3 DEF Pack, Channel!Submit, peerVars
  <2> QED BY <2>1 DEF Channel!Next
<1>4. ASSUME NEW d \in Dests, UnpackData(d) PROVE Channel!Next
  <2>1. data[d] \in Seq(Packet) /\ data[d] # << >>
    BY <1>1, <1>4 DEF UnpackData, TypeOK
  <2>2. Head(data[d]) \in Packet /\ 1 \in 1 .. Len(data[d]) /\ Head(data[d]) = data[d][1]
    BY <2>1
  <2>3. PICK k \in MsgIds : k = Head(data[d]).id /\ k <= cur.id
    BY <2>2 DEF Packet, IInv, BaseInv, FrameInv, FrameOK
  <2>4. delivered' = [delivered EXCEPT ![k] = @ + 1] /\ delivered \in [MsgIds -> Nat]
    BY <1>1, <1>4, <2>3 DEF UnpackData, TypeOK
  <2>5. packed' = packed /\ outcome' = outcome /\ timely' = timely
    BY <1>4 DEF UnpackData, handlerVars, senderVars
  <2>6. received' = received \cup {k}
    <3>1. ASSUME NEW j \in MsgIds
          PROVE  delivered'[j] > 0 <=> delivered[j] > 0 \/ j = k
      BY <2>3, <2>4
    <3>2. \A j : j \in received' <=> j \in received \cup {k}
      BY <2>3, <3>1
    <3> QED BY <3>2, Zenon
  <2>7. Channel!Receive(k)
    BY <1>1, <2>3, <2>5, <2>6, PoppedHasTurn DEF Channel!Receive
  <2> QED BY <1>2, <2>3, <2>7 DEF Channel!Next
<1>5. CASE (CheckStop /\ stop) \/ CountTimeout
  <2>1. spc \in {"check", "timeout"}
    BY <1>5 DEF CheckStop, CountTimeout
  <2>2. cur.id \in MsgIds /\ cur.id \in Int
    BY <1>1, <2>1, TypeOfBaseInv, CurId DEF TypeInv, PacketInHand, MsgIds
  <2>3. Channel!HasTurn(cur.id) /\ outcome[cur.id] = "pending"
    <3>1. Settled = cur.id
      BY <2>1 DEF Settled
    <3> QED BY <1>1, <2>2, <3>1, PoppedHasTurn DEF BaseInv, OutcomeInv
  <2>4. packed' = packed /\ delivered' = delivered /\ timely' = timely
    BY <1>1, <1>5 DEF CheckStop, CountTimeout, handlerVars, peerVars, TypeOK, TimeoutRace
  <2>5. CASE CheckStop /\ stop
    <3>1. \E j \in received : j <= cur.id /\ (timely => j = cur.id)
      <4>1. CASE timely
        <5>1. cur.id \in received /\ cur.id <= cur.id
          BY <2>2, <2>5, <4>1 DEF CheckStop, IInv, DeliveryInv, Notified
        <5> QED BY <5>1
      <4>2. CASE ~timely
        <5>1. PICK j \in MsgIds : j <= cur.id /\ delivered[j] > 0
          BY <1>1, <2>5 DEF BaseInv, StopInv, DeliveredUpTo
        <5>2. j \in received
          BY <5>1
        <5> QED BY <4>2, <5>1, <5>2
      <4> QED BY <4>1, <4>2
    <3>2. outcome' = [outcome EXCEPT ![cur.id] = "stopped"]
      BY <2>5 DEF CheckStop
    <3>3. Channel!Stop(cur.id)
      BY <2>3, <2>4, <3>1, <3>2 DEF Channel!Stop
    <3> QED BY <1>2, <2>2, <3>3 DEF Channel!Next
  <2>6. CASE CountTimeout
    <3>1. outcome' = [outcome EXCEPT ![cur.id] = "timeout"]
      BY <2>6 DEF CountTimeout
    <3>2. Channel!GiveUp(cur.id)
      BY <2>3, <2>4, <3>1 DEF Channel!GiveUp
    <3> QED BY <1>2, <2>2, <3>2 DEF Channel!Next
  <2> QED BY <1>5, <2>5, <2>6
<1>6. CASE UNCHANGED <<packed, outcome, delivered>>
  <2>1. timely' = timely \/ timely' = FALSE
    BY <1>1 DEF Next, HandlerThread, SenderThread, Pack, PackEof, IgnoreAck,
        AcceptAck, StopSender, CountAck, ClearStop, QueuePop, Publish,
        WaitReturns, CheckStop, CountTimeout, UnpackData, LoseData, LoseAck,
        Quiescent, vars, TypeOK
  <2>2. CASE timely' = timely
    BY <1>6, <2>2 DEF Channel!vars
  <2>3. CASE timely' = FALSE
    <3>1. Channel!CeaseSound
      BY <1>6, <2>3 DEF Channel!CeaseSound
    <3> QED BY <3>1 DEF Channel!Next
  <2> QED BY <2>1, <2>2, <2>3
<1> QED
  BY <1>1, <1>3, <1>4, <1>5, <1>6
  DEF Next, HandlerThread, SenderThread, PackEof, IgnoreAck, AcceptAck,
      StopSender, CountAck, ClearStop, QueuePop, Publish, WaitReturns, CheckStop,
      LoseData, LoseAck, Quiescent, vars, handlerVars, senderVars, peerVars

\* ruc_connection with its stubborn sender implements, in every behaviour, a unicast
\* channel that settles packets in order and delivers none before its turn, and that
\* is sound - reliable - until an acknowledgement meets a timeout or comes a full turn
\* late.
THEOREM Refinement == Spec => IsReliableUnicast
  BY InitRefines, StepRefines, Invariance, PTL
  DEF Spec, IsReliableUnicast, Channel!Spec

-----------------------------------------------------------------------------
(***************************************************************************)
(* Order and number of deliveries, with no timing assumption: whatever the *)
(* acknowledgements do to d_recv_seqno and to d_stop.                      *)
(***************************************************************************)

\* How often the sender thread has transmitted packet k, or more.
Attempts(k) ==
  IF k > cur.id THEN 0
  ELSE IF k = cur.id /\ spc = "publish" THEN tries
  ELSE IF k = cur.id /\ spc = "wait" THEN tries + 1
  ELSE MaxRetx + 1

\* The loop of thread_func goes on only while an attempt is left.
LoopInv == spc \in {"publish", "wait"} => tries <= MaxRetx

\* Frames on the way are of packets popped, each on the one path to its destination.
PathInv ==
  \A d, e \in Dests : \A i \in 1 .. Len(data[d]) :
    /\ data[d][i].id <= cur.id
    /\ data[d][i].id = cur.id => d = cur.dest
    /\ \A j \in 1 .. Len(data[e]) : data[d][i].id = data[e][j].id => d = e

\* They are in order, and none is older than what was handed over last.
FlowInv ==
  \A d \in Dests :
    /\ last[d] <= cur.id
    /\ \A i \in 1 .. Len(data[d]) :
         /\ last[d] <= data[d][i].id
         /\ \A j \in 1 .. i : data[d][j].id <= data[d][i].id

\* Handed over and on the way, a packet is there no more than it was transmitted.
CopiesInv ==
  /\ \A k \in MsgIds : delivered[k] <= Attempts(k)
  /\ \A d \in Dests : \A i \in 1 .. Len(data[d]) : \A j \in 1 .. i :
       data[d][j].id = data[d][i].id =>
         delivered[data[d][i].id] + (i - j + 1) <= Attempts(data[d][i].id)

TransitInv == TypeInv /\ QueueInv /\ LoopInv /\ PathInv /\ FlowInv /\ CopiesInv

LEMMA InitTransit == Init => TransitInv
<1> SUFFICES ASSUME Init PROVE TransitInv
  OBVIOUS
<1>1. TypeInv
  BY InitTypeInv
<1>2. cur.id = -1 /\ queue = << >> /\ Len(queue) = 0
  BY DEF Init, NoPacket
<1>3. 0 % SeqMod = 0
  BY SeqModAssumption
<1>4. QueueInv
  BY <1>2, <1>3 DEF Init, QueueInv
<1>5. ASSUME NEW d \in Dests PROVE 1 .. Len(data[d]) = {} /\ last[d] = -1
  <2>1. data[d] = << >> /\ last[d] = -1
    BY DEF Init
  <2>2. Len(data[d]) = 0 /\ 1 .. 0 = {}
    BY <2>1
  <2> QED BY <2>1, <2>2
<1>6. PathInv /\ FlowInv
  BY <1>2, <1>5 DEF PathInv, FlowInv
<1>7. ASSUME NEW k \in MsgIds PROVE delivered[k] <= Attempts(k)
  <2>1. delivered[k] = 0 /\ k > cur.id
    BY <1>2 DEF Init, MsgIds
  <2>2. Attempts(k) = 0
    BY <2>1 DEF Attempts
  <2> QED BY <2>1, <2>2
<1>8. CopiesInv
  BY <1>5, <1>7 DEF CopiesInv
<1> QED BY <1>1, <1>4, <1>6, <1>8 DEF TransitInv, LoopInv, Init

\* Steps that neither put a frame on its way nor take one off.
LEMMA TransitElsewhere ==
  ASSUME TransitInv, TypeInv', QueueInv', UNCHANGED <<data, delivered, last>>,
         cur'.id >= cur.id, LoopInv',
         \A d \in Dests : \A i \in 1 .. Len(data[d]) :
           data[d][i].id = cur'.id => d = cur'.dest,
         \A k \in MsgIds : Attempts(k)' >= Attempts(k)
  PROVE  TransitInv'
<1>1. /\ cur.id \in Int /\ cur'.id \in Int /\ data \in [Dests -> Seq(Packet)]
      /\ last \in [Dests -> MsgIds \cup {-1}] /\ delivered \in [MsgIds -> Nat]
  <2>1. cur' \in Packet \cup {NoPacket}
    BY DEF TypeInv, TypeOK
  <2>2. cur'.id \in Int
    BY <2>1 DEF Packet, NoPacket, MsgIds
  <2> QED BY <2>2, CurId DEF TransitInv, TypeInv, TypeOK, MsgIds
<1>2. \A k \in MsgIds : Attempts(k) \in Int /\ Attempts(k)' \in Int
  BY MaxRetxAssumption DEF Attempts, TransitInv, TypeInv, TypeOK
<1>3. ASSUME NEW d \in Dests, NEW i \in 1 .. Len(data[d])
      PROVE  data[d][i].id \in MsgIds /\ data[d][i].id \in Int
  <2>1. data[d][i] \in Packet
    BY <1>1
  <2> QED BY <2>1 DEF Packet, MsgIds
<1>4. PathInv'
  <2>1. ASSUME NEW d \in Dests, NEW i \in 1 .. Len(data[d]) PROVE data[d][i].id <= cur'.id
    BY <1>1, <1>3 DEF TransitInv, PathInv
  <2> QED BY <2>1 DEF TransitInv, PathInv
<1>5. FlowInv'
  <2>1. ASSUME NEW d \in Dests PROVE last[d] <= cur'.id
    <3>1. last[d] \in Int /\ last[d] <= cur.id
      BY <1>1 DEF MsgIds, TransitInv, FlowInv
    <3> QED BY <1>1, <3>1
  <2> QED BY <2>1 DEF TransitInv, FlowInv
<1>6. CopiesInv'
  <2>1. ASSUME NEW k \in MsgIds PROVE delivered[k] <= Attempts(k)'
    <3>1. delivered[k] \in Nat /\ delivered[k] <= Attempts(k)
      BY <1>1 DEF TransitInv, CopiesInv
    <3> QED BY <1>2, <3>1
  <2>2. ASSUME NEW d \in Dests, NEW i \in 1 .. Len(data[d]), NEW j \in 1 .. i,
               data[d][j].id = data[d][i].id
        PROVE  delivered[data[d][i].id] + (i - j + 1) <= Attempts(data[d][i].id)'
    <3>1. PICK k \in MsgIds : k = data[d][i].id
      BY <1>3
    <3>2. delivered[k] \in Nat /\ delivered[k] + (i - j + 1) <= Attempts(k)
      BY <1>1, <2>2, <3>1 DEF TransitInv, CopiesInv
    <3>3. delivered[k] + (i - j + 1) <= Attempts(k)'
      BY <1>2, <3>2
    <3> QED BY <3>1, <3>3
  <2> QED BY <2>1, <2>2 DEF CopiesInv
<1> QED BY <1>4, <1>5, <1>6 DEF TransitInv

\* The types of what is on the paths and was delivered.
LEMMA PathTypes ==
  ASSUME TransitInv
  PROVE  /\ cur.id \in Int /\ data \in [Dests -> Seq(Packet)]
         /\ last \in [Dests -> MsgIds \cup {-1}] /\ delivered \in [MsgIds -> Nat]
<1>1. TypeInv
  BY DEF TransitInv
<1>2. /\ data \in [Dests -> Seq(Packet)]
      /\ last \in [Dests -> MsgIds \cup {-1}] /\ delivered \in [MsgIds -> Nat]
  BY <1>1 DEF TypeInv, TypeOK
<1>3. cur.id \in Int
  BY <1>1, CurId DEF MsgIds
<1> QED BY <1>2, <1>3

\* A path that loses its first frame, or that hands it over.
LEMMA TransitTaken ==
  ASSUME TransitInv, TypeInv', QueueInv', NEW d \in Dests, data[d] # << >>,
         data' = [data EXCEPT ![d] = Tail(@)],
         UNCHANGED <<cur, spc, tries>>,
         \/ UNCHANGED <<delivered, last>>
         \/ /\ delivered' = [delivered EXCEPT ![Head(data[d]).id] = @ + 1]
            /\ last' = [last EXCEPT ![d] = Head(data[d]).id]
  PROVE  TransitInv'
<1>1. /\ cur.id \in Int /\ data \in [Dests -> Seq(Packet)]
      /\ last \in [Dests -> MsgIds \cup {-1}] /\ delivered \in [MsgIds -> Nat]
  BY PathTypes
<1>2. \A k \in MsgIds : Attempts(k) \in Int /\ Attempts(k)' = Attempts(k)
  BY MaxRetxAssumption DEF Attempts, TransitInv, TypeInv, TypeOK
<1>3. PICK h : h = Head(data[d]).id
  OBVIOUS
<1>4. /\ 1 \in 1 .. Len(data[d]) /\ h = data[d][1].id /\ h \in MsgIds /\ h \in Int
      /\ data[d] \in Seq(Packet)
  <2>1. data[d] \in Seq(Packet) /\ data[d] # << >>
    BY <1>1
  <2>2. Head(data[d]) = data[d][1] /\ data[d][1] \in Packet /\ 1 \in 1 .. Len(data[d])
    BY <2>1
  <2> QED BY <1>3, <2>1, <2>2 DEF Packet, MsgIds
<1>5. ASSUME NEW e \in Dests, NEW i \in 1 .. Len(data[e])
      PROVE  data[e][i].id \in MsgIds /\ data[e][i].id \in Int
  <2>1. data[e][i] \in Packet
    BY <1>1
  <2> QED BY <2>1 DEF Packet, MsgIds
<1>6. ASSUME NEW e \in Dests, NEW i \in 1 .. Len(data'[e])
      PROVE  IF e = d THEN i + 1 \in 1 .. Len(data[e]) /\ data'[e][i] = data[e][i + 1]
                      ELSE i \in 1 .. Len(data[e]) /\ data'[e][i] = data[e][i]
  BY <1>1
<1>7. PathInv'
  <2>1. ASSUME NEW e \in Dests, NEW i \in 1 .. Len(data'[e])
        PROVE  /\ data'[e][i].id <= cur'.id
               /\ data'[e][i].id = cur'.id => e = cur'.dest
    <3>1. PICK x \in 1 .. Len(data[e]) : data'[e][i] = data[e][x]
      BY <1>6
    <3> QED BY <3>1 DEF TransitInv, PathInv
  <2>2. ASSUME NEW e \in Dests, NEW f \in Dests, NEW i \in 1 .. Len(data'[e]),
               NEW j \in 1 .. Len(data'[f]), data'[e][i].id = data'[f][j].id
        PROVE  e = f
    <3>1. PICK x \in 1 .. Len(data[e]) : data'[e][i] = data[e][x]
      BY <1>6
    <3>2. PICK y \in 1 .. Len(data[f]) : data'[f][j] = data[f][y]
      BY <1>6
    <3> QED BY <2>2, <3>1, <3>2 DEF TransitInv, PathInv
  <2> QED BY <2>1, <2>2 DEF PathInv
<1>8. FlowInv'
  <2>1. ASSUME NEW e \in Dests PROVE last'[e] <= cur.id
    <3>1. last[e] <= cur.id /\ h <= cur.id
      BY <1>4 DEF TransitInv, FlowInv, PathInv
    <3> QED BY <1>1, <1>3, <3>1
  <2>2. ASSUME NEW e \in Dests, NEW i \in 1 .. Len(data'[e]) PROVE last'[e] <= data'[e][i].id
    <3>1. PICK x \in 1 .. Len(data[e]) : data'[e][i] = data[e][x]
      BY <1>6
    <3>2. last[e] <= data[e][x].id
      BY DEF TransitInv, FlowInv
    <3>3. CASE e = d /\ last'[d] = h
      <4>1. 1 \in 1 .. x
        OBVIOUS
      <4>2. data[d][1].id <= data[d][x].id
        BY <3>3, <4>1 DEF TransitInv, FlowInv
      <4> QED BY <1>4, <3>1, <3>3, <4>2
    <3>4. CASE last'[e] = last[e]
      BY <3>1, <3>2, <3>4
    <3> QED BY <1>1, <1>3, <3>3, <3>4
  <2>3. ASSUME NEW e \in Dests, NEW i \in 1 .. Len(data'[e]), NEW j \in 1 .. i
        PROVE  data'[e][j].id <= data'[e][i].id
    <3>1. j \in 1 .. Len(data'[e])
      BY <1>1
    <3>2. CASE e = d
      <4>1. /\ i + 1 \in 1 .. Len(data[e]) /\ data'[e][i] = data[e][i + 1]
            /\ data'[e][j] = data[e][j + 1] /\ j + 1 \in 1 .. i + 1
        BY <1>6, <3>1, <3>2
      <4> QED BY <4>1 DEF TransitInv, FlowInv
    <3>3. CASE e # d
      <4>1. /\ i \in 1 .. Len(data[e]) /\ data'[e][i] = data[e][i]
            /\ data'[e][j] = data[e][j]
        BY <1>6, <3>1, <3>3
      <4> QED BY <4>1 DEF TransitInv, FlowInv
    <3> QED BY <3>2, <3>3
  <2> QED BY <2>1, <2>2, <2>3 DEF FlowInv
<1>9. \A k \in MsgIds : delivered'[k] = delivered[k] \/ (k = h /\ delivered'[k] = delivered[k] + 1)
  BY <1>1, <1>3, <1>4
<1>10. CopiesInv'
  <2>1. ASSUME NEW k \in MsgIds PROVE delivered'[k] <= Attempts(k)'
    <3>1. CASE delivered'[k] = delivered[k]
      BY <1>2, <3>1 DEF TransitInv, CopiesInv
    <3>2. CASE k = h /\ delivered'[k] = delivered[k] + 1
      <4>1. 1 \in 1 .. 1
        OBVIOUS
      <4>2. delivered[h] + (1 - 1 + 1) <= Attempts(h)
        BY <1>4, <4>1 DEF TransitInv, CopiesInv
      <4> QED BY <1>1, <1>2, <1>4, <3>2, <4>2
    <3> QED BY <1>9, <3>1, <3>2
  <2>2. ASSUME NEW e \in Dests, NEW i \in 1 .. Len(data'[e]), NEW j \in 1 .. i,
               data'[e][j].id = data'[e][i].id
        PROVE  (delivered[data[e][i].id] + (i - j + 1) <= Attempts(data[e][i].id))'
    <3>1. j \in 1 .. Len(data'[e])
      BY <1>1
    <3>2. CASE e = d
      <4>1. /\ i + 1 \in 1 .. Len(data[e]) /\ data'[e][i] = data[e][i + 1]
            /\ data'[e][j] = data[e][j + 1] /\ j + 1 \in 1 .. i + 1
        BY <1>6, <3>1, <3>2
      <4>2. PICK k \in MsgIds : k = data'[e][i].id
        BY <1>5, <4>1
      <4>3. delivered[k] + ((i + 1) - (j + 1) + 1) <= Attempts(k)
        BY <2>2, <4>1, <4>2 DEF TransitInv, CopiesInv
      <4>4. CASE delivered'[k] = delivered[k]
        <5>1. delivered'[k] + (i - j + 1) <= Attempts(k)'
          BY <1>1, <1>2, <4>3, <4>4
        <5> QED BY <4>2, <5>1
      <4>5. CASE k = h /\ delivered'[k] = delivered[k] + 1
        <5>1. 1 \in 1 .. i + 1 /\ data[d][1].id = data[d][i + 1].id
          BY <1>4, <3>2, <4>1, <4>2, <4>5
        <5>2. delivered[k] + ((i + 1) - 1 + 1) <= Attempts(k)
          BY <3>2, <4>1, <4>2, <5>1 DEF TransitInv, CopiesInv
        <5>3. delivered'[k] + (i - j + 1) <= Attempts(k)'
          BY <1>1, <1>2, <4>5, <5>2
        <5> QED BY <4>2, <5>3
      <4> QED BY <1>9, <4>4, <4>5
    <3>3. CASE e # d
      <4>1. /\ i \in 1 .. Len(data[e]) /\ data'[e][i] = data[e][i]
            /\ data'[e][j] = data[e][j]
        BY <1>6, <3>1, <3>3
      <4>2. PICK k \in MsgIds : k = data'[e][i].id
        BY <1>5, <4>1
      <4>3. delivered[k] + (i - j + 1) <= Attempts(k)
        BY <2>2, <4>1, <4>2 DEF TransitInv, CopiesInv
      <4>4. k # h
        BY <1>4, <3>3, <4>1, <4>2 DEF TransitInv, PathInv
      <4>5. delivered'[k] = delivered[k]
        BY <1>9, <4>4
      <4>6. delivered'[k] + (i - j + 1) <= Attempts(k)'
        BY <1>2, <4>3, <4>5
      <4> QED BY <4>2, <4>6
    <3> QED BY <3>2, <3>3
  <2> QED BY <2>1, <2>2 DEF CopiesInv
<1>11. LoopInv'
  BY DEF TransitInv, LoopInv
<1> QED BY <1>7, <1>8, <1>10, <1>11 DEF TransitInv


\* A transmission: the packet in hand enters its path behind every other, or is lost.
LEMMA TransitSent ==
  ASSUME TransitInv, TypeInv', QueueInv', LoopInv', Publish
  PROVE  TransitInv'
<1>1. /\ cur.id \in MsgIds /\ cur.id \in Int /\ cur \in Packet /\ cur.dest \in Dests
      /\ tries \in Nat /\ data \in [Dests -> Seq(Packet)]
      /\ delivered \in [MsgIds -> Nat]
  <2>1. cur # NoPacket
    BY DEF Publish, TransitInv, TypeInv, PacketInHand
  <2>2. cur \in Packet /\ tries \in Nat /\ data \in [Dests -> Seq(Packet)]
        /\ delivered \in [MsgIds -> Nat]
    BY <2>1 DEF TransitInv, TypeInv, TypeOK
  <2>3. cur.id \in MsgIds /\ cur.dest \in Dests
    BY <2>2 DEF Packet
  <2>4. cur.id \in Int
    BY <2>3 DEF MsgIds
  <2> QED BY <2>2, <2>3, <2>4
<1>2. /\ cur' = cur /\ tries' = tries /\ spc = "publish" /\ spc' = "wait"
      /\ delivered' = delivered /\ last' = last
      /\ data' = data \/ (data' = [data EXCEPT ![cur.dest] = Append(@, cur)])
  BY DEF Publish, Transmit, peerVars
<1>3. \A k \in MsgIds : /\ Attempts(k) \in Int /\ Attempts(k)' \in Int
                        /\ Attempts(k)' >= Attempts(k)
                        /\ k = cur.id => Attempts(k)' = Attempts(k) + 1
  BY <1>1, <1>2, MaxRetxAssumption DEF Attempts, MsgIds
<1>4. CASE data' = data
  <2>1. \A d \in Dests : \A i \in 1 .. Len(data[d]) :
          data[d][i].id = cur'.id => d = cur'.dest
    BY <1>2 DEF TransitInv, PathInv
  <2>2. cur'.id >= cur.id
    BY <1>1, <1>2
  <2> QED BY <1>2, <1>3, <1>4, <2>1, <2>2, TransitElsewhere
<1>5. CASE data' = [data EXCEPT ![cur.dest] = Append(@, cur)]
  <2>1. ASSUME NEW e \in Dests, NEW i \in 1 .. Len(data'[e])
        PROVE  \/ i \in 1 .. Len(data[e]) /\ data'[e][i] = data[e][i]
               \/ e = cur.dest /\ i = Len(data[e]) + 1 /\ data'[e][i] = cur
    BY <1>1, <1>5
  <2>2. ASSUME NEW e \in Dests, NEW i \in 1 .. Len(data[e])
        PROVE  data[e][i].id \in MsgIds /\ data[e][i].id \in Int
    <3>1. data[e][i] \in Packet
      BY <1>1
    <3> QED BY <3>1 DEF Packet, MsgIds
  <2>3. PathInv'
    <3>1. ASSUME NEW e \in Dests, NEW i \in 1 .. Len(data'[e])
          PROVE  /\ data'[e][i].id <= cur'.id
                 /\ data'[e][i].id = cur'.id => e = cur'.dest
      BY <1>1, <1>2, <2>1 DEF TransitInv, PathInv
    <3>2. ASSUME NEW e \in Dests, NEW f \in Dests, NEW i \in 1 .. Len(data'[e]),
                 NEW j \in 1 .. Len(data'[f]), data'[e][i].id = data'[f][j].id
          PROVE  e = f
      <4>1. CASE data'[e][i] = cur \/ data'[f][j] = cur
        BY <1>2, <3>1, <3>2, <4>1
      <4>2. CASE /\ i \in 1 .. Len(data[e]) /\ data'[e][i] = data[e][i]
                 /\ j \in 1 .. Len(data[f]) /\ data'[f][j] = data[f][j]
        BY <3>2, <4>2 DEF TransitInv, PathInv
      <4> QED BY <2>1, <4>1, <4>2
    <3> QED BY <3>1, <3>2 DEF PathInv
  <2>4. FlowInv'
    <3>1. ASSUME NEW e \in Dests PROVE last'[e] <= cur'.id
      BY <1>2 DEF TransitInv, FlowInv
    <3>2. ASSUME NEW e \in Dests, NEW i \in 1 .. Len(data'[e])
          PROVE  last'[e] <= data'[e][i].id
      BY <1>2, <2>1 DEF TransitInv, FlowInv
    <3>3. ASSUME NEW e \in Dests, NEW i \in 1 .. Len(data'[e]), NEW j \in 1 .. i
          PROVE  data'[e][j].id <= data'[e][i].id
      <4>1. j \in 1 .. Len(data'[e])
        BY <1>1
      <4>2. CASE i \in 1 .. Len(data[e]) /\ data'[e][i] = data[e][i]
        <5>1. j \in 1 .. Len(data[e]) /\ data'[e][j] = data[e][j]
          BY <1>1, <2>1, <4>1, <4>2
        <5> QED BY <4>2, <5>1 DEF TransitInv, FlowInv
      <4>3. CASE data'[e][i] = cur
        <5>1. CASE j \in 1 .. Len(data[e]) /\ data'[e][j] = data[e][j]
          BY <4>3, <5>1 DEF TransitInv, PathInv
        <5>2. CASE data'[e][j] = cur
          BY <1>1, <4>3, <5>2
        <5> QED BY <2>1, <4>1, <5>1, <5>2
      <4> QED BY <2>1, <4>2, <4>3
    <3> QED BY <3>1, <3>2, <3>3 DEF FlowInv
  <2>5. CopiesInv'
    <3>1. ASSUME NEW k \in MsgIds PROVE delivered'[k] <= Attempts(k)'
      BY <1>1, <1>2, <1>3 DEF TransitInv, CopiesInv
    <3>2. ASSUME NEW e \in Dests, NEW i \in 1 .. Len(data'[e]), NEW j \in 1 .. i,
                 data'[e][j].id = data'[e][i].id
          PROVE  (delivered[data[e][i].id] + (i - j + 1) <= Attempts(data[e][i].id))'
      <4>1. j \in 1 .. Len(data'[e])
        BY <1>1
      <4>2. CASE i \in 1 .. Len(data[e]) /\ data'[e][i] = data[e][i]
        <5>1. j \in 1 .. Len(data[e]) /\ data'[e][j] = data[e][j]
          BY <1>1, <2>1, <4>1, <4>2
        <5>2. PICK k \in MsgIds : k = data'[e][i].id
          BY <2>2, <4>2
        <5>3. delivered[k] + (i - j + 1) <= Attempts(k)
          BY <3>2, <4>2, <5>1, <5>2 DEF TransitInv, CopiesInv
        <5>4. delivered'[k] + (i - j + 1) <= Attempts(k)'
          BY <1>1, <1>2, <1>3, <5>3
        <5> QED BY <5>2, <5>4
      <4>3. CASE i = Len(data[e]) + 1 /\ data'[e][i] = cur
        <5>1. PICK k \in MsgIds : k = cur.id
          BY <1>1
        <5>2. Len(data[e]) \in Nat /\ delivered[k] \in Nat
          BY <1>1
        <5>3. CASE j = Len(data[e]) + 1
          <6>1. delivered[k] + (i - j + 1) <= Attempts(k)'
            BY <1>3, <4>3, <5>1, <5>2, <5>3 DEF TransitInv, CopiesInv
          <6> QED BY <1>2, <4>3, <5>1, <6>1
        <5>4. CASE j \in 1 .. Len(data[e]) /\ data'[e][j] = data[e][j]
          <6>1. PICK l \in 1 .. Len(data[e]) : l = Len(data[e])
            BY <5>2, <5>4
          <6>2. j \in 1 .. l /\ data[e][j].id = k
            BY <3>2, <4>3, <5>1, <5>4, <6>1
          <6>3. data[e][l].id = k
            <7>1. data[e][j].id <= data[e][l].id /\ data[e][l].id <= cur.id
              BY <6>2 DEF TransitInv, FlowInv, PathInv
            <7> QED BY <1>1, <2>2, <5>1, <6>2, <7>1
          <6>4. delivered[k] + (l - j + 1) <= Attempts(k)
            BY <6>2, <6>3 DEF TransitInv, CopiesInv
          <6>5. delivered[k] + (i - j + 1) <= Attempts(k)'
            BY <1>3, <4>3, <5>1, <5>2, <6>1, <6>4
          <6> QED BY <1>2, <4>3, <5>1, <6>5
        <5> QED BY <2>1, <4>1, <5>3, <5>4
      <4> QED BY <2>1, <4>2, <4>3
    <3> QED BY <3>1, <3>2 DEF CopiesInv
  <2> QED BY <2>3, <2>4, <2>5 DEF TransitInv
<1> QED BY <1>2, <1>4, <1>5

LEMMA NextTransit == TransitInv /\ [Next]_vars => TransitInv'
<1> SUFFICES ASSUME TransitInv, [Next]_vars PROVE TransitInv'
  OBVIOUS
<1>1. /\ TypeInv' /\ QueueInv'
      /\ cur.id \in Int /\ cur'.id \in Int /\ cur'.id >= cur.id
  BY NextTypeInv, NextQueueInv, CurGrows DEF TransitInv
<1>2. tries \in Nat /\ stop \in BOOLEAN /\ MaxRetx \in Nat
  BY MaxRetxAssumption DEF TransitInv, TypeInv, TypeOK
<1>3. CASE Publish
  BY <1>1, <1>3, TransitSent DEF Publish, TransitInv, LoopInv
<1>4. ASSUME UNCHANGED <<data, delivered, last>>, LoopInv', cur' = cur,
             \A k \in MsgIds : Attempts(k)' >= Attempts(k)
      PROVE  TransitInv'
  <2>1. \A d \in Dests : \A i \in 1 .. Len(data[d]) :
          data[d][i].id = cur'.id => d = cur'.dest
    BY <1>4 DEF TransitInv, PathInv
  <2> QED BY <1>1, <1>4, <2>1, TransitElsewhere
<1>5. CASE QueuePop
  <2>1. UNCHANGED <<data, delivered, last>> /\ spc = "pop" /\ spc' = "publish" /\ tries' = 0
    BY <1>5 DEF QueuePop, peerVars
  <2>2. cur'.id = cur.id + 1
    <3>1. queue \in Seq(Packet) /\ queue # << >> /\ cur' = Head(queue)
      BY <1>5 DEF QueuePop, TransitInv, TypeInv, TypeOK
    <3>2. 1 \in 1 .. Len(queue) /\ cur' = queue[1]
      BY <3>1
    <3> QED BY <3>2 DEF TransitInv, QueueInv
  <2>3. \A k \in MsgIds : Attempts(k)' >= Attempts(k)
    BY <1>1, <1>2, <2>1, <2>2 DEF Attempts, MsgIds
  <2>4. ASSUME NEW d \in Dests, NEW i \in 1 .. Len(data[d]) PROVE data[d][i].id # cur'.id
    <3>1. data[d][i].id <= cur.id
      BY DEF TransitInv, PathInv
    <3> QED BY <1>1, <2>2, <3>1
  <2>5. LoopInv'
    BY <1>2, <2>1 DEF LoopInv
  <2> QED BY <1>1, <2>1, <2>3, <2>4, <2>5, TransitElsewhere
<1>6. CASE WaitReturns
  <2>1. /\ UNCHANGED <<data, delivered, last>> /\ cur' = cur /\ spc = "wait"
        /\ tries' = tries + 1
        /\ spc' = (IF tries < MaxRetx /\ ~stop THEN "publish" ELSE "check")
    BY <1>6 DEF WaitReturns, Retransmits, peerVars
  <2>2. tries <= MaxRetx
    BY <2>1 DEF TransitInv, LoopInv
  <2>3. \A k \in MsgIds : Attempts(k)' >= Attempts(k)
    BY <1>1, <1>2, <2>1, <2>2 DEF Attempts, MsgIds
  <2>4. LoopInv'
    BY <1>2, <2>1, <2>2 DEF LoopInv
  <2> QED BY <1>4, <2>1, <2>3, <2>4
<1>7. CASE ClearStop \/ CheckStop \/ CountTimeout
  <2>1. /\ UNCHANGED <<data, delivered, last>> /\ cur' = cur /\ tries' = tries
        /\ spc \notin {"publish", "wait"} /\ spc' \notin {"publish", "wait"}
    BY <1>7 DEF ClearStop, CheckStop, CountTimeout, peerVars
  <2>2. \A k \in MsgIds : Attempts(k)' >= Attempts(k)
    BY <1>1, <1>2, <2>1 DEF Attempts, MsgIds
  <2>3. LoopInv'
    BY <2>1 DEF LoopInv
  <2> QED BY <1>4, <2>1, <2>2, <2>3
<1>8. CASE UNCHANGED <<data, delivered, last, cur, spc, tries>>
  <2>1. \A k \in MsgIds : Attempts(k)' >= Attempts(k)
    BY <1>1, <1>2, <1>8 DEF Attempts, MsgIds
  <2>2. LoopInv'
    BY <1>8 DEF TransitInv, LoopInv
  <2> QED BY <1>4, <1>8, <2>1, <2>2
<1>9. ASSUME NEW d \in Dests, UnpackData(d) \/ LoseData(d) PROVE TransitInv'
  <2>1. /\ data[d] # << >> /\ data' = [data EXCEPT ![d] = Tail(@)]
        /\ UNCHANGED <<cur, spc, tries>>
        /\ \/ UNCHANGED <<delivered, last>>
           \/ /\ delivered' = [delivered EXCEPT ![Head(data[d]).id] = @ + 1]
              /\ last' = [last EXCEPT ![d] = Head(data[d]).id]
    BY <1>9 DEF UnpackData, LoseData, senderVars, peerVars
  <2> QED BY <1>1, <2>1, TransitTaken
<1> QED
  BY <1>3, <1>5, <1>6, <1>7, <1>8, <1>9
  DEF Next, HandlerThread, SenderThread, Pack, PackEof, IgnoreAck, AcceptAck,
      StopSender, CountAck, LoseAck, Quiescent, vars, senderVars, peerVars

\* What is on the way is in order and no more than was transmitted, under any
\* interleaving and whatever is lost.
THEOREM Transit == Spec => []TransitInv
  BY InitTransit, NextTransit, PTL DEF Spec

\* One packet costs at most 1 + d_retxs transmissions (the loop of thread_func): the
\* application of a destination is handed a payload at most that often.
THEOREM DuplicatesBounded == Spec => []BoundedDuplicates
<1>1. TransitInv => BoundedDuplicates
  <2> SUFFICES ASSUME TransitInv, NEW k \in MsgIds PROVE delivered[k] <= MaxRetx + 1
    BY DEF BoundedDuplicates
  <2>1. tries \in Nat /\ delivered[k] \in Nat /\ delivered[k] <= Attempts(k)
    BY DEF TransitInv, TypeInv, TypeOK, CopiesInv
  <2>2. Attempts(k) <= MaxRetx + 1
    BY <2>1, MaxRetxAssumption DEF Attempts, TransitInv, LoopInv
  <2> QED BY <2>1, <2>2, MaxRetxAssumption DEF Attempts
<1> QED BY <1>1, Transit, PTL

\* No application gets an older payload after a newer one: queue_pop, the one packet
\* in hand and the first-in-first-out path keep the order packed, with no timing
\* assumption.
THEOREM DeliveredInOrder == Spec => InOrder
<1>1. ASSUME TransitInv, [Next]_vars, NEW d \in Dests PROVE last'[d] >= last[d]
  <2>1. last \in [Dests -> MsgIds \cup {-1}] /\ data \in [Dests -> Seq(Packet)]
    BY <1>1 DEF TransitInv, TypeInv, TypeOK
  <2>2. last[d] \in Int
    BY <2>1 DEF MsgIds
  <2>3. ASSUME NEW e \in Dests, UnpackData(e) PROVE last'[d] >= last[d]
    <3>1. data[e] \in Seq(Packet) /\ data[e] # << >>
      BY <2>1, <2>3 DEF UnpackData
    <3>2. 1 \in 1 .. Len(data[e]) /\ Head(data[e]) = data[e][1]
      BY <3>1
    <3>3. last[e] <= Head(data[e]).id
      BY <1>1, <3>2 DEF TransitInv, FlowInv
    <3>4. last' = [last EXCEPT ![e] = Head(data[e]).id]
      BY <2>3 DEF UnpackData
    <3>5. Head(data[e]).id \in Int
      <4>1. Head(data[e]) \in Packet
        BY <3>1
      <4> QED BY <4>1 DEF Packet, MsgIds
    <3> QED BY <2>1, <2>2, <3>3, <3>4, <3>5
  <2>4. CASE last' = last
    BY <2>2, <2>4
  <2> QED
    BY <1>1, <2>3, <2>4
    DEF Next, HandlerThread, SenderThread, Pack, PackEof, IgnoreAck, AcceptAck,
        StopSender, CountAck, ClearStop, QueuePop, Publish, WaitReturns, CheckStop,
        CountTimeout, LoseData, LoseAck, Quiescent, vars, peerVars
<1>2. TransitInv /\ [Next]_vars => [\A d \in Dests : last'[d] >= last[d]]_vars
  BY <1>1
<1>3. [][\A d \in Dests : last'[d] >= last[d]]_vars <=> InOrder
  BY DEF InOrder
<1> QED BY <1>2, <1>3, Transit, PTL DEF Spec
=============================================================================
