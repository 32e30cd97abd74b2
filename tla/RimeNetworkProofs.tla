------------------------- MODULE RimeNetworkProofs -------------------------
(***************************************************************************)
(* Theorems about RimeNetwork, for any number of nodes, any configuration  *)
(* their channels agree on, and any bounds.                                *)
(***************************************************************************)
EXTENDS RimeNetwork, Lemmas, SequenceTheorems

-----------------------------------------------------------------------------
(***************************************************************************)
(* What is written into a runicast header is what unpack reads from it.    *)
(***************************************************************************)

\* The low three bits of a byte, moved to the top of one byte, and the other five,
\* at the bottom of the byte before, are the byte again.
LEMMA JoinedBytes ==
  ASSUME NEW b \in Byte, NEW above \in 0 .. 7, NEW below \in 0 .. 31
  PROVE  Joined(above * 32 + HighFive(b), LowThree(b) + below) = b
<1>1. b \in 0 .. 255
  BY DEF Byte
<1>2. ((above * 32 + HighFive(b)) * 8) % 256 = HighFive(b) * 8
  BY <1>1 DEF HighFive
<1>3. (LowThree(b) + below) \div 32 = b % 8
  BY <1>1 DEF LowThree
<1>4. QED
  BY <1>1, <1>2, <1>3 DEF Joined, HighFive

\* The two parts every inner byte of the header is made of.
LEMMA Parts ==
  ASSUME NEW b \in Byte
  PROVE  /\ HighFive(b) \in 0 .. 31
         /\ LowThree(b) = (b % 8) * 32
         /\ b % 8 \in 0 .. 7
BY DEF Byte, HighFive, LowThree

\* The bytes after the channel number.
LEMMA AfterChannel ==
  ASSUME NEW c, NEW d, NEW e, NEW f, NEW g, NEW h, NEW k,
         NEW buf, buf = <<c, d>> \o <<e, f, g, h, k>>
  PROVE  buf[3] = e /\ buf[4] = f /\ buf[5] = g /\ buf[6] = h /\ buf[7] = k
<1> DEFINE U == {c, d, e, f, g, h, k}
<1>1. <<c, d>> \in Seq(U) /\ <<e, f, g, h, k>> \in Seq(U)
  OBVIOUS
<1>2. Len(<<c, d>>) = 2 /\ Len(<<e, f, g, h, k>>) = 5
  OBVIOUS
<1> HIDE DEF U
<1>3. QED
  BY <1>1, <1>2

\* ruc_connection::make_msgbuf and ruc_connection::unpack agree, though they are
\* written apart and the addresses straddle bytes: for all addresses, all channels
\* and all sequence numbers of seqno_bits = 2 bits, unpack reads the target, the
\* sender, the acknowledgement flag and the number that were written.
THEOREM RucRoundTrip ==
  ASSUME NEW channel \in Channel, NEW ack \in BOOLEAN, NEW seqno \in 0 .. 3,
         NEW src \in Address, NEW dest \in Address
  PROVE  /\ RucTarget(RucHeader(channel, ack, seqno, src, dest)) = dest
         /\ RucSender(RucHeader(channel, ack, seqno, src, dest)) = src
         /\ RucIsAck(RucHeader(channel, ack, seqno, src, dest)) <=> ack
         /\ RucSeqno(RucHeader(channel, ack, seqno, src, dest)) = seqno
<1> DEFINE buf == RucHeader(channel, ack, seqno, src, dest)
<1>0. buf = RucHeader(channel, ack, seqno, src, dest)
  OBVIOUS
<1> HIDE DEF buf
<1> DEFINE flag == IF ack THEN 4 ELSE 0
<1>1. /\ src[1] \in Byte /\ src[2] \in Byte /\ src = <<src[1], src[2]>>
      /\ dest[1] \in Byte /\ dest[2] \in Byte /\ dest = <<dest[1], dest[2]>>
  BY DEF Address
<1>2. flag + seqno \in 0 .. 7
  OBVIOUS
<1>3. /\ buf[3] = (flag + seqno) * 32 + HighFive(dest[1])
      /\ buf[4] = LowThree(dest[1]) + HighFive(dest[2])
      /\ buf[5] = LowThree(dest[2]) + HighFive(src[1])
      /\ buf[6] = LowThree(src[1]) + HighFive(src[2])
      /\ buf[7] = LowThree(src[2]) + 0
  <2>1. /\ buf[3] = (IF ack THEN 128 ELSE 0) + seqno * 32 + HighFive(dest[1])
        /\ buf[4] = LowThree(dest[1]) + HighFive(dest[2])
        /\ buf[5] = LowThree(dest[2]) + HighFive(src[1])
        /\ buf[6] = LowThree(src[1]) + HighFive(src[2])
        /\ buf[7] = LowThree(src[2])
    <3>1. buf = <<channel % 256, (channel \div 256) % 256>> \o
                << (IF ack THEN 128 ELSE 0) + seqno * 32 + HighFive(dest[1]),
                   LowThree(dest[1]) + HighFive(dest[2]),
                   LowThree(dest[2]) + HighFive(src[1]),
                   LowThree(src[1]) + HighFive(src[2]),
                   LowThree(src[2]) >>
      BY <1>0 DEF RucHeader, ChannelBytes
    <3>2. QED
      BY ONLY <3>1, AfterChannel
  <2>2. (IF ack THEN 128 ELSE 0) + seqno * 32 = (flag + seqno) * 32
    OBVIOUS
  <2>3. LowThree(src[2]) \in Int
    BY <1>1 DEF Byte, LowThree
  <2>4. QED
    BY <2>1, <2>2, <2>3
<1>4. RucTarget(buf) = dest
  <2>1. Joined(buf[3], buf[4]) = dest[1]
    BY <1>1, <1>2, <1>3, Parts, JoinedBytes
  <2>2. Joined(buf[4], buf[5]) = dest[2]
    BY <1>1, <1>3, Parts, JoinedBytes
  <2>3. QED
    BY <1>1, <2>1, <2>2 DEF RucTarget
<1>5. RucSender(buf) = src
  <2>1. Joined(buf[5], buf[6]) = src[1]
    BY <1>1, <1>3, Parts, JoinedBytes
  <2>2. Joined(buf[6], buf[7]) = src[2]
    <3>1. 0 \in 0 .. 31
      OBVIOUS
    <3>2. QED
      BY <1>1, <1>3, <3>1, Parts, JoinedBytes
  <2>3. QED
    BY <1>1, <2>1, <2>2 DEF RucSender
<1>6. /\ RucIsAck(buf) <=> ack
      /\ RucSeqno(buf) = seqno
  <2>1. HighFive(dest[1]) \in 0 .. 31
    BY <1>1, Parts
  <2>2. RucIsAck(buf) <=> ack
    BY <1>3, <2>1 DEF RucIsAck
  <2>3. RucSeqno(buf) = seqno
    BY <1>3, <2>1 DEF RucSeqno
  <2>4. QED
    BY <2>2, <2>3
<1>7. QED
  BY <1>0, <1>4, <1>5, <1>6

-----------------------------------------------------------------------------
(***************************************************************************)
(* The bytes of a message and of an acknowledgement.                       *)
(***************************************************************************)

Connection == [kind : Kinds, channel : Channel]
Message == [from : Node, conn : Connection, to : Address, seqno : 0 .. (SeqMod - 1)]

HeaderOf(m) ==
  CASE m.conn.kind = "bc"  -> BcHeader(m.conn.channel, m.from)
    [] m.conn.kind = "uc"  -> UcHeader(m.conn.channel, m.from, m.to)
    [] m.conn.kind = "ruc" -> RucHeader(m.conn.channel, FALSE, m.seqno, m.from, m.to)

\* Message k, and the acknowledgement its target answers with.
DataBlob(m, k) == HeaderOf(m) \o <<k>>
AckBlob(m) == RucHeader(m.conn.channel, TRUE, m.seqno, m.to, m.from)

\* b begins with a channel number.
Begins(b, channel) == b[1] = channel % 256 /\ b[2] = (channel \div 256) % 256

LEMMA MessageParts ==
  ASSUME NEW m \in Message
  PROVE  /\ m.from \in Address /\ m.to \in Address /\ m.from \in Node
         /\ m.conn \in Connection /\ m.conn.channel \in Channel /\ m.conn.kind \in Kinds
         /\ m.seqno \in 0 .. 3
BY NodeAssumption DEF Message, Connection, SeqMod

LEMMA Prefixed ==
  ASSUME NEW c \in Byte, NEW d \in Byte, NEW t \in Blob
  PROVE  <<c, d>> \o t \in Blob /\ Len(<<c, d>> \o t) = Len(t) + 2
<1> DEFINE b == <<c, d>> \o t
<1>1. <<c, d>> \in Blob /\ Len(<<c, d>>) = 2
  BY DEF Blob
<1>2. Len(t) \in Nat
  BY LenProperties DEF Blob
<1>3. b \in Blob /\ Len(b) = 2 + Len(t)
  BY <1>1, ConcatProperties DEF Blob
<1> HIDE DEF b
<1>4. b \in Blob /\ Len(b) = Len(t) + 2
  BY <1>2, <1>3
<1>5. QED
  BY <1>4 DEF b

LEMMA PrefixedAt ==
  ASSUME NEW c \in Byte, NEW d \in Byte, NEW t \in Blob
  PROVE  /\ (<<c, d>> \o t)[1] = c /\ (<<c, d>> \o t)[2] = d
         /\ Len(t) >= 2 => (<<c, d>> \o t)[3] = t[1] /\ (<<c, d>> \o t)[4] = t[2]
<1> DEFINE b == <<c, d>> \o t
<1>1. <<c, d>> \in Blob /\ Len(<<c, d>>) = 2 /\ <<c, d>>[1] = c /\ <<c, d>>[2] = d
  BY DEF Blob
<1>2. Len(t) \in Nat
  BY LenProperties DEF Blob
<1>3. \A i \in 1 .. (2 + Len(t)) : b[i] = IF i <= 2 THEN <<c, d>>[i] ELSE t[i - 2]
  BY <1>1, ConcatProperties DEF Blob
<1> HIDE DEF b
<1>4. b[1] = c /\ b[2] = d /\ (Len(t) >= 2 => b[3] = t[1] /\ b[4] = t[2])
  BY <1>1, <1>2, <1>3
<1>5. QED
  BY <1>4 DEF b

LEMMA ChannelInBytes ==
  ASSUME NEW channel \in Channel
  PROVE  channel % 256 \in Byte /\ (channel \div 256) % 256 \in Byte
<1>1. channel \in Int
  BY DEF Channel
<1>2. channel % 256 \in 0 .. 255
  BY <1>1
<1>3. channel \div 256 \in Int
  BY <1>1
<1>4. (channel \div 256) % 256 \in 0 .. 255
  BY <1>3
<1>5. QED
  BY <1>2, <1>4 DEF Byte

\* The bytes of the headers are bytes, the first two being the channel number.
LEMMA BcHeaderBytes ==
  ASSUME NEW channel \in Channel, NEW src \in Address
  PROVE  /\ BcHeader(channel, src) \in Blob /\ Len(BcHeader(channel, src)) = 4
         /\ Begins(BcHeader(channel, src), channel)
<1> DEFINE h == BcHeader(channel, src)
           c1 == channel % 256
           c2 == (channel \div 256) % 256
           t == <<src[1], src[2]>>
<1>1. c1 \in Byte /\ c2 \in Byte
  BY ChannelInBytes
<1>2. src[1] \in Byte /\ src[2] \in Byte
  BY DEF Address
<1>3. t \in Blob /\ Len(t) = 2
  BY <1>2 DEF Blob
<1>4. h = <<c1, c2>> \o t
  BY DEF BcHeader, ChannelBytes
<1> HIDE DEF c1, c2, t, h
<1>5. h \in Blob /\ Len(h) = Len(t) + 2
  BY <1>1, <1>3, <1>4, Prefixed
<1>6. h[1] = c1 /\ h[2] = c2
  BY <1>1, <1>3, <1>4, PrefixedAt
<1>7. QED
  BY <1>3, <1>5, <1>6 DEF Begins, c1, c2, h

LEMMA UcHeaderBytes ==
  ASSUME NEW channel \in Channel, NEW src \in Address, NEW dest \in Address
  PROVE  /\ UcHeader(channel, src, dest) \in Blob /\ Len(UcHeader(channel, src, dest)) = 6
         /\ Begins(UcHeader(channel, src, dest), channel)
         /\ UcHeader(channel, src, dest)[3] = dest[1]
         /\ UcHeader(channel, src, dest)[4] = dest[2]
<1> DEFINE h == UcHeader(channel, src, dest)
           c1 == channel % 256
           c2 == (channel \div 256) % 256
           t == <<dest[1], dest[2], src[1], src[2]>>
<1>1. c1 \in Byte /\ c2 \in Byte
  BY ChannelInBytes
<1>2. /\ src[1] \in Byte /\ src[2] \in Byte
      /\ dest[1] \in Byte /\ dest[2] \in Byte
  BY DEF Address
<1>3. t \in Blob /\ Len(t) = 4 /\ t[1] = dest[1] /\ t[2] = dest[2]
  BY <1>2 DEF Blob
<1>4. h = <<c1, c2>> \o t
  BY DEF UcHeader, ChannelBytes
<1> HIDE DEF c1, c2, t, h
<1>5. h \in Blob /\ Len(h) = Len(t) + 2
  BY <1>1, <1>3, <1>4, Prefixed
<1>6. h[1] = c1 /\ h[2] = c2 /\ h[3] = t[1] /\ h[4] = t[2]
  <2>1. t \in Blob /\ Len(t) >= 2
    BY <1>3
  <2>2. /\ (<<c1, c2>> \o t)[1] = c1 /\ (<<c1, c2>> \o t)[2] = c2
        /\ Len(t) >= 2 => (<<c1, c2>> \o t)[3] = t[1] /\ (<<c1, c2>> \o t)[4] = t[2]
    BY <1>1, <2>1, PrefixedAt
  <2>3. QED
    BY <1>4, <2>1, <2>2
<1>7. QED
  BY <1>3, <1>5, <1>6 DEF Begins, c1, c2, h

LEMMA RucHeaderBytes ==
  ASSUME NEW channel \in Channel, NEW ack \in BOOLEAN, NEW seqno \in 0 .. 3,
         NEW src \in Address, NEW dest \in Address
  PROVE  /\ RucHeader(channel, ack, seqno, src, dest) \in Blob
         /\ Len(RucHeader(channel, ack, seqno, src, dest)) = 7
         /\ Begins(RucHeader(channel, ack, seqno, src, dest), channel)
<1> DEFINE h == RucHeader(channel, ack, seqno, src, dest)
           c1 == channel % 256
           c2 == (channel \div 256) % 256
           r1 == (IF ack THEN 128 ELSE 0) + seqno * 32 + HighFive(dest[1])
           r2 == LowThree(dest[1]) + HighFive(dest[2])
           r3 == LowThree(dest[2]) + HighFive(src[1])
           r4 == LowThree(src[1]) + HighFive(src[2])
           r5 == LowThree(src[2])
           t == <<r1, r2, r3, r4, r5>>
<1>1. c1 \in Byte /\ c2 \in Byte
  BY ChannelInBytes
<1>2. /\ src[1] \in Byte /\ src[2] \in Byte
      /\ dest[1] \in Byte /\ dest[2] \in Byte
  BY DEF Address
<1>3. r1 \in Byte /\ r2 \in Byte /\ r3 \in Byte /\ r4 \in Byte /\ r5 \in Byte
  <2>1. ASSUME NEW b \in Byte
        PROVE  HighFive(b) \in 0 .. 31 /\ LowThree(b) \in 0 .. 224
    <3>1. b % 8 \in 0 .. 7 /\ LowThree(b) = (b % 8) * 32 /\ HighFive(b) \in 0 .. 31
      BY Parts
    <3>2. QED
      BY <3>1
  <2>2. (IF ack THEN 128 ELSE 0) + seqno * 32 \in 0 .. 224
    OBVIOUS
  <2>3. r1 \in 0 .. 255
    BY <1>2, <2>1, <2>2
  <2>4. ASSUME NEW a \in Byte, NEW b \in Byte
        PROVE  LowThree(a) + HighFive(b) \in Byte /\ LowThree(a) \in Byte
    <3>1. LowThree(a) \in 0 .. 224 /\ HighFive(b) \in 0 .. 31
      BY <2>1
    <3>2. LowThree(a) + HighFive(b) \in 0 .. 255 /\ LowThree(a) \in 0 .. 255
      BY <3>1
    <3>3. QED
      BY <3>2 DEF Byte
  <2>5. QED
    BY <1>2, <2>3, <2>4 DEF Byte
<1>4. h = <<c1, c2>> \o t
  BY DEF RucHeader, ChannelBytes
<1> HIDE DEF c1, c2, r1, r2, r3, r4, r5
<1>5. t \in Blob /\ Len(t) = 5
  BY <1>3 DEF Blob
<1> HIDE DEF t, h
<1>6. h \in Blob /\ Len(h) = Len(t) + 2
  BY <1>1, <1>4, <1>5, Prefixed
<1>7. h[1] = c1 /\ h[2] = c2
  BY <1>1, <1>4, <1>5, PrefixedAt
<1>8. QED
  BY <1>5, <1>6, <1>7 DEF Begins, c1, c2, h

\* A payload byte after a header: the header's bytes stay where they are, and what
\* follows the header is the payload.
LEMMA Payloaded ==
  ASSUME NEW h \in Blob, NEW k \in Byte
  PROVE  /\ h \o <<k>> \in Blob /\ Len(h \o <<k>>) = Len(h) + 1
         /\ (h \o <<k>>)[Len(h \o <<k>>)] = k /\ h \o <<k>> # Eof
         /\ \A i \in 1 .. Len(h) : (h \o <<k>>)[i] = h[i]
         /\ Rest(h \o <<k>>, Len(h)) = <<k>>
<1> DEFINE b == h \o <<k>>
<1>1. <<k>> \in Blob /\ Len(<<k>>) = 1 /\ <<k>>[1] = k
  BY DEF Blob
<1>2. Len(h) \in Nat
  BY LenProperties DEF Blob
<1>3. /\ b \in Blob /\ Len(b) = Len(h) + 1
      /\ \A i \in 1 .. (Len(h) + 1) : b[i] = IF i <= Len(h) THEN h[i] ELSE <<k>>[i - Len(h)]
  BY <1>1, ConcatProperties DEF Blob
<1>4. \A i \in 1 .. Len(h) : b[i] = h[i]
  BY <1>2, <1>3
<1>5. b[Len(h) + 1] = k
  <2>1. Len(h) + 1 \in 1 .. (Len(h) + 1) /\ ~ (Len(h) + 1 <= Len(h)) /\ (Len(h) + 1) - Len(h) = 1
    BY <1>2
  <2>2. QED
    BY <1>1, <1>3, <2>1
<1>6. Rest(b, Len(h)) = <<k>>
  <2> DEFINE r == SubSeq(b, Len(h) + 1, Len(h) + 1)
  <2>1. \A i \in (Len(h) + 1) .. (Len(h) + 1) : b[i] \in Byte
    BY <1>2, <1>5
  <2>2. /\ r \in Seq(Byte)
        /\ Len(r) = 1
        /\ r[1] = b[Len(h) + 1]
    <3>1. /\ r \in Seq(Byte)
          /\ Len(r) = IF Len(h) + 1 <= Len(h) + 1 THEN (Len(h) + 1) - (Len(h) + 1) + 1 ELSE 0
          /\ \A i \in 1 .. (Len(h) + 1) - (Len(h) + 1) + 1 : r[i] = b[(Len(h) + 1) + i - 1]
      BY <1>2, <2>1, SubSeqProperties
    <3>2. (Len(h) + 1) - (Len(h) + 1) + 1 = 1 /\ (Len(h) + 1) + 1 - 1 = Len(h) + 1
      BY <1>2
    <3>3. QED
      BY <1>2, <3>1, <3>2
  <2> HIDE DEF r
  <2>3. r = <<k>>
    <3>1. r \in Seq(Byte) /\ <<k>> \in Seq(Byte) /\ Len(r) = Len(<<k>>)
      BY <1>1, <2>2 DEF Blob
    <3>2. \A i \in 1 .. Len(r) : r[i] = <<k>>[i]
      BY <1>1, <1>5, <2>2
    <3>3. QED
      BY ONLY <3>1, <3>2, SeqEqual
  <2>4. QED
    BY <1>3, <2>3 DEF Rest, r
<1>7. b # Eof
  BY <1>2, <1>3 DEF Eof
<1>8. QED
  BY <1>3, <1>4, <1>5, <1>6, <1>7


\* The parts of RucRoundTrip, one by one.
LEMMA SeqnoRead ==
  ASSUME NEW channel \in Channel, NEW ack \in BOOLEAN, NEW seqno, seqno \in 0 .. 3,
         NEW src \in Address, NEW dest \in Address
  PROVE  RucSeqno(RucHeader(channel, ack, seqno, src, dest)) = seqno
BY RucRoundTrip

LEMMA TargetRead ==
  ASSUME NEW channel \in Channel, NEW ack \in BOOLEAN, NEW seqno \in 0 .. 3,
         NEW src \in Address, NEW dest \in Address
  PROVE  RucTarget(RucHeader(channel, ack, seqno, src, dest)) = dest
BY RucRoundTrip

LEMMA SenderRead ==
  ASSUME NEW channel \in Channel, NEW ack \in BOOLEAN, NEW seqno \in 0 .. 3,
         NEW src \in Address, NEW dest \in Address
  PROVE  RucSender(RucHeader(channel, ack, seqno, src, dest)) = src
BY RucRoundTrip

\* What the unpack operations read in a message.
LEMMA HeaderOfBytes ==
  ASSUME NEW m \in Message
  PROVE  /\ HeaderOf(m) \in Blob /\ Begins(HeaderOf(m), m.conn.channel)
         /\ m.conn.kind = "bc" => Len(HeaderOf(m)) = 4
         /\ m.conn.kind = "uc" => Len(HeaderOf(m)) = 6 /\ UcTarget(HeaderOf(m)) = m.to
         /\ m.conn.kind = "ruc" =>
              /\ Len(HeaderOf(m)) = 7
              /\ RucTarget(HeaderOf(m)) = m.to /\ RucSender(HeaderOf(m)) = m.from
              /\ ~ RucIsAck(HeaderOf(m)) /\ RucSeqno(HeaderOf(m)) = m.seqno
<1>1. PICK from, to, channel, seqno, kind, h :
        /\ m.from = from /\ m.to = to /\ m.conn.channel = channel /\ m.seqno = seqno
        /\ m.conn.kind = kind /\ HeaderOf(m) = h
  OBVIOUS
<1>2. /\ from \in Address /\ to \in Address /\ channel \in Channel
      /\ seqno \in 0 .. 3 /\ FALSE \in BOOLEAN /\ kind \in Kinds
  BY <1>1, MessageParts
<1>3. CASE kind = "bc"
  <2>1. h = BcHeader(channel, from)
    BY <1>1, <1>3 DEF HeaderOf
  <2>2. h \in Blob /\ Len(h) = 4 /\ Begins(h, channel)
    BY <1>2, <2>1, BcHeaderBytes
  <2>3. QED
    BY <1>1, <1>3, <2>2
<1>4. CASE kind = "uc"
  <2>1. h = UcHeader(channel, from, to)
    BY <1>1, <1>4 DEF HeaderOf
  <2>2. /\ h \in Blob /\ Len(h) = 6 /\ Begins(h, channel)
        /\ h[3] = to[1] /\ h[4] = to[2]
    BY <1>2, <2>1, UcHeaderBytes
  <2>3. UcTarget(h) = to
    BY <1>2, <2>2 DEF UcTarget, Address
  <2>4. QED
    BY <1>1, <1>4, <2>2, <2>3
<1>5. CASE kind = "ruc"
  <2>1. h = RucHeader(channel, FALSE, seqno, from, to)
    BY <1>1, <1>5 DEF HeaderOf
  <2>2. h \in Blob /\ Len(h) = 7 /\ Begins(h, channel)
    BY <1>2, <2>1, RucHeaderBytes
  <2>3. RucTarget(h) = to /\ RucSender(h) = from
    BY <1>2, <2>1, TargetRead, SenderRead
  <2>4. ~ RucIsAck(h)
    BY <1>2, <2>1, RucRoundTrip
  <2>5. RucSeqno(h) = seqno
    BY <1>2, <2>1, SeqnoRead
  <2>6. QED
    BY <1>1, <1>5, <2>2, <2>3, <2>4, <2>5
<1>6. QED
  BY <1>2, <1>3, <1>4, <1>5 DEF Kinds

LEMMA DataBytes ==
  ASSUME NEW m \in Message, NEW k \in Byte
  PROVE  /\ DataBlob(m, k) \in Blob /\ DataBlob(m, k) # Eof
         /\ DataBlob(m, k)[Len(DataBlob(m, k))] = k
         /\ Begins(DataBlob(m, k), m.conn.channel)
         /\ m.conn.kind = "bc" => Rest(DataBlob(m, k), BcHeaderLength) = <<k>>
         /\ m.conn.kind = "uc" =>
              /\ Rest(DataBlob(m, k), UcHeaderLength) = <<k>>
              /\ UcTarget(DataBlob(m, k)) = m.to
         /\ m.conn.kind = "ruc" =>
              /\ Rest(DataBlob(m, k), RucHeaderLength) = <<k>>
              /\ RucTarget(DataBlob(m, k)) = m.to /\ RucSender(DataBlob(m, k)) = m.from
              /\ ~ RucIsAck(DataBlob(m, k)) /\ RucSeqno(DataBlob(m, k)) = m.seqno
<1> DEFINE h == HeaderOf(m)
           b == DataBlob(m, k)
<1>1. /\ h \in Blob /\ Begins(h, m.conn.channel) /\ m.conn.kind \in Kinds
      /\ m.conn.kind = "bc" => Len(h) = 4
      /\ m.conn.kind = "uc" => Len(h) = 6 /\ UcTarget(h) = m.to
      /\ m.conn.kind = "ruc" =>
           /\ Len(h) = 7 /\ RucTarget(h) = m.to /\ RucSender(h) = m.from
           /\ ~ RucIsAck(h) /\ RucSeqno(h) = m.seqno
  BY HeaderOfBytes, MessageParts
<1>2. b = h \o <<k>>
  BY DEF DataBlob
<1> HIDE DEF h, b
<1>10. /\ m.conn.kind \in Kinds
       /\ m.conn.kind = "bc" => Len(h) = 4
       /\ m.conn.kind = "uc" => Len(h) = 6
       /\ m.conn.kind = "ruc" => Len(h) = 7
  BY <1>1
<1>3. /\ b \in Blob /\ Len(b) = Len(h) + 1 /\ b[Len(b)] = k /\ b # Eof
      /\ Rest(b, Len(h)) = <<k>>
  BY <1>1, <1>2, Payloaded
<1>4. \A i \in 1 .. Len(h) : b[i] = h[i]
  BY <1>1, <1>2, Payloaded
<1>5. Begins(b, m.conn.channel)
  <2>1. Len(h) = 4 \/ Len(h) = 6 \/ Len(h) = 7
    BY <1>10 DEF Kinds
  <2>3. 1 \in 1 .. Len(h) /\ 2 \in 1 .. Len(h)
    BY <2>1
  <2>2. QED
    BY <1>1, <1>4, <2>3 DEF Begins
<1>6. ASSUME m.conn.kind = "uc" PROVE UcTarget(b) = m.to
  <2>3. Len(h) = 6
    BY <1>6, <1>10
  <2>1. 3 \in 1 .. Len(h) /\ 4 \in 1 .. Len(h)
    BY <2>3
  <2>2. QED
    BY <1>1, <1>4, <1>6, <2>1 DEF UcTarget
<1>7. ASSUME m.conn.kind = "ruc"
      PROVE  /\ RucTarget(b) = m.to /\ RucSender(b) = m.from
             /\ ~ RucIsAck(b) /\ RucSeqno(b) = m.seqno
  <2>5. Len(h) = 7
    BY <1>7, <1>10
  <2>1. /\ 3 \in 1 .. Len(h) /\ 4 \in 1 .. Len(h) /\ 5 \in 1 .. Len(h)
        /\ 6 \in 1 .. Len(h) /\ 7 \in 1 .. Len(h)
    BY <2>5
  <2>2. b[3] = h[3] /\ b[4] = h[4] /\ b[5] = h[5] /\ b[6] = h[6] /\ b[7] = h[7]
    BY <1>4, <2>1
  <2>3. /\ RucTarget(b) = RucTarget(h) /\ RucSender(b) = RucSender(h)
        /\ RucIsAck(b) = RucIsAck(h) /\ RucSeqno(b) = RucSeqno(h)
    BY <2>2 DEF RucTarget, RucSender, RucIsAck, RucSeqno
  <2>4. QED
    BY <1>1, <1>7, <2>3
<1>8. /\ m.conn.kind = "bc" => Rest(b, BcHeaderLength) = <<k>>
      /\ m.conn.kind = "uc" => Rest(b, UcHeaderLength) = <<k>>
      /\ m.conn.kind = "ruc" => Rest(b, RucHeaderLength) = <<k>>
  BY <1>1, <1>3 DEF BcHeaderLength, UcHeaderLength, RucHeaderLength
<1>9. QED
  BY <1>3, <1>5, <1>6, <1>7, <1>8 DEF b

\* What the unpack operation reads in an acknowledgement.
LEMMA AckBytes ==
  ASSUME NEW m \in Message
  PROVE  /\ AckBlob(m) \in Blob /\ AckBlob(m) # Eof
         /\ Begins(AckBlob(m), m.conn.channel)
         /\ RucTarget(AckBlob(m)) = m.from /\ RucSender(AckBlob(m)) = m.to
         /\ RucIsAck(AckBlob(m)) /\ RucSeqno(AckBlob(m)) = m.seqno
<1>1. PICK from, to, channel, seqno, b :
        /\ m.from = from /\ m.to = to /\ m.conn.channel = channel /\ m.seqno = seqno
        /\ AckBlob(m) = b
  OBVIOUS
<1>2. /\ from \in Address /\ to \in Address /\ channel \in Channel
      /\ seqno \in 0 .. 3 /\ TRUE \in BOOLEAN
  BY <1>1, MessageParts
<1>3. b = RucHeader(channel, TRUE, seqno, to, from)
  BY <1>1 DEF AckBlob
<1>4. b \in Blob /\ Len(b) = 7
  BY <1>2, <1>3, RucHeaderBytes
<1>5. Begins(b, channel)
  BY <1>2, <1>3, RucHeaderBytes
<1>6. RucTarget(b) = from /\ RucSender(b) = to
  BY <1>2, <1>3, TargetRead, SenderRead
<1>7. RucIsAck(b)
  BY <1>2, <1>3, RucRoundTrip
<1>8. RucSeqno(b) = seqno
  BY <1>2, <1>3, SeqnoRead
<1>9. b # Eof
  BY <1>4 DEF Eof
<1>10. QED
  BY <1>1, <1>4, <1>5, <1>6, <1>7, <1>8, <1>9

\* The two bytes tell the channel numbers apart.
LEMMA ChannelRange ==
  ASSUME NEW c \in Channel
  PROVE  c \in Int /\ 0 <= c /\ c <= 65535
BY DEF Channel

LEMMA ChannelsDiffer ==
  ASSUME NEW c \in Channel, NEW d \in Channel, NEW b, Begins(b, c), Begins(b, d)
  PROVE  c = d
<1>1. c \in Int /\ 0 <= c /\ c <= 65535
  BY ChannelRange
<1>2. d \in Int /\ 0 <= d /\ d <= 65535
  BY ChannelRange
<1>3. c = 256 * (c \div 256) + (c % 256) /\ (c \div 256) % 256 = c \div 256
  BY <1>1
<1>4. d = 256 * (d \div 256) + (d % 256) /\ (d \div 256) % 256 = d \div 256
  BY <1>2
<1>5. QED
  BY <1>3, <1>4 DEF Begins

-----------------------------------------------------------------------------
(***************************************************************************)
(* What the bytes decide.                                                  *)
(***************************************************************************)

\* A message that was submitted on a connection of its sender.
Sent == {m \in Message : \E i \in DOMAIN Config[m.from] : Config[m.from][i] = m.conn}

WellFormed(ms) == ms \in Seq(Sent) /\ Len(ms) <= NumMsgs

LEMMA SentIsMessage ==
  ASSUME NEW m \in Sent
  PROVE  /\ m \in Message /\ m.from \in Node
         /\ \E i \in DOMAIN Config[m.from] : Config[m.from][i] = m.conn
BY DEF Sent, Message

LEMMA SentAt ==
  ASSUME NEW ms, WellFormed(ms), NEW k \in DOMAIN ms
  PROVE  k \in Byte /\ k # 0 /\ ms[k] \in Sent
<1>1. ms \in Seq(Sent) /\ Len(ms) <= NumMsgs /\ Len(ms) \in Nat /\ DOMAIN ms = 1 .. Len(ms)
  BY LenProperties DEF WellFormed
<1>2. k \in 1 .. 255
  <2>1. NumMsgs \in 0 .. 255
    BY BoundsAssumption
  <2>2. k \in 1 .. Len(ms)
    BY <1>1
  <2>3. PICK l \in Nat : l = Len(ms) /\ l <= NumMsgs
    BY <1>1
  <2>4. k \in Int /\ 1 <= k /\ k <= l
    BY <2>2, <2>3
  <2>5. NumMsgs \in Int /\ NumMsgs <= 255
    BY <2>1
  <2>6. l \in Int /\ l <= NumMsgs
    BY <2>3
  <2>7. k <= 255
    BY ONLY <2>4, <2>5, <2>6
  <2>8. QED
    BY ONLY <2>4, <2>7
<1>3. ms[k] \in Sent
  BY <1>1
<1>4. QED
  BY <1>2, <1>3 DEF Byte

LEMMA ConfigAt ==
  ASSUME NEW n \in Node, NEW i \in DOMAIN Config[n]
  PROVE  Config[n][i] \in Connection /\ i \in Nat
<1>1. Config[n] \in Seq(Connection)
  BY ConfigAssumption DEF Connection
<1>2. DOMAIN Config[n] = 1 .. Len(Config[n]) /\ Len(Config[n]) \in Nat
  BY <1>1, LenProperties
<1>3. QED
  BY <1>1, <1>2

\* rime_stack_impl::unpack passes a message on to a connection of the kind and
\* channel it was sent on, or to none.
LEMMA Dispatch ==
  ASSUME NEW m \in Sent, NEW b, Begins(b, m.conn.channel),
         NEW n \in Node, NEW i \in MatchingConns(n, b)
  PROVE  Config[n][i] = m.conn
<1>1. i \in DOMAIN Config[n] /\ Matches(Config[n][i], b)
  BY DEF MatchingConns
<1>2. PICK from \in Node : \E j \in DOMAIN Config[from] : Config[from][j] = m.conn
  BY SentIsMessage
<1>3. PICK c, d : c = Config[n][i].channel /\ d = m.conn.channel
  OBVIOUS
<1>4. c \in Channel
  BY <1>1, <1>3, ConfigAt DEF Connection
<1>5. d \in Channel
  BY <1>3, SentIsMessage, MessageParts
<1>6. c = b[1] /\ c \div 256 = b[2]
  BY <1>1, <1>3 DEF Matches
<1>7. d % 256 = b[1] /\ (d \div 256) % 256 = b[2]
  BY <1>3 DEF Begins
<1>8. c = d
  <2>1. d \in Int /\ 0 <= d /\ d <= 65535
    BY <1>5, ChannelRange
  <2>2. c \in Int /\ 0 <= c /\ c <= 65535
    BY <1>4, ChannelRange
  <2>3. c < 256
    BY <1>6, <1>7, <2>1
  <2>4. c \div 256 = 0
    BY <2>2, <2>3
  <2>5. (d \div 256) % 256 = d \div 256
    BY <2>1
  <2>6. d \div 256 = 0
    BY <1>6, <1>7, <2>4, <2>5
  <2>7. d % 256 = d
    BY <2>1, <2>6
  <2>8. QED
    BY <1>6, <1>7, <2>7
<1>12. PICK j \in DOMAIN Config[from] : Config[from][j] = m.conn
  BY <1>2
<1>9. Config[n][i].kind = Config[from][j].kind
  BY <1>1, <1>3, <1>8, <1>12, ChannelsAgree
<1>10. Config[n][i] \in Connection /\ m.conn \in Connection
  BY <1>1, ConfigAt, SentIsMessage, MessageParts
<1>11. QED
  <2>1. ASSUME NEW x \in Connection, NEW y \in Connection,
               x.kind = y.kind, x.channel = y.channel
        PROVE  x = y
    <3>1. x = [kind |-> x.kind, channel |-> x.channel]
      BY DEF Connection
    <3>2. y = [kind |-> y.kind, channel |-> y.channel]
      BY DEF Connection
    <3>3. QED
      BY <2>1, <3>1, <3>2
  <2>2. Config[n][i].kind = m.conn.kind /\ Config[n][i].channel = m.conn.channel
    BY <1>3, <1>8, <1>9, <1>12
  <2>3. QED
    BY <1>10, <2>1, <2>2

LEMMA FirstInSet ==
  ASSUME NEW n \in Node, NEW b, MatchingConns(n, b) # {}
  PROVE  FirstOf(MatchingConns(n, b)) \in MatchingConns(n, b)
<1>1. MatchingConns(n, b) \in SUBSET Nat
  BY ConfigAt DEF MatchingConns
<1>2. \E i \in MatchingConns(n, b) : \A j \in MatchingConns(n, b) : i <= j
  BY <1>1, LeastElement
<1>3. QED
  BY <1>2 DEF FirstOf

\* A connection on a channel of one byte matches every message sent on it.
LEMMA Matched ==
  ASSUME NEW m \in Sent, NEW b, Begins(b, m.conn.channel), (m.conn.channel) < 256,
         NEW n \in Node, NEW i \in DOMAIN Config[n], Config[n][i] = m.conn
  PROVE  i \in MatchingConns(n, b)
<1>1. PICK c : c = m.conn.channel
  OBVIOUS
<1>2. c \in Int /\ 0 <= c /\ c < 256
  BY <1>1, SentIsMessage, MessageParts, ChannelRange
<1>3. c % 256 = c /\ (c \div 256) % 256 = c \div 256
  BY <1>2
<1>4. QED
  BY <1>1, <1>3 DEF Begins, MatchingConns, Matches

\* No payload makes a data message look like an acknowledgement.
LEMMA DataIsNoAck ==
  ASSUME NEW m \in Sent, NEW k \in Byte
  PROVE  ~ IsAck(DataBlob(m, k))
<1>1. PICK b : b = DataBlob(m, k)
  OBVIOUS
<1>2. SUFFICES ASSUME IsAck(b) PROVE FALSE
  BY <1>1
<1>3. PICK n \in Node : \E i \in Conns(n, "ruc") :
        SubSeq(b, 1, 2) = ChannelBytes(Config[n][i].channel)
  BY <1>2 DEF IsAck
<1>11. PICK i \in Conns(n, "ruc") : SubSeq(b, 1, 2) = ChannelBytes(Config[n][i].channel)
  BY <1>3
<1>4. i \in DOMAIN Config[n] /\ Config[n][i].kind = "ruc" /\ Config[n][i] \in Connection
  BY ConfigAt DEF Conns
<1>5. b \in Blob /\ Begins(b, m.conn.channel)
  BY <1>1, DataBytes, SentIsMessage
<1>6. Begins(b, Config[n][i].channel)
  <2>1. PICK s : s = SubSeq(b, 1, 2)
    OBVIOUS
  <2>2. s[1] = Config[n][i].channel % 256 /\ s[2] = (Config[n][i].channel \div 256) % 256
    <3>1. PICK x, y : x = Config[n][i].channel % 256 /\ y = (Config[n][i].channel \div 256) % 256
      OBVIOUS
    <3>2. s = <<x, y>>
      BY <1>11, <2>1, <3>1 DEF ChannelBytes
    <3>3. QED
      BY <3>1, <3>2
  <2>3. Len(s) = 2
    BY <1>11, <2>1 DEF ChannelBytes
  <2>4. s[1] = b[1] /\ s[2] = b[2]
    BY <2>1, <1>5, <2>3 DEF Blob
  <2>5. QED
    BY <2>2, <2>4 DEF Begins
<1>7. Config[n][i].channel = m.conn.channel
  BY <1>4, <1>5, <1>6, ChannelsDiffer, SentIsMessage, MessageParts DEF Connection
<1>8. m.conn.kind = "ruc"
  <2>1. PICK from \in Node : \E j \in DOMAIN Config[from] : Config[from][j] = m.conn
    BY SentIsMessage
  <2>2. QED
    BY <1>4, <1>7, <2>1, ChannelsAgree
<1>9. ~ RucIsAck(b)
  BY <1>1, <1>8, DataBytes, SentIsMessage
<1>10. QED
  BY <1>2, <1>9 DEF IsAck

-----------------------------------------------------------------------------
(***************************************************************************)
(* The invariant. Every queue holds only messages that were submitted and  *)
(* acknowledgements that were earned, and each queue only those that can   *)
(* have come that way: ms stands for msgs, gt for got.                     *)
(***************************************************************************)

OutputAt(gt, n, k) == \E j \in DOMAIN gt[n] : gt[n][j].payload = <<k>>

OwnData(ms, n) ==
  {b \in Blob : \E k \in DOMAIN ms : ms[k].from = n /\ b = DataBlob(ms[k], k)}

OthersData(ms, n) ==
  {b \in Blob : \E k \in DOMAIN ms : ms[k].from # n /\ b = DataBlob(ms[k], k)}

HeldData(ms, n, c) ==
  {b \in Blob : \E k \in DOMAIN ms :
     ms[k].from = n /\ ms[k].conn = c /\ c.kind = "ruc" /\ b = DataBlob(ms[k], k)}

EarnedAcks(ms, gt) ==
  {b \in Blob : \E k \in DOMAIN ms :
     /\ ms[k].conn.kind = "ruc" /\ ms[k].to \in Node /\ OutputAt(gt, ms[k].to, k)
     /\ b = AckBlob(ms[k])}

Sendable(ms, gt, n) == {Eof} \cup OwnData(ms, n) \cup EarnedAcks(ms, gt)
Hearable(ms, gt, n) == OthersData(ms, n) \cup EarnedAcks(ms, gt)
Frame(S) == [blob : S, ok : BOOLEAN]

OutputRec == [conn : Connection, payload : Blob]
Outputs(ms, n) ==
  {g \in OutputRec : \E k \in DOMAIN ms :
     /\ g.payload = <<k>> /\ ms[k].conn = g.conn /\ ms[k].from # n
     /\ g.conn.kind # "bc" => ms[k].to = n}

SendersInv ==
  /\ DOMAIN sendSeq = Node /\ DOMAIN held = Node /\ DOMAIN tries = Node
  /\ \A n \in Node :
       /\ sendSeq[n] \in [DOMAIN Config[n] -> 0 .. 3]
       /\ tries[n] \in [DOMAIN Config[n] -> 0 .. MaxTries]
       /\ held[n] \in [DOMAIN Config[n] -> Seq(Blob)]

HeldInv ==
  \A n \in Node : \A i \in DOMAIN Config[n] :
    /\ held[n][i] \in Seq(HeldData(msgs, n, Config[n][i]))
    /\ tries[n][i] > 0 => held[n][i] # << >>

PortsInv ==
  /\ toMac \in [Node -> Seq(Blob)]
  /\ heard \in [Node -> Seq(Frame(Blob))]
  /\ toRime \in [Node -> Seq(Blob)]
  /\ got \in [Node -> Seq(OutputRec)]
  /\ rimeDone \subseteq Node /\ macDone \subseteq Node /\ missed \subseteq Node \X Byte

ContentsInv ==
  \A n \in Node :
    /\ toMac[n] \in Seq(Sendable(msgs, got, n))
    /\ heard[n] \in Seq(Frame(Hearable(msgs, got, n)))
    /\ toRime[n] \in Seq(Hearable(msgs, got, n))
    /\ got[n] \in Seq(Outputs(msgs, n))

BaseInv == WellFormed(msgs) /\ SendersInv /\ HeldInv /\ PortsInv /\ ContentsInv

\* The history only grows.
Longer(ms, ms2) == \A k \in DOMAIN ms : k \in DOMAIN ms2 /\ ms2[k] = ms[k]
MoreOutput(gt, gt2) ==
  \A n \in Node : \A j \in DOMAIN gt[n] : j \in DOMAIN gt2[n] /\ gt2[n][j] = gt[n][j]

LEMMA MoreInQueues ==
  ASSUME NEW ms, NEW ms2, Longer(ms, ms2), NEW gt, NEW gt2, MoreOutput(gt, gt2), NEW n
  PROVE  /\ \A c : HeldData(ms, n, c) \subseteq HeldData(ms2, n, c)
         /\ Sendable(ms, gt, n) \subseteq Sendable(ms2, gt2, n)
         /\ Hearable(ms, gt, n) \subseteq Hearable(ms2, gt2, n)
         /\ Frame(Hearable(ms, gt, n)) \subseteq Frame(Hearable(ms2, gt2, n))
         /\ Outputs(ms, n) \subseteq Outputs(ms2, n)
<1>1. OwnData(ms, n) \subseteq OwnData(ms2, n)
  BY DEF Longer, OwnData
<1>2. OthersData(ms, n) \subseteq OthersData(ms2, n)
  BY DEF Longer, OthersData
<1>3. EarnedAcks(ms, gt) \subseteq EarnedAcks(ms2, gt2)
  <2>1. ASSUME NEW m \in Node, NEW k, OutputAt(gt, m, k) PROVE OutputAt(gt2, m, k)
    BY <2>1 DEF MoreOutput, OutputAt
  <2>2. QED
    BY <2>1 DEF Longer, EarnedAcks
<1>4. \A c : HeldData(ms, n, c) \subseteq HeldData(ms2, n, c)
  BY DEF Longer, HeldData
<1>5. Outputs(ms, n) \subseteq Outputs(ms2, n)
  BY DEF Longer, Outputs
<1>6. /\ Sendable(ms, gt, n) \subseteq Sendable(ms2, gt2, n)
      /\ Hearable(ms, gt, n) \subseteq Hearable(ms2, gt2, n)
  BY <1>1, <1>2, <1>3 DEF Sendable, Hearable
<1>7. Frame(Hearable(ms, gt, n)) \subseteq Frame(Hearable(ms2, gt2, n))
  BY <1>6 DEF Frame
<1>8. QED
  BY <1>4, <1>5, <1>6, <1>7

\* What is in a queue is still what may be there when the history has grown.
LEMMA QueuesKept ==
  ASSUME BaseInv, Longer(msgs, msgs'), MoreOutput(got, got'), NEW n \in Node
  PROVE  /\ \A i \in DOMAIN Config[n] : held[n][i] \in Seq(HeldData(msgs', n, Config[n][i]))
         /\ toMac[n] \in Seq(Sendable(msgs', got', n))
         /\ heard[n] \in Seq(Frame(Hearable(msgs', got', n)))
         /\ toRime[n] \in Seq(Hearable(msgs', got', n))
         /\ got[n] \in Seq(Outputs(msgs', n))
<1>1. /\ \A c : HeldData(msgs, n, c) \subseteq HeldData(msgs', n, c)
      /\ Sendable(msgs, got, n) \subseteq Sendable(msgs', got', n)
      /\ Hearable(msgs, got, n) \subseteq Hearable(msgs', got', n)
      /\ Frame(Hearable(msgs, got, n)) \subseteq Frame(Hearable(msgs', got', n))
      /\ Outputs(msgs, n) \subseteq Outputs(msgs', n)
  BY MoreInQueues
<1>2. /\ \A i \in DOMAIN Config[n] : held[n][i] \in Seq(HeldData(msgs, n, Config[n][i]))
      /\ toMac[n] \in Seq(Sendable(msgs, got, n))
      /\ heard[n] \in Seq(Frame(Hearable(msgs, got, n)))
      /\ toRime[n] \in Seq(Hearable(msgs, got, n))
      /\ got[n] \in Seq(Outputs(msgs, n))
  BY DEF BaseInv, HeldInv, ContentsInv
<1>3. ASSUME NEW i \in DOMAIN Config[n]
      PROVE  held[n][i] \in Seq(HeldData(msgs', n, Config[n][i]))
  <2>1. HeldData(msgs, n, Config[n][i]) \subseteq HeldData(msgs', n, Config[n][i])
    BY <1>1
  <2>2. held[n][i] \in Seq(HeldData(msgs, n, Config[n][i]))
    BY <1>2
  <2>3. QED
    BY ONLY <2>1, <2>2, SeqOfMore
<1>4. toMac[n] \in Seq(Sendable(msgs', got', n))
  BY <1>1, <1>2, SeqOfMore
<1>5. heard[n] \in Seq(Frame(Hearable(msgs', got', n)))
  BY <1>1, <1>2, SeqOfMore
<1>6. toRime[n] \in Seq(Hearable(msgs', got', n))
  BY <1>1, <1>2, SeqOfMore
<1>7. got[n] \in Seq(Outputs(msgs', n))
  BY <1>1, <1>2, SeqOfMore
<1>8. QED
  BY <1>3, <1>4, <1>5, <1>6, <1>7

\* A submission.
NextId == Len(msgs) + 1

LEMMA Submitted ==
  ASSUME BaseInv, NEW n \in Node, NEW i \in DOMAIN Config[n], NEW d \in Address,
         Submit(n, i, d)
  PROVE  /\ WellFormed(msgs') /\ Longer(msgs, msgs')
         /\ NextId \in DOMAIN msgs' /\ NextId \in Byte /\ NextId \notin DOMAIN msgs
         /\ msgs'[NextId] \in Sent
         /\ msgs'[NextId].from = n /\ msgs'[NextId].conn = Config[n][i]
         /\ msgs'[NextId].to = d /\ msgs'[NextId].seqno = sendSeq[n][i]
         /\ DOMAIN msgs' = DOMAIN msgs \cup {NextId}
<1>10. PICK k : k = Len(msgs) + 1 /\ k = NextId
  BY DEF NextId
<1> DEFINE m == [from |-> n, conn |-> Config[n][i], to |-> d, seqno |-> sendSeq[n][i]]
<1>1. m \in Sent
  <2>1. sendSeq[n][i] \in 0 .. (SeqMod - 1)
    BY DEF BaseInv, SendersInv, SeqMod
  <2>2. Config[n][i] \in Connection
    BY ConfigAt
  <2>3. m \in Message
    BY <2>1, <2>2 DEF Message
  <2>4. QED
    BY <2>3 DEF Sent
<1>2. msgs' = Append(msgs, m) /\ Len(msgs) < NumMsgs
  BY DEF Submit
<1> HIDE DEF m
<1>3. msgs \in Seq(Sent) /\ Len(msgs) <= NumMsgs /\ Len(msgs) \in Nat
  BY LenProperties DEF BaseInv, WellFormed
<1>4. /\ msgs' \in Seq(Sent) /\ Len(msgs') = k /\ msgs'[k] = m
      /\ \A j \in 1 .. Len(msgs) : msgs'[j] = msgs[j]
  BY <1>1, <1>2, <1>3, <1>10, AppendProperties
<1>5. DOMAIN msgs = 1 .. Len(msgs) /\ DOMAIN msgs' = 1 .. k
  BY <1>3, <1>4, LenProperties
<1>6. WellFormed(msgs')
  <2>1. NumMsgs \in Int
    BY BoundsAssumption
  <2>2. Len(msgs') <= NumMsgs
    BY <1>2, <1>3, <1>4, <2>1
  <2>3. QED
    BY <1>4, <2>2 DEF WellFormed
<1>7. Longer(msgs, msgs') /\ k \in DOMAIN msgs' /\ k \notin DOMAIN msgs
      /\ DOMAIN msgs' = DOMAIN msgs \cup {k}
  BY <1>3, <1>4, <1>5, <1>10 DEF Longer
<1>8. k \in Byte
  BY <1>6, <1>7, SentAt
<1>9. QED
  BY <1>1, <1>4, <1>6, <1>7, <1>8, <1>10 DEF m

\* A queue after a message was put at its end or taken from its front.
LEMMA Appended ==
  ASSUME NEW S, NEW q \in [Node -> Seq(S)], NEW n \in Node, NEW x \in S,
         NEW r, r = [q EXCEPT ![n] = Append(@, x)]
  PROVE  /\ r \in [Node -> Seq(S)] /\ r[n] = Append(q[n], x)
         /\ \A m \in Node : m # n => r[m] = q[m]
OBVIOUS

LEMMA Dropped ==
  ASSUME NEW S, NEW q \in [Node -> Seq(S)], NEW n \in Node, q[n] # << >>,
         NEW r, r = [q EXCEPT ![n] = Tail(@)]
  PROVE  /\ r \in [Node -> Seq(S)] /\ r[n] = Tail(q[n])
         /\ \A m \in Node : m # n => r[m] = q[m]
OBVIOUS

LEMMA HeadAndTail ==
  ASSUME NEW S, NEW s \in Seq(S), s # << >>
  PROVE  Head(s) \in S /\ Tail(s) \in Seq(S)
OBVIOUS

LEMMA Put ==
  ASSUME NEW S, NEW s \in Seq(S), NEW x \in S
  PROVE  Append(s, x) \in Seq(S)
OBVIOUS

\* The two operations that pack a message and send it at once.
LEMMA BasePackAtOnce ==
  ASSUME BaseInv, NEW n \in Node, NEW i \in DOMAIN Config[n], NEW d \in Address,
         Submit(n, i, d), Publish(toMac, n, DataBlob(msgs'[NextId], NextId)),
         UNCHANGED <<rimeVars, toRime, heard, macDone, got, missed>>
  PROVE  BaseInv'
<1>13. PICK k : k = NextId
  OBVIOUS
<1>1. /\ WellFormed(msgs') /\ Longer(msgs, msgs')
      /\ k \in DOMAIN msgs' /\ k \in Byte /\ msgs'[k] \in Sent /\ msgs'[k].from = n
  BY <1>13, Submitted
<1>2. PICK b : b = DataBlob(msgs'[k], k)
  OBVIOUS
<1>3. b \in Blob
  BY <1>1, <1>2, DataBytes, SentIsMessage
<1>4. toMac \in [Node -> Seq(Blob)] /\ toMac' = [toMac EXCEPT ![n] = Append(@, b)]
  BY <1>2, <1>13 DEF BaseInv, PortsInv, Publish
<1>5. /\ toMac' \in [Node -> Seq(Blob)] /\ toMac'[n] = Append(toMac[n], b)
      /\ \A m \in Node : m # n => toMac'[m] = toMac[m]
  BY <1>3, <1>4, Appended
<1>6. MoreOutput(got, got')
  BY DEF MoreOutput
<1>7. b \in Sendable(msgs', got', n)
  BY <1>1, <1>2, <1>3 DEF Sendable, OwnData
<1>8. HeldInv'
  BY <1>1, <1>6, QueuesKept DEF HeldInv, rimeVars, BaseInv
<1>9. ASSUME NEW m \in Node
      PROVE  /\ toMac'[m] \in Seq(Sendable(msgs', got', m))
             /\ heard'[m] \in Seq(Frame(Hearable(msgs', got', m)))
             /\ toRime'[m] \in Seq(Hearable(msgs', got', m))
             /\ got'[m] \in Seq(Outputs(msgs', m))
  <2>1. /\ toMac[m] \in Seq(Sendable(msgs', got', m))
        /\ heard[m] \in Seq(Frame(Hearable(msgs', got', m)))
        /\ toRime[m] \in Seq(Hearable(msgs', got', m))
        /\ got[m] \in Seq(Outputs(msgs', m))
    BY <1>1, <1>6, QueuesKept
  <2>2. toMac'[m] \in Seq(Sendable(msgs', got', m))
    <3>1. CASE m = n
      BY <1>5, <1>7, <2>1, <3>1, Put
    <3>2. CASE m # n
      BY <1>5, <2>1, <3>2
    <3>3. QED
      BY <3>1, <3>2
  <2>3. QED
    BY <2>1, <2>2
<1>10. ContentsInv'
  BY <1>9 DEF ContentsInv
<1>11. SendersInv' /\ PortsInv'
  BY <1>5 DEF BaseInv, SendersInv, PortsInv, rimeVars
<1>12. QED
  BY <1>1, <1>8, <1>10, <1>11 DEF BaseInv

LEMMA BasePackBc ==
  ASSUME BaseInv, NEW n \in Node, NEW i \in Conns(n, "bc"), PackBc(n, i)
  PROVE  BaseInv'
<1>1. i \in DOMAIN Config[n] /\ Config[n][i].kind = "bc" /\ n \in Address
  BY NodeAssumption DEF Conns
<1>2. PICK k : k = NextId
  OBVIOUS
<1>3. Submit(n, i, n)
  BY DEF PackBc
<1>4. msgs'[k].from = n /\ msgs'[k].conn = Config[n][i] /\ msgs'[k].to = n
  BY <1>1, <1>2, <1>3, Submitted
<1>5. DataBlob(msgs'[k], k) = BcHeader(Config[n][i].channel, n) \o <<k>>
  BY <1>1, <1>4 DEF DataBlob, HeaderOf
<1>6. Publish(toMac, n, DataBlob(msgs'[k], k))
  BY <1>2, <1>5 DEF PackBc, Payload, NextId
<1>7. UNCHANGED <<rimeVars, toRime, heard, macDone, got, missed>>
  BY DEF PackBc
<1>8. QED
  BY <1>1, <1>2, <1>3, <1>6, <1>7, BasePackAtOnce

LEMMA BasePackUc ==
  ASSUME BaseInv, NEW n \in Node, NEW i \in Conns(n, "uc"), NEW d \in Targets \ {n},
         PackUc(n, i, d)
  PROVE  BaseInv'
<1>1. i \in DOMAIN Config[n] /\ Config[n][i].kind = "uc" /\ d \in Address
  BY NodeAssumption DEF Conns
<1>2. PICK k : k = NextId
  OBVIOUS
<1>3. Submit(n, i, d)
  BY DEF PackUc
<1>4. msgs'[k].from = n /\ msgs'[k].conn = Config[n][i] /\ msgs'[k].to = d
  BY <1>1, <1>2, <1>3, Submitted
<1>5. DataBlob(msgs'[k], k) = UcHeader(Config[n][i].channel, n, d) \o <<k>>
  BY <1>1, <1>4 DEF DataBlob, HeaderOf
<1>6. Publish(toMac, n, DataBlob(msgs'[k], k))
  BY <1>2, <1>5 DEF PackUc, Payload, NextId
<1>7. UNCHANGED <<rimeVars, toRime, heard, macDone, got, missed>>
  BY DEF PackUc
<1>8. QED
  BY <1>1, <1>2, <1>3, <1>6, <1>7, BasePackAtOnce

\* A queue of queues after one of them was changed.
LEMMA InnerChanged ==
  ASSUME NEW f, DOMAIN f = Node, NEW n \in Node, NEW i \in DOMAIN Config[n], NEW S,
         \A m \in Node : f[m] \in [DOMAIN Config[m] -> S], NEW x \in S,
         NEW g, g = [f EXCEPT ![n][i] = x]
  PROVE  /\ DOMAIN g = Node
         /\ \A m \in Node : g[m] \in [DOMAIN Config[m] -> S]
         /\ g[n][i] = x
         /\ \A m \in Node : \A j \in DOMAIN Config[m] : (m # n \/ j # i) => g[m][j] = f[m][j]
<1>1. PICK h : h = [f[n] EXCEPT ![i] = x]
  OBVIOUS
<1>2. g = [f EXCEPT ![n] = h]
  BY <1>1
<1>3. /\ h \in [DOMAIN Config[n] -> S] /\ h[i] = x
      /\ \A j \in DOMAIN Config[n] : j # i => h[j] = f[n][j]
  BY <1>1
<1>4. DOMAIN g = Node /\ g[n] = h /\ \A m \in Node : m # n => g[m] = f[m]
  BY <1>2
<1>5. QED
  BY <1>3, <1>4

LEMMA BasePackRuc ==
  ASSUME BaseInv, NEW n \in Node, NEW i \in Conns(n, "ruc"), NEW d \in Targets \ {n},
         PackRuc(n, i, d)
  PROVE  BaseInv'
<1>1. i \in DOMAIN Config[n] /\ Config[n][i].kind = "ruc" /\ d \in Address
  BY NodeAssumption DEF Conns
<1>2. PICK k : k = NextId
  OBVIOUS
<1>3. Submit(n, i, d)
  BY DEF PackRuc
<1>4. /\ WellFormed(msgs') /\ Longer(msgs, msgs')
      /\ k \in DOMAIN msgs' /\ k \in Byte /\ msgs'[k] \in Sent
      /\ msgs'[k].from = n /\ msgs'[k].conn = Config[n][i]
      /\ msgs'[k].to = d /\ msgs'[k].seqno = sendSeq[n][i]
  BY <1>1, <1>2, <1>3, Submitted
<1>5. PICK b : b = DataBlob(msgs'[k], k)
  OBVIOUS
<1>6. b = RucHeader(Config[n][i].channel, FALSE, sendSeq[n][i], n, d) \o <<k>>
  BY <1>1, <1>4, <1>5 DEF DataBlob, HeaderOf
<1>7. b \in Blob /\ b \in HeldData(msgs', n, Config[n][i])
  <2>1. b \in Blob
    BY <1>4, <1>5, DataBytes, SentIsMessage
  <2>2. QED
    BY <1>1, <1>4, <1>5, <2>1 DEF HeldData
<1>8. /\ held' = [held EXCEPT ![n][i] = Append(held[n][i], b)]
      /\ sendSeq' = [sendSeq EXCEPT ![n][i] = (sendSeq[n][i] + 1) % SeqMod]
      /\ UNCHANGED <<tries, rimeDone, toMac, toRime, heard, macDone, got, missed>>
  BY <1>2, <1>6 DEF PackRuc, Payload, NextId
<1>9. /\ sendSeq[n][i] \in 0 .. 3 /\ held[n][i] \in Seq(Blob)
      /\ DOMAIN held = Node /\ DOMAIN sendSeq = Node
      /\ \A m \in Node : held[m] \in [DOMAIN Config[m] -> Seq(Blob)]
      /\ \A m \in Node : sendSeq[m] \in [DOMAIN Config[m] -> 0 .. 3]
  BY <1>1 DEF BaseInv, SendersInv
<1>10. PICK x, y : x = Append(held[n][i], b) /\ y = (sendSeq[n][i] + 1) % SeqMod
  OBVIOUS
<1>11. x \in Seq(Blob) /\ y \in 0 .. 3
  BY <1>7, <1>9, <1>10 DEF SeqMod
<1>12. held' = [held EXCEPT ![n][i] = x] /\ sendSeq' = [sendSeq EXCEPT ![n][i] = y]
  BY <1>8, <1>10
<1>13. /\ DOMAIN held' = Node /\ held'[n][i] = x
       /\ \A m \in Node : held'[m] \in [DOMAIN Config[m] -> Seq(Blob)]
       /\ \A m \in Node : \A j \in DOMAIN Config[m] :
            (m # n \/ j # i) => held'[m][j] = held[m][j]
  BY ONLY <1>1, <1>9, <1>11, <1>12, n \in Node, InnerChanged
<1>14. /\ DOMAIN sendSeq' = Node
       /\ \A m \in Node : sendSeq'[m] \in [DOMAIN Config[m] -> 0 .. 3]
  BY ONLY <1>1, <1>9, <1>11, <1>12, n \in Node, InnerChanged
<1>15. SendersInv'
  BY <1>8, <1>13, <1>14 DEF BaseInv, SendersInv
<1>16. PortsInv'
  BY <1>8 DEF BaseInv, PortsInv
<1>17. MoreOutput(got, got')
  BY <1>8 DEF MoreOutput
<1>18. ASSUME NEW m \in Node, NEW j \in DOMAIN Config[m]
       PROVE  held'[m][j] \in Seq(HeldData(msgs', m, Config[m][j]))
  <2>1. held[m][j] \in Seq(HeldData(msgs', m, Config[m][j]))
    BY <1>4, <1>17, QueuesKept
  <2>2. CASE m = n /\ j = i
    <3>1. held'[m][j] = Append(held[m][j], b) /\ b \in HeldData(msgs', m, Config[m][j])
      BY <1>7, <1>10, <1>13, <2>2
    <3>2. QED
      BY ONLY <2>1, <3>1, Put
  <2>3. CASE m # n \/ j # i
    BY <1>13, <2>1, <2>3
  <2>4. QED
    BY <2>2, <2>3
<1>22. ASSUME NEW m \in Node, NEW j \in DOMAIN Config[m], tries'[m][j] > 0
       PROVE  held'[m][j] # << >>
  <2>1. held[m][j] # << >> /\ held[m][j] \in Seq(Blob)
    BY <1>8, <1>22 DEF BaseInv, HeldInv, SendersInv
  <2>2. CASE m = n /\ j = i
    BY <1>7, <1>10, <1>13, <2>1, <2>2
  <2>3. CASE m # n \/ j # i
    BY <1>13, <2>1, <2>3
  <2>4. QED
    BY <2>2, <2>3
<1>19. HeldInv'
  BY <1>18, <1>22 DEF HeldInv
<1>20. ContentsInv'
  BY <1>4, <1>8, <1>17, QueuesKept DEF ContentsInv
<1>21. QED
  BY <1>4, <1>15, <1>16, <1>19, <1>20 DEF BaseInv

\* The actions that neither submit nor output a message.
LEMMA BasePackEof ==
  ASSUME BaseInv, NEW n \in Node, PackEof(n)
  PROVE  BaseInv'
<1>1. /\ toMac' = [toMac EXCEPT ![n] = Append(@, Eof)] /\ rimeDone' = rimeDone \cup {n}
      /\ UNCHANGED <<sendSeq, held, tries, toRime, heard, macDone, msgs, got, missed>>
  BY DEF PackEof, Publish
<1>2. Eof \in Blob /\ Eof \in Sendable(msgs, got, n)
  BY DEF Eof, Blob, Sendable
<1>3. toMac \in [Node -> Seq(Blob)] /\ toMac[n] \in Seq(Sendable(msgs, got, n))
  BY DEF BaseInv, PortsInv, ContentsInv
<1>4. /\ toMac' \in [Node -> Seq(Blob)] /\ toMac'[n] = Append(toMac[n], Eof)
      /\ \A m \in Node : m # n => toMac'[m] = toMac[m]
  BY <1>1, <1>2, <1>3, Appended
<1>5. toMac'[n] \in Seq(Sendable(msgs, got, n))
  BY <1>2, <1>3, <1>4, Put
<1>6. SendersInv' /\ HeldInv' /\ WellFormed(msgs')
  BY <1>1 DEF BaseInv, SendersInv, HeldInv, WellFormed
<1>7. PortsInv'
  BY <1>1, <1>4 DEF BaseInv, PortsInv
<1>8. ContentsInv'
  BY <1>1, <1>4, <1>5 DEF BaseInv, ContentsInv
<1>9. QED
  BY <1>6, <1>7, <1>8 DEF BaseInv

LEMMA BaseSendHeld ==
  ASSUME BaseInv, NEW n \in Node, NEW i \in Conns(n, "ruc"), SendHeld(n, i)
  PROVE  /\ BaseInv'
         /\ \E b \in HeldData(msgs, n, Config[n][i]) :
              b = Head(held[n][i]) /\ toMac'[n] = Append(toMac[n], b)
         /\ \A m \in Node : m # n => toMac'[m] = toMac[m]
<1>1. i \in DOMAIN Config[n]
  BY DEF Conns
<1>2. PICK b : b = Head(held[n][i])
  OBVIOUS
<1>3. held[n][i] # << >> /\ held[n][i] \in Seq(HeldData(msgs, n, Config[n][i]))
  BY <1>1 DEF SendHeld, BaseInv, HeldInv
<1>4. b \in HeldData(msgs, n, Config[n][i])
  BY <1>2, <1>3, HeadAndTail
<1>5. b \in Blob /\ b \in Sendable(msgs, got, n)
  BY <1>4 DEF HeldData, Sendable, OwnData
<1>6. PICK t : t = tries[n][i] + 1
  OBVIOUS
<1>7. /\ toMac' = [toMac EXCEPT ![n] = Append(@, b)]
      /\ tries' = [tries EXCEPT ![n][i] = t]
      /\ UNCHANGED <<sendSeq, held, rimeDone, toRime, heard, macDone, msgs, got, missed>>
  BY <1>2, <1>6 DEF SendHeld, Publish
<1>8. toMac \in [Node -> Seq(Blob)] /\ toMac[n] \in Seq(Sendable(msgs, got, n))
  BY DEF BaseInv, PortsInv, ContentsInv
<1>9. /\ toMac' \in [Node -> Seq(Blob)] /\ toMac'[n] = Append(toMac[n], b)
      /\ \A m \in Node : m # n => toMac'[m] = toMac[m]
  BY <1>5, <1>7, <1>8, Appended
<1>10. toMac'[n] \in Seq(Sendable(msgs, got, n))
  BY <1>5, <1>8, <1>9, Put
<1>11. t \in 0 .. MaxTries
  <2>1. tries[n][i] \in 0 .. MaxTries /\ tries[n][i] < MaxTries
    BY <1>1 DEF BaseInv, SendersInv, SendHeld
  <2>2. MaxTries \in Nat
    BY BoundsAssumption
  <2>3. QED
    BY <1>6, <2>1, <2>2
<1>12. DOMAIN tries = Node /\ \A m \in Node : tries[m] \in [DOMAIN Config[m] -> 0 .. MaxTries]
  BY DEF BaseInv, SendersInv
<1>13. /\ DOMAIN tries' = Node
       /\ \A m \in Node : tries'[m] \in [DOMAIN Config[m] -> 0 .. MaxTries]
       /\ \A m \in Node : \A j \in DOMAIN Config[m] :
            (m # n \/ j # i) => tries'[m][j] = tries[m][j]
  BY <1>1, <1>7, <1>11, <1>12, InnerChanged
<1>14. SendersInv'
  BY <1>7, <1>13 DEF BaseInv, SendersInv
<1>19. HeldInv'
  <2>1. ASSUME NEW m \in Node, NEW j \in DOMAIN Config[m], tries'[m][j] > 0
        PROVE  held[m][j] # << >>
    <3>1. CASE m = n /\ j = i
      BY <1>3, <3>1
    <3>2. CASE m # n \/ j # i
      BY <1>13, <2>1, <3>2 DEF BaseInv, HeldInv
    <3>3. QED
      BY <3>1, <3>2
  <2>2. QED
    BY <1>7, <2>1 DEF BaseInv, HeldInv
<1>15. WellFormed(msgs')
  BY <1>7 DEF BaseInv, WellFormed
<1>16. PortsInv'
  BY <1>7, <1>9 DEF BaseInv, PortsInv
<1>17. ContentsInv'
  BY <1>7, <1>9, <1>10 DEF BaseInv, ContentsInv
<1>18. QED
  BY <1>2, <1>4, <1>9, <1>14, <1>15, <1>16, <1>17, <1>19 DEF BaseInv

LEMMA BaseSettle ==
  ASSUME BaseInv, NEW n \in Node, NEW i \in Conns(n, "ruc"), Settle(n, i)
  PROVE  BaseInv'
<1>1. i \in DOMAIN Config[n]
  BY DEF Conns
<1>2. PICK x : x = Tail(held[n][i])
  OBVIOUS
<1>3. /\ held' = [held EXCEPT ![n][i] = x] /\ tries' = [tries EXCEPT ![n][i] = 0]
      /\ UNCHANGED <<sendSeq, rimeDone, toMac, toRime, heard, macDone, msgs, got, missed>>
  BY <1>2 DEF Settle
<1>4. held[n][i] \in Seq(HeldData(msgs, n, Config[n][i])) /\ held[n][i] \in Seq(Blob)
  BY <1>1 DEF BaseInv, HeldInv, SendersInv
<1>13. held[n][i] # << >>
  BY <1>1 DEF Settle, BaseInv, HeldInv
<1>5. x \in Seq(HeldData(msgs, n, Config[n][i])) /\ x \in Seq(Blob)
  BY <1>2, <1>4, <1>13, HeadAndTail
<1>6. /\ DOMAIN held = Node /\ \A m \in Node : held[m] \in [DOMAIN Config[m] -> Seq(Blob)]
      /\ DOMAIN tries = Node
      /\ \A m \in Node : tries[m] \in [DOMAIN Config[m] -> 0 .. MaxTries]
  BY DEF BaseInv, SendersInv
<1>7. /\ DOMAIN held' = Node /\ held'[n][i] = x
      /\ \A m \in Node : held'[m] \in [DOMAIN Config[m] -> Seq(Blob)]
      /\ \A m \in Node : \A j \in DOMAIN Config[m] :
           (m # n \/ j # i) => held'[m][j] = held[m][j]
  BY ONLY <1>1, <1>3, <1>5, <1>6, n \in Node, InnerChanged
<1>8. /\ DOMAIN tries' = Node
      /\ \A m \in Node : tries'[m] \in [DOMAIN Config[m] -> 0 .. MaxTries]
      /\ tries'[n][i] = 0
      /\ \A m \in Node : \A j \in DOMAIN Config[m] :
           (m # n \/ j # i) => tries'[m][j] = tries[m][j]
  <2>1. 0 \in 0 .. MaxTries
    BY BoundsAssumption
  <2>2. QED
    BY <1>1, <1>3, <1>6, <2>1, InnerChanged
<1>9. SendersInv'
  BY <1>3, <1>7, <1>8 DEF BaseInv, SendersInv
<1>10. HeldInv'
  <2>1. ASSUME NEW m \in Node, NEW j \in DOMAIN Config[m]
        PROVE  /\ held'[m][j] \in Seq(HeldData(msgs, m, Config[m][j]))
               /\ tries'[m][j] > 0 => held'[m][j] # << >>
    <3>1. CASE m = n /\ j = i
      BY <1>5, <1>7, <1>8, <3>1
    <3>2. CASE m # n \/ j # i
      BY <1>7, <1>8, <3>2 DEF BaseInv, HeldInv
    <3>3. QED
      BY <3>1, <3>2
  <2>2. QED
    BY <1>3, <2>1 DEF HeldInv
<1>11. WellFormed(msgs') /\ PortsInv' /\ ContentsInv'
  BY <1>3 DEF BaseInv, WellFormed, PortsInv, ContentsInv
<1>12. QED
  BY <1>9, <1>10, <1>11 DEF BaseInv

LEMMA BaseMacEof ==
  ASSUME BaseInv, NEW n \in Node, MacEof(n)
  PROVE  BaseInv'
<1>1. /\ toMac' = [toMac EXCEPT ![n] = Tail(@)] /\ macDone' = macDone \cup {n}
      /\ toMac[n] # << >>
      /\ UNCHANGED <<rimeVars, toRime, heard, msgs, got, missed>>
  BY DEF MacEof
<1>2. toMac \in [Node -> Seq(Blob)] /\ toMac[n] \in Seq(Sendable(msgs, got, n))
  BY DEF BaseInv, PortsInv, ContentsInv
<1>3. /\ toMac' \in [Node -> Seq(Blob)] /\ toMac'[n] = Tail(toMac[n])
      /\ \A m \in Node : m # n => toMac'[m] = toMac[m]
  BY <1>1, <1>2, Dropped
<1>4. toMac'[n] \in Seq(Sendable(msgs, got, n))
  BY <1>1, <1>2, <1>3, HeadAndTail
<1>5. SendersInv' /\ HeldInv' /\ WellFormed(msgs')
  BY <1>1 DEF BaseInv, SendersInv, HeldInv, WellFormed, rimeVars
<1>6. PortsInv'
  BY <1>1, <1>3 DEF BaseInv, PortsInv, rimeVars
<1>7. ContentsInv'
  BY <1>1, <1>3, <1>4 DEF BaseInv, ContentsInv
<1>8. QED
  BY <1>5, <1>6, <1>7 DEF BaseInv

LEMMA BaseMacSend ==
  ASSUME BaseInv, NEW n \in Node, MacSend(n)
  PROVE  BaseInv'
<1>1. PICK b : b = Head(toMac[n])
  OBVIOUS
<1>2. /\ toMac[n] # << >> /\ b # Eof /\ toMac' = [toMac EXCEPT ![n] = Tail(@)]
      /\ UNCHANGED <<rimeVars, toRime, macDone, msgs, got>>
  BY <1>1 DEF MacSend
<1>3. toMac \in [Node -> Seq(Blob)] /\ toMac[n] \in Seq(Sendable(msgs, got, n))
  BY DEF BaseInv, PortsInv, ContentsInv
<1>4. b \in Sendable(msgs, got, n) /\ b \in Blob
  BY <1>1, <1>2, <1>3, HeadAndTail
<1>5. \A m \in Node : m # n => b \in Hearable(msgs, got, m)
  BY <1>2, <1>4 DEF Sendable, Hearable, OwnData, OthersData
<1>6. PICK fate \in [Node \ {n} -> Fates] :
        /\ heard' = [m \in Node |->
                       IF m # n /\ fate[m] # "lost"
                       THEN Append(heard[m], [blob |-> b, ok |-> fate[m] = "intact"])
                       ELSE heard[m]]
        /\ missed' = missed \cup
             {<<m, IF IsAck(b) THEN 0 ELSE b[Len(b)]>> :
                m \in {p \in Node \ {n} : fate[p] # "intact"}}
  BY <1>1 DEF MacSend
<1>7. /\ toMac' \in [Node -> Seq(Blob)] /\ toMac'[n] = Tail(toMac[n])
      /\ \A m \in Node : m # n => toMac'[m] = toMac[m]
  BY <1>2, <1>3, Dropped
<1>8. toMac'[n] \in Seq(Sendable(msgs, got, n))
  BY <1>2, <1>3, <1>7, HeadAndTail
<1>9. ASSUME NEW m \in Node
      PROVE  /\ heard'[m] \in Seq(Frame(Hearable(msgs, got, m)))
             /\ heard'[m] \in Seq(Frame(Blob))
  <2>1. heard[m] \in Seq(Frame(Hearable(msgs, got, m))) /\ heard[m] \in Seq(Frame(Blob))
    BY DEF BaseInv, PortsInv, ContentsInv
  <2>2. CASE m # n /\ fate[m] # "lost"
    <3>1. PICK f : f = [blob |-> b, ok |-> fate[m] = "intact"]
      OBVIOUS
    <3>2. heard'[m] = Append(heard[m], f)
      BY <1>6, <2>2, <3>1
    <3>3. b \in Hearable(msgs, got, m) /\ b \in Blob
      BY <1>4, <1>5, <2>2
    <3>4. f \in Frame(Hearable(msgs, got, m)) /\ f \in Frame(Blob)
      BY <3>1, <3>3 DEF Frame
    <3>5. QED
      BY <2>1, <3>2, <3>4, Put
  <2>3. CASE ~ (m # n /\ fate[m] # "lost")
    BY <1>6, <2>1, <2>3
  <2>4. QED
    BY <2>2, <2>3
<1>10. missed' \subseteq Node \X Byte
  <2>1. missed \subseteq Node \X Byte
    BY DEF BaseInv, PortsInv
  <2>2. b[Len(b)] \in Byte
    <3>1. Len(b) \in Nat /\ Len(b) # 0
      BY <1>2, <1>4, EmptySeq, LenProperties DEF Eof, Blob
    <3>2. Len(b) \in 1 .. Len(b)
      BY <3>1
    <3>3. QED
      BY <1>4, <3>2 DEF Blob
  <2>3. 0 \in Byte
    BY DEF Byte
  <2>4. PICK x \in Byte : x = IF IsAck(b) THEN 0 ELSE b[Len(b)]
    BY <2>2, <2>3
  <2>5. missed' = missed \cup {<<m, x>> : m \in {p \in Node \ {n} : fate[p] # "intact"}}
    BY <1>6, <2>4
  <2>6. QED
    BY <2>1, <2>5
<1>11. heard' \in [Node -> Seq(Frame(Blob))]
  <2>1. heard' = [m \in Node |-> heard'[m]]
    BY <1>6
  <2>2. QED
    BY <1>9, <2>1
<1>12. SendersInv' /\ HeldInv' /\ WellFormed(msgs')
  BY <1>2 DEF BaseInv, SendersInv, HeldInv, WellFormed, rimeVars
<1>13. PortsInv'
  BY <1>2, <1>7, <1>10, <1>11 DEF BaseInv, PortsInv, rimeVars
<1>14. ContentsInv'
  BY <1>2, <1>7, <1>8, <1>9 DEF BaseInv, ContentsInv
<1>15. QED
  BY <1>12, <1>13, <1>14 DEF BaseInv

LEMMA BaseMacReceive ==
  ASSUME BaseInv, NEW n \in Node, MacReceive(n)
  PROVE  BaseInv'
<1>1. PICK f : f = Head(heard[n])
  OBVIOUS
<1>2. /\ heard[n] # << >> /\ heard' = [heard EXCEPT ![n] = Tail(@)]
      /\ toRime' = [toRime EXCEPT ![n] = IF f.ok THEN Append(@, f.blob) ELSE @]
      /\ UNCHANGED <<rimeVars, toMac, macDone, msgs, got, missed>>
  BY <1>1 DEF MacReceive
<1>3. /\ heard \in [Node -> Seq(Frame(Blob))] /\ toRime \in [Node -> Seq(Blob)]
      /\ heard[n] \in Seq(Frame(Hearable(msgs, got, n)))
      /\ toRime[n] \in Seq(Hearable(msgs, got, n))
  BY DEF BaseInv, PortsInv, ContentsInv
<1>4. f \in Frame(Blob) /\ f \in Frame(Hearable(msgs, got, n))
  BY <1>1, <1>2, <1>3, HeadAndTail
<1>5. f.blob \in Blob /\ f.blob \in Hearable(msgs, got, n)
  BY <1>4 DEF Frame
<1>6. /\ heard' \in [Node -> Seq(Frame(Blob))] /\ heard'[n] = Tail(heard[n])
      /\ \A m \in Node : m # n => heard'[m] = heard[m]
  BY <1>2, <1>3, Dropped
<1>7. heard'[n] \in Seq(Frame(Hearable(msgs, got, n)))
  BY <1>2, <1>3, <1>6, HeadAndTail
<1>8. /\ toRime' \in [Node -> Seq(Blob)]
      /\ \A m \in Node : m # n => toRime'[m] = toRime[m]
      /\ toRime'[n] \in Seq(Hearable(msgs, got, n))
  <2>1. CASE f.ok
    <3>1. toRime' = [toRime EXCEPT ![n] = Append(@, f.blob)]
      BY <1>2, <2>1
    <3>2. /\ toRime' \in [Node -> Seq(Blob)] /\ toRime'[n] = Append(toRime[n], f.blob)
          /\ \A m \in Node : m # n => toRime'[m] = toRime[m]
      BY <1>3, <1>5, <3>1, Appended
    <3>3. QED
      BY <1>3, <1>5, <3>2, Put
  <2>2. CASE ~ f.ok
    BY <1>2, <1>3, <2>2
  <2>3. QED
    BY <2>1, <2>2
<1>9. SendersInv' /\ HeldInv' /\ WellFormed(msgs')
  BY <1>2 DEF BaseInv, SendersInv, HeldInv, WellFormed, rimeVars
<1>10. PortsInv'
  BY <1>2, <1>6, <1>8 DEF BaseInv, PortsInv, rimeVars
<1>11. ContentsInv'
  BY <1>2, <1>6, <1>7, <1>8 DEF BaseInv, ContentsInv
<1>12. QED
  BY <1>9, <1>10, <1>11 DEF BaseInv

\* What unpack does with message k: it outputs it, and acknowledges it on a reliable
\* connection, or the message was not meant for this node, or its channel cannot be
\* told.
OutputStep(n, k) ==
  /\ msgs[k].conn.kind # "bc" => msgs[k].to = n
  /\ got' = [got EXCEPT ![n] = Append(@, [conn |-> msgs[k].conn, payload |-> <<k>>])]
  /\ \/ msgs[k].conn.kind # "ruc" /\ UNCHANGED toMac
     \/ msgs[k].conn.kind = "ruc" /\ Publish(toMac, n, AckBlob(msgs[k]))

LEMMA UnpackData ==
  ASSUME BaseInv, NEW n \in Node, Unpack(n), NEW k \in DOMAIN msgs,
         Head(toRime[n]) = DataBlob(msgs[k], k)
  PROVE  \/ UNCHANGED <<got, toMac>> /\ ~ (Expects(n, k) /\ msgs[k].conn.channel < 256)
         \/ OutputStep(n, k)
<1>1. PICK m, b : m = msgs[k] /\ b = DataBlob(m, k)
  OBVIOUS
<1>2. m \in Sent /\ k \in Byte /\ m.conn.kind \in Kinds /\ m \in Message
  BY <1>1, SentAt, SentIsMessage, MessageParts DEF BaseInv
<1>3. /\ m.conn.kind = "bc" => Rest(b, BcHeaderLength) = <<k>>
      /\ m.conn.kind = "uc" => Rest(b, UcHeaderLength) = <<k>> /\ UcTarget(b) = m.to
      /\ m.conn.kind = "ruc" =>
           /\ Rest(b, RucHeaderLength) = <<k>>
           /\ RucTarget(b) = m.to /\ RucSender(b) = m.from
           /\ ~ RucIsAck(b) /\ RucSeqno(b) = m.seqno
  BY <1>1, <1>2, DataBytes
<1>4. Begins(b, m.conn.channel)
  BY <1>1, <1>2, DataBytes
<1>5. CASE MatchingConns(n, b) = {}
  <2>1. UNCHANGED <<got, toMac>>
    BY <1>1, <1>5 DEF Unpack
  <2>2. ASSUME Expects(n, k), m.conn.channel < 256 PROVE FALSE
    <3>1. PICK i \in DOMAIN Config[n] : Config[n][i] = m.conn
      BY <1>1, <2>2 DEF Expects, MeantFor
    <3>2. i \in MatchingConns(n, b)
      BY <1>2, <1>4, <2>2, <3>1, Matched
    <3>3. QED
      BY <1>5, <3>2
  <2>3. QED
    BY <1>1, <2>1, <2>2
<1>6. CASE MatchingConns(n, b) # {}
  <2>1. PICK i : i = FirstOf(MatchingConns(n, b))
    OBVIOUS
  <2>2. i \in MatchingConns(n, b)
    BY <1>6, <2>1, FirstInSet
  <2>3. Config[n][i] = m.conn
    BY <1>2, <1>4, <2>2, Dispatch
  <2>4. (CASE Config[n][i].kind = "bc"  -> UnpackBc(n, i, b)
           [] Config[n][i].kind = "uc"  -> UnpackUc(n, i, b)
           [] Config[n][i].kind = "ruc" -> UnpackRuc(n, i, b))
    BY <1>1, <1>6, <2>1 DEF Unpack
  <2>5. CASE m.conn.kind = "bc"
    <3>1. UnpackBc(n, i, b)
      BY <2>3, <2>4, <2>5
    <3>2. QED
      BY <1>1, <1>3, <2>3, <2>5, <3>1 DEF UnpackBc, Output, OutputStep
  <2>6. CASE m.conn.kind = "uc"
    <3>1. UnpackUc(n, i, b)
      BY <2>3, <2>4, <2>6
    <3>2. CASE m.to = n
      BY <1>1, <1>3, <2>3, <2>6, <3>1, <3>2 DEF UnpackUc, Output, OutputStep
    <3>3. CASE m.to # n
      BY <1>1, <1>3, <2>6, <3>1, <3>3 DEF UnpackUc, Expects, MeantFor
    <3>4. QED
      BY <3>2, <3>3
  <2>7. CASE m.conn.kind = "ruc"
    <3>1. UnpackRuc(n, i, b)
      BY <2>3, <2>4, <2>7
    <3>2. CASE m.to = n
      <4>1. /\ Output(n, i, <<k>>)
            /\ Publish(toMac, n, RucHeader(m.conn.channel, TRUE, m.seqno, m.to, m.from))
        BY <1>3, <2>3, <2>7, <3>1, <3>2 DEF UnpackRuc
      <4>2. Publish(toMac, n, AckBlob(m))
        BY <4>1 DEF AckBlob
      <4>3. QED
        BY <1>1, <2>3, <2>7, <3>2, <4>1, <4>2 DEF Output, OutputStep
    <3>3. CASE m.to # n
      BY <1>1, <1>3, <2>7, <3>1, <3>3 DEF UnpackRuc, Expects, MeantFor
    <3>4. QED
      BY <3>2, <3>3
  <2>8. QED
    BY <1>2, <2>5, <2>6, <2>7 DEF Kinds
<1>7. QED
  BY <1>5, <1>6

\* An acknowledgement is not output and not answered.
LEMMA UnpackAck ==
  ASSUME BaseInv, NEW n \in Node, Unpack(n), NEW k \in DOMAIN msgs,
         msgs[k].conn.kind = "ruc", Head(toRime[n]) = AckBlob(msgs[k])
  PROVE  UNCHANGED <<got, toMac>>
<1>1. PICK m, b : m = msgs[k] /\ b = AckBlob(m)
  OBVIOUS
<1>2. m \in Sent /\ m \in Message
  BY <1>1, SentAt, SentIsMessage DEF BaseInv
<1>3. Begins(b, m.conn.channel) /\ RucIsAck(b)
  BY <1>1, <1>2, AckBytes
<1>4. CASE MatchingConns(n, b) = {}
  BY <1>1, <1>4 DEF Unpack
<1>5. CASE MatchingConns(n, b) # {}
  <2>1. PICK i : i = FirstOf(MatchingConns(n, b))
    OBVIOUS
  <2>2. i \in MatchingConns(n, b)
    BY <1>5, <2>1, FirstInSet
  <2>3. Config[n][i] = m.conn
    BY <1>2, <1>3, <2>2, Dispatch
  <2>4. (CASE Config[n][i].kind = "bc"  -> UnpackBc(n, i, b)
           [] Config[n][i].kind = "uc"  -> UnpackUc(n, i, b)
           [] Config[n][i].kind = "ruc" -> UnpackRuc(n, i, b))
    BY <1>1, <1>5, <2>1 DEF Unpack
  <2>5. UnpackRuc(n, i, b)
    BY <1>1, <2>3, <2>4
  <2>6. QED
    BY <1>3, <2>5 DEF UnpackRuc
<1>6. QED
  BY <1>4, <1>5

LEMMA BaseUnpack ==
  ASSUME BaseInv, NEW n \in Node, Unpack(n)
  PROVE  BaseInv' /\ MoreOutput(got, got')
<1>1. PICK b : b = Head(toRime[n])
  OBVIOUS
<1>2. /\ toRime[n] # << >> /\ toRime' = [toRime EXCEPT ![n] = Tail(@)]
      /\ UNCHANGED <<rimeVars, heard, macDone, msgs, missed>>
  BY DEF Unpack
<1>3. /\ toRime \in [Node -> Seq(Blob)] /\ toRime[n] \in Seq(Hearable(msgs, got, n))
      /\ toMac \in [Node -> Seq(Blob)] /\ got \in [Node -> Seq(OutputRec)]
      /\ toMac[n] \in Seq(Sendable(msgs, got, n)) /\ got[n] \in Seq(Outputs(msgs, n))
  BY DEF BaseInv, PortsInv, ContentsInv
<1>4. b \in Hearable(msgs, got, n)
  BY <1>1, <1>2, <1>3, HeadAndTail
<1>5. /\ toRime' \in [Node -> Seq(Blob)] /\ toRime'[n] = Tail(toRime[n])
      /\ \A m \in Node : m # n => toRime'[m] = toRime[m]
  BY <1>2, <1>3, Dropped
<1>6. toRime'[n] \in Seq(Hearable(msgs, got, n))
  BY <1>2, <1>3, <1>5, HeadAndTail
<1>7. SendersInv' /\ HeldInv' /\ WellFormed(msgs')
  BY <1>2 DEF BaseInv, SendersInv, HeldInv, WellFormed, rimeVars
<1>8. CASE UNCHANGED <<got, toMac>>
  <2>1. PortsInv'
    BY <1>2, <1>5, <1>8 DEF BaseInv, PortsInv, rimeVars
  <2>2. ContentsInv'
    BY <1>2, <1>5, <1>6, <1>8 DEF BaseInv, ContentsInv
  <2>3. QED
    BY <1>7, <1>8, <2>1, <2>2 DEF BaseInv, MoreOutput
<1>9. ASSUME NEW k \in DOMAIN msgs, msgs[k].from # n, OutputStep(n, k)
      PROVE  BaseInv' /\ MoreOutput(got, got')
  <2>1. PICK g : g = [conn |-> msgs[k].conn, payload |-> <<k>>]
    OBVIOUS
  <2>2. k \in Byte /\ msgs[k] \in Sent /\ msgs[k].conn \in Connection /\ msgs[k].conn.kind \in Kinds
    BY SentAt, SentIsMessage, MessageParts DEF BaseInv
  <2>3. g \in OutputRec /\ g \in Outputs(msgs, n)
    <3>1. g \in OutputRec
      BY <2>1, <2>2 DEF OutputRec, Blob
    <3>2. QED
      BY <1>9, <2>1, <3>1 DEF Outputs, OutputStep
  <2>4. got' = [got EXCEPT ![n] = Append(@, g)]
    BY <1>9, <2>1 DEF OutputStep
  <2>5. /\ got' \in [Node -> Seq(OutputRec)] /\ got'[n] = Append(got[n], g)
        /\ \A m \in Node : m # n => got'[m] = got[m]
    BY <1>3, <2>3, <2>4, Appended
  <2>6. got'[n] \in Seq(Outputs(msgs, n))
    BY <1>3, <2>3, <2>5, Put
  <2>7. /\ DOMAIN got[n] = 1 .. Len(got[n]) /\ Len(got[n]) \in Nat
        /\ DOMAIN got'[n] = 1 .. (Len(got[n]) + 1)
        /\ got'[n][Len(got[n]) + 1] = g
        /\ \A j \in 1 .. Len(got[n]) : got'[n][j] = got[n][j]
    <3>1. got[n] \in Seq(OutputRec) /\ g \in OutputRec
      BY <1>3, <2>3
    <3>2. QED
      BY <2>5, <3>1, AppendProperties, LenProperties
  <2>8. MoreOutput(got, got')
    <3>1. ASSUME NEW m \in Node, NEW j \in DOMAIN got[m]
          PROVE  j \in DOMAIN got'[m] /\ got'[m][j] = got[m][j]
      <4>1. CASE m = n
        BY <2>7, <4>1
      <4>2. CASE m # n
        BY <2>5, <4>2
      <4>3. QED
        BY <4>1, <4>2
    <3>2. QED
      BY <3>1 DEF MoreOutput
  <2>9. Longer(msgs, msgs')
    BY <1>2 DEF Longer
  <2>10. /\ toMac' \in [Node -> Seq(Blob)]
         /\ \A m \in Node : m # n => toMac'[m] = toMac[m]
         /\ toMac'[n] \in Seq(Sendable(msgs, got', n))
    <3>1. toMac[n] \in Seq(Sendable(msgs, got', n))
      BY <1>2, <2>8, <2>9, QueuesKept
    <3>2. CASE UNCHANGED toMac
      BY <1>3, <3>1, <3>2
    <3>3. CASE msgs[k].conn.kind = "ruc" /\ Publish(toMac, n, AckBlob(msgs[k]))
      <4>1. PICK a : a = AckBlob(msgs[k])
        OBVIOUS
      <4>2. a \in Blob
        BY <2>2, <4>1, AckBytes, SentIsMessage
      <4>3. OutputAt(got', n, k)
        BY <2>1, <2>7 DEF OutputAt
      <4>4. msgs[k].to = n
        BY <1>9, <3>3 DEF OutputStep
      <4>5. a \in Sendable(msgs, got', n)
        BY <3>3, <4>1, <4>2, <4>3, <4>4 DEF Sendable, EarnedAcks
      <4>6. toMac' = [toMac EXCEPT ![n] = Append(@, a)]
        BY <3>3, <4>1 DEF Publish
      <4>7. /\ toMac' \in [Node -> Seq(Blob)] /\ toMac'[n] = Append(toMac[n], a)
            /\ \A m \in Node : m # n => toMac'[m] = toMac[m]
        BY <1>3, <4>2, <4>6, Appended
      <4>8. QED
        BY <3>1, <4>5, <4>7, Put
    <3>4. QED
      BY <1>9, <3>2, <3>3 DEF OutputStep
  <2>11. PortsInv'
    BY <1>2, <1>5, <2>5, <2>10 DEF BaseInv, PortsInv, rimeVars
  <2>12. ASSUME NEW m \in Node
         PROVE  /\ toMac'[m] \in Seq(Sendable(msgs, got', m))
                /\ heard[m] \in Seq(Frame(Hearable(msgs, got', m)))
                /\ toRime'[m] \in Seq(Hearable(msgs, got', m))
                /\ got'[m] \in Seq(Outputs(msgs, m))
    <3>1. /\ toMac[m] \in Seq(Sendable(msgs, got', m))
          /\ heard[m] \in Seq(Frame(Hearable(msgs, got', m)))
          /\ toRime[m] \in Seq(Hearable(msgs, got', m))
          /\ got[m] \in Seq(Outputs(msgs, m))
      BY <1>2, <2>8, <2>9, QueuesKept
    <3>2. toRime[n] \in Seq(Hearable(msgs, got', n))
      BY <1>2, <2>8, <2>9, QueuesKept
    <3>3. toRime'[n] \in Seq(Hearable(msgs, got', n))
      BY <1>2, <1>5, <3>2, HeadAndTail
    <3>4. CASE m = n
      BY <2>6, <2>10, <3>1, <3>3, <3>4
    <3>5. CASE m # n
      BY <1>5, <2>5, <2>10, <3>1, <3>5
    <3>6. QED
      BY <3>4, <3>5
  <2>13. ContentsInv'
    BY <1>2, <2>12 DEF ContentsInv
  <2>14. QED
    BY <1>7, <2>8, <2>11, <2>13 DEF BaseInv
<1>10. CASE b \in OthersData(msgs, n)
  <2>1. PICK k \in DOMAIN msgs : msgs[k].from # n /\ b = DataBlob(msgs[k], k)
    BY <1>10 DEF OthersData
  <2>2. UNCHANGED <<got, toMac>> \/ OutputStep(n, k)
    BY <1>1, <2>1, UnpackData
  <2>3. QED
    BY <1>8, <1>9, <2>1, <2>2
<1>11. CASE b \in EarnedAcks(msgs, got)
  <2>1. PICK k \in DOMAIN msgs : msgs[k].conn.kind = "ruc" /\ b = AckBlob(msgs[k])
    BY <1>11 DEF EarnedAcks
  <2>2. UNCHANGED <<got, toMac>>
    BY <1>1, <2>1, UnpackAck
  <2>3. QED
    BY <1>8, <2>2
<1>12. QED
  BY <1>4, <1>10, <1>11 DEF Hearable

-----------------------------------------------------------------------------
LEMMA BaseInit == Init => BaseInv
<1> SUFFICES ASSUME Init PROVE BaseInv
  OBVIOUS
<1>1. \A S : << >> \in Seq(S)
  OBVIOUS
<1>2. WellFormed(msgs)
  <2>1. msgs = << >> /\ Len(msgs) = 0 /\ 0 <= NumMsgs
    BY BoundsAssumption DEF Init
  <2>2. QED
    BY <1>1, <2>1 DEF WellFormed
<1>3. SendersInv
  <2>1. 0 \in 0 .. 3 /\ 0 \in 0 .. MaxTries
    BY BoundsAssumption
  <2>2. QED
    BY <1>1, <2>1 DEF Init, PerConn, SendersInv
<1>4. HeldInv
  <2>1. ASSUME NEW n \in Node, NEW i \in DOMAIN Config[n]
        PROVE  held[n][i] = << >> /\ tries[n][i] = 0
    BY DEF Init, PerConn
  <2>2. ~ (0 > 0)
    OBVIOUS
  <2>3. QED
    BY <1>1, <2>1, <2>2 DEF HeldInv
<1>5. PortsInv
  BY <1>1 DEF Init, PortsInv
<1>6. ContentsInv
  BY <1>1 DEF Init, ContentsInv
<1>7. QED
  BY <1>2, <1>3, <1>4, <1>5, <1>6 DEF BaseInv

\* The actions of a node, one by one.
LEMMA Actions ==
  ASSUME NEW n \in Node, RimeStack(n) \/ StubbornSender(n) \/ Mac(n)
  PROVE  \/ \E i \in Conns(n, "bc") : PackBc(n, i)
         \/ \E i \in Conns(n, "uc"), d \in Targets \ {n} : PackUc(n, i, d)
         \/ \E i \in Conns(n, "ruc"), d \in Targets \ {n} : PackRuc(n, i, d)
         \/ PackEof(n) \/ Unpack(n)
         \/ \E i \in Conns(n, "ruc") : SendHeld(n, i)
         \/ \E i \in Conns(n, "ruc") : Settle(n, i)
         \/ MacSend(n) \/ MacEof(n) \/ MacReceive(n)
BY DEF RimeStack, StubbornSender, Mac

LEMMA BaseStep == BaseInv /\ [Next]_vars => BaseInv'
<1> SUFFICES ASSUME BaseInv, [Next]_vars PROVE BaseInv'
  OBVIOUS
<1>1. CASE UNCHANGED vars
  BY <1>1 DEF vars, BaseInv, WellFormed, SendersInv, HeldInv, PortsInv, ContentsInv
<1>2. CASE Next
  <2>1. PICK n \in Node : RimeStack(n) \/ StubbornSender(n) \/ Mac(n)
    BY <1>2 DEF Next
  <2>2. CASE \E i \in Conns(n, "bc") : PackBc(n, i)
    BY <2>2, BasePackBc
  <2>3. CASE \E i \in Conns(n, "uc"), d \in Targets \ {n} : PackUc(n, i, d)
    BY <2>3, BasePackUc
  <2>4. CASE \E i \in Conns(n, "ruc"), d \in Targets \ {n} : PackRuc(n, i, d)
    BY <2>4, BasePackRuc
  <2>5. CASE PackEof(n)
    BY <2>5, BasePackEof
  <2>6. CASE Unpack(n)
    BY <2>6, BaseUnpack
  <2>7. CASE \E i \in Conns(n, "ruc") : SendHeld(n, i)
    BY <2>7, BaseSendHeld
  <2>8. CASE \E i \in Conns(n, "ruc") : Settle(n, i)
    BY <2>8, BaseSettle
  <2>9. CASE MacSend(n)
    BY <2>9, BaseMacSend
  <2>10. CASE MacEof(n)
    BY <2>10, BaseMacEof
  <2>11. CASE MacReceive(n)
    BY <2>11, BaseMacReceive
  <2>12. QED
    BY <2>1, <2>2, <2>3, <2>4, <2>5, <2>6, <2>7, <2>8, <2>9, <2>10, <2>11, Actions
<1>3. QED
  BY <1>1, <1>2

\* What is in the queues of rime_stack and mac was submitted, or is an earned
\* acknowledgement, in every reachable state.
THEOREM BaseInvariance == Spec => []BaseInv
<1>1. QED
  BY BaseInit, BaseStep, PTL DEF Spec

-----------------------------------------------------------------------------
(***************************************************************************)
(* What follows from it.                                                   *)
(***************************************************************************)

\* TypeOK holds in every reachable state: rime_stack, its stubborn senders and mac
\* keep their counters in range and put nothing but bytes in their queues.
THEOREM TypeCorrect == Spec => []TypeOK
<1>1. BaseInv => TypeOK
  <2> SUFFICES ASSUME BaseInv PROVE TypeOK
    OBVIOUS
  <2>1. msgs \in Seq(Message)
    <3>1. msgs \in Seq(Sent) /\ Sent \subseteq Message
      BY DEF BaseInv, WellFormed, Sent
    <3>2. QED
      BY <3>1, SeqOfMore
  <2>2. ASSUME NEW n \in Node, NEW i \in DOMAIN Config[n]
        PROVE  /\ sendSeq[n][i] \in 0 .. (SeqMod - 1)
               /\ held[n][i] \in Seq(Blob)
               /\ tries[n][i] \in 0 .. MaxTries
    BY DEF BaseInv, SendersInv, SeqMod
  <2>3. ASSUME NEW n \in Node
        PROVE  /\ toMac[n] \in Seq(Blob) /\ toRime[n] \in Seq(Blob)
               /\ heard[n] \in Seq([blob : Blob, ok : BOOLEAN])
               /\ got[n] \in Seq([conn : [kind : Kinds, channel : Channel], payload : Blob])
    BY DEF BaseInv, PortsInv, Frame, OutputRec, Connection
  <2>4. QED
    BY <2>1, <2>2, <2>3 DEF TypeOK, BaseInv, PortsInv, Message, Connection
<1>2. QED
  BY <1>1, BaseInvariance, PTL

\* No node outputs a message that was not meant for it, on another connection, or
\* with another payload (NoMisdelivery): make_msgbuf, rime_stack_impl::unpack and the
\* unpack of the three kinds of connection, for any addresses, and any channels of
\* which each is of one kind.
THEOREM NothingMisdelivered == Spec => []NoMisdelivery
<1>1. BaseInv => NoMisdelivery
  <2> SUFFICES ASSUME BaseInv, NEW n \in Node, NEW j \in DOMAIN got[n]
               PROVE  \E k \in MsgIds :
                        got[n][j].payload = <<k>> /\ MeantFor(n, k, got[n][j].conn)
    BY DEF NoMisdelivery
  <2>1. got[n] \in Seq(Outputs(msgs, n))
    BY DEF BaseInv, ContentsInv
  <2>2. got[n][j] \in Outputs(msgs, n)
    BY <2>1
  <2>3. QED
    BY <2>2 DEF Outputs, MeantFor, MsgIds
<1>2. QED
  BY <1>1, BaseInvariance, PTL

\* Every acknowledgement on its way answers a message its sender has output
\* (AcksAreEarned), whatever the addresses and payloads are.
THEOREM AcksEarned == Spec => []AcksAreEarned
<1>1. BaseInv => AcksAreEarned
  <2> SUFFICES ASSUME BaseInv PROVE AcksAreEarned
    OBVIOUS
  <2>1. ASSUME NEW k \in DOMAIN msgs
        PROVE  ~ IsAck(DataBlob(msgs[k], k))
    BY SentAt, DataIsNoAck DEF BaseInv
  <2>2. ASSUME NEW b \in EarnedAcks(msgs, got)
        PROVE  EarnedAck(b)
    <3>1. PICK k \in DOMAIN msgs :
            /\ msgs[k].conn.kind = "ruc" /\ msgs[k].to \in Node
            /\ OutputAt(got, msgs[k].to, k) /\ b = AckBlob(msgs[k])
      BY DEF EarnedAcks
    <3>2. msgs[k] \in Message
      BY SentAt, SentIsMessage DEF BaseInv
    <3>3. RucTarget(b) = msgs[k].from /\ RucSender(b) = msgs[k].to /\ RucSeqno(b) = msgs[k].seqno
      BY <3>1, <3>2, AckBytes
    <3>4. QED
      BY <3>1, <3>3 DEF EarnedAck, OutputAt, MsgIds
  <2>3. \A n \in Node : \A b : b \in Sendable(msgs, got, n) => EarnedAck(b)
    <3>1. ~ IsAck(Eof)
      BY DEF IsAck
    <3>2. QED
      BY <2>1, <2>2, <3>1 DEF Sendable, OwnData, EarnedAck
  <2>4. \A n \in Node : \A b : b \in Hearable(msgs, got, n) => EarnedAck(b)
    BY <2>1, <2>2 DEF Hearable, OthersData, EarnedAck
  <2>5. ASSUME NEW n \in Node, NEW j \in DOMAIN toMac[n]
        PROVE  EarnedAck(toMac[n][j])
    <3>1. toMac[n][j] \in Sendable(msgs, got, n)
      BY DEF BaseInv, ContentsInv
    <3>2. QED
      BY <2>3, <3>1
  <2>6. ASSUME NEW n \in Node, NEW j \in DOMAIN heard[n]
        PROVE  EarnedAck(heard[n][j].blob)
    <3>1. heard[n][j] \in Frame(Hearable(msgs, got, n))
      BY DEF BaseInv, ContentsInv
    <3>2. heard[n][j].blob \in Hearable(msgs, got, n)
      BY <3>1 DEF Frame
    <3>3. QED
      BY <2>4, <3>2
  <2>7. ASSUME NEW n \in Node, NEW j \in DOMAIN toRime[n]
        PROVE  EarnedAck(toRime[n][j])
    <3>1. toRime[n][j] \in Hearable(msgs, got, n)
      BY DEF BaseInv, ContentsInv
    <3>2. QED
      BY <2>4, <3>1
  <2>8. QED
    BY <2>5, <2>6, <2>7 DEF AcksAreEarned
<1>2. QED
  BY <1>1, BaseInvariance, PTL

-----------------------------------------------------------------------------
(***************************************************************************)
(* The end of the stream. FlushedAtEof is not inductive: it says nothing   *)
(* of the time between PMT_EOF entering the port and mac reading it. Until *)
(* rime_stack is done there is no PMT_EOF in its port, and behind one no   *)
(* broadcast or unicast message waits.                                     *)
(***************************************************************************)

LEMMA AppendAt ==
  ASSUME NEW S, NEW s \in Seq(S), NEW x \in S
  PROVE  /\ \A j \in DOMAIN s : j \in DOMAIN Append(s, x) /\ Append(s, x)[j] = s[j]
         /\ \A j \in DOMAIN Append(s, x) : j \in DOMAIN s \/ Append(s, x)[j] = x
         /\ \A j \in DOMAIN Append(s, x) : j \notin DOMAIN s =>
              \A l \in DOMAIN Append(s, x) : l <= j
         /\ \E j \in DOMAIN Append(s, x) : Append(s, x)[j] = x
<1>1. PICK r : r = Append(s, x)
  OBVIOUS
<1>2. /\ r \in Seq(S) /\ Len(r) = Len(s) + 1 /\ Len(s) \in Nat
      /\ DOMAIN s = 1 .. Len(s) /\ DOMAIN r = 1 .. (Len(s) + 1)
      /\ r[Len(s) + 1] = x /\ \A j \in 1 .. Len(s) : r[j] = s[j]
  BY <1>1, AppendProperties, LenProperties
<1>3. \A j \in DOMAIN s : j \in DOMAIN r /\ r[j] = s[j]
  BY <1>2
<1>4. \A j \in DOMAIN r : j \in DOMAIN s \/ j = Len(s) + 1
  BY <1>2
<1>5. \A l \in DOMAIN r : l <= Len(s) + 1
  BY <1>2
<1>6. Len(s) + 1 \in DOMAIN r
  BY <1>2
<1>7. QED
  BY <1>1, <1>2, <1>3, <1>4, <1>5, <1>6

LEMMA TailAt ==
  ASSUME NEW S, NEW s \in Seq(S), s # << >>
  PROVE  /\ \A j \in DOMAIN Tail(s) : j + 1 \in DOMAIN s /\ Tail(s)[j] = s[j + 1] /\ j + 1 # 1
         /\ \A j \in DOMAIN s : j # 1 => j - 1 \in DOMAIN Tail(s) /\ Tail(s)[j - 1] = s[j]
         /\ 1 \in DOMAIN s /\ Head(s) = s[1]
         /\ \A j \in DOMAIN s : 1 <= j /\ j \in Int
         /\ \A j \in DOMAIN Tail(s) : j \in Int
<1>1. PICK r : r = Tail(s)
  OBVIOUS
<1>2. /\ r \in Seq(S) /\ Len(r) = Len(s) - 1 /\ Len(s) \in Nat /\ Len(s) # 0
      /\ DOMAIN s = 1 .. Len(s) /\ DOMAIN r = 1 .. (Len(s) - 1)
      /\ Head(s) = s[1] /\ \A j \in 1 .. (Len(s) - 1) : r[j] = s[j + 1]
  BY <1>1, HeadTailProperties, EmptySeq, LenProperties
<1>3. \A j \in 1 .. (Len(s) - 1) : j + 1 \in 1 .. Len(s) /\ j + 1 # 1 /\ j \in Int
  BY <1>2
<1>4. \A j \in 1 .. Len(s) : 1 <= j /\ j \in Int /\ (j # 1 => j - 1 \in 1 .. (Len(s) - 1))
  BY <1>2
<1>5. \A j \in 1 .. Len(s) : j # 1 => r[j - 1] = s[j]
  <2>1. ASSUME NEW j \in 1 .. Len(s), j # 1 PROVE r[j - 1] = s[j]
    <3>1. j - 1 \in 1 .. (Len(s) - 1) /\ (j - 1) + 1 = j
      BY <1>2, <2>1
    <3>2. QED
      BY <1>2, <3>1
  <2>2. QED
    BY <2>1
<1>6. 1 \in 1 .. Len(s)
  BY <1>2
<1>7. QED
  BY <1>1, <1>2, <1>3, <1>4, <1>5, <1>6

\* The broadcasts and unicasts of a node.
PromptData(ms, n) ==
  {b \in Blob : \E k \in DOMAIN ms :
     ms[k].from = n /\ ms[k].conn.kind # "ruc" /\ b = DataBlob(ms[k], k)}

FlushAt(ms, done, ended, q, n) ==
  /\ n \notin done => n \notin ended /\ \A j \in DOMAIN q : q[j] # Eof
  /\ \A j, l \in DOMAIN q : j < l /\ q[j] = Eof => q[l] \notin PromptData(ms, n)
  /\ n \in ended => \A l \in DOMAIN q : q[l] \notin PromptData(ms, n)

FlushInv == \A n \in Node : FlushAt(msgs, rimeDone, macDone, toMac[n], n)

LEMMA SameData ==
  ASSUME NEW ms, WellFormed(ms), NEW k \in DOMAIN ms, NEW l \in DOMAIN ms,
         DataBlob(ms[k], k) = DataBlob(ms[l], l)
  PROVE  k = l
<1>1. PICK b : b = DataBlob(ms[k], k) /\ b = DataBlob(ms[l], l)
  OBVIOUS
<1>2. k \in Byte /\ l \in Byte /\ ms[k] \in Message /\ ms[l] \in Message
  BY SentAt, SentIsMessage
<1>3. b[Len(b)] = k
  BY <1>1, <1>2, DataBytes
<1>4. b[Len(b)] = l
  BY <1>1, <1>2, DataBytes
<1>5. QED
  BY <1>3, <1>4

\* Before rime_stack is done anything but PMT_EOF can be put into the port.
LEMMA FlushOpen ==
  ASSUME NEW ms, NEW ms2, NEW done, NEW ended, NEW n, n \notin done,
         NEW q \in Seq(Blob), FlushAt(ms, done, ended, q, n)
  PROVE  /\ FlushAt(ms2, done, ended, q, n)
         /\ \A x \in Blob : x # Eof => FlushAt(ms2, done, ended, Append(q, x), n)
<1>1. n \notin ended /\ \A j \in DOMAIN q : q[j] # Eof
  BY DEF FlushAt
<1>2. ASSUME NEW x \in Blob, x # Eof, NEW j \in DOMAIN Append(q, x)
      PROVE  Append(q, x)[j] # Eof
  BY <1>1, <1>2, AppendAt
<1>3. QED
  BY <1>1, <1>2 DEF FlushAt

\* Afterwards only what is neither a broadcast nor a unicast is.
LEMMA FlushLate ==
  ASSUME NEW ms, NEW done, NEW ended, NEW n, NEW q \in Seq(Blob),
         FlushAt(ms, done, ended, q, n),
         NEW x \in Blob, x # Eof, x \notin PromptData(ms, n)
  PROVE  FlushAt(ms, done, ended, Append(q, x), n)
<1>1. PICK r : r = Append(q, x)
  OBVIOUS
<1>2. /\ \A j \in DOMAIN r : (j \in DOMAIN q /\ r[j] = q[j]) \/ r[j] = x
      /\ \A j \in DOMAIN r : r[j] = Eof => j \in DOMAIN q /\ q[j] = Eof
  BY <1>1, AppendAt
<1>3. FlushAt(ms, done, ended, r, n)
  BY <1>2 DEF FlushAt
<1>4. QED
  BY <1>1, <1>3

LEMMA FlushEof ==
  ASSUME NEW ms, NEW done, NEW ended, NEW n, n \notin done, NEW q \in Seq(Blob),
         FlushAt(ms, done, ended, q, n)
  PROVE  FlushAt(ms, done \cup {n}, ended, Append(q, Eof), n)
<1>1. PICK r : r = Append(q, Eof)
  OBVIOUS
<1>2. Eof \in Blob
  BY DEF Eof, Blob
<1>3. n \notin ended /\ \A j \in DOMAIN q : q[j] # Eof
  BY DEF FlushAt
<1>4. \A j \in DOMAIN r : r[j] = Eof => \A l \in DOMAIN r : l <= j
  BY <1>1, <1>2, <1>3, AppendAt
<1>5. \A j \in DOMAIN r : j \in Int
  BY <1>1, <1>2, AppendProperties, LenProperties
<1>6. ASSUME NEW j \in DOMAIN r, NEW l \in DOMAIN r, j < l, r[j] = Eof PROVE FALSE
  BY <1>4, <1>5, <1>6
<1>7. FlushAt(ms, done \cup {n}, ended, r, n)
  BY <1>3, <1>6 DEF FlushAt
<1>8. QED
  BY <1>1, <1>7

\* mac takes the first message from its port; when it is PMT_EOF mac ends.
LEMMA FlushTake ==
  ASSUME NEW ms, NEW done, NEW ended, NEW ended2, NEW n, NEW q \in Seq(Blob), q # << >>,
         FlushAt(ms, done, ended, q, n),
         IF Head(q) = Eof THEN ended2 = ended \cup {n} ELSE ended2 = ended
  PROVE  FlushAt(ms, done, ended2, Tail(q), n)
<1>1. PICK r : r = Tail(q)
  OBVIOUS
<1>2. \A j \in DOMAIN r : j + 1 \in DOMAIN q /\ r[j] = q[j + 1] /\ j \in Int /\ 1 < j + 1
  BY <1>1, TailAt
<1>3. 1 \in DOMAIN q /\ Head(q) = q[1]
  BY TailAt
<1>4. n \notin done => n \notin ended2 /\ \A j \in DOMAIN r : r[j] # Eof
  BY <1>2, <1>3 DEF FlushAt
<1>5. ASSUME NEW j \in DOMAIN r, NEW l \in DOMAIN r, j < l, r[j] = Eof
      PROVE  r[l] \notin PromptData(ms, n)
  <2>1. j + 1 < l + 1
    BY <1>2, <1>5
  <2>2. QED
    BY <1>2, <1>5, <2>1 DEF FlushAt
<1>6. ASSUME n \in ended2, NEW l \in DOMAIN r PROVE r[l] \notin PromptData(ms, n)
  <2>1. CASE Head(q) = Eof
    BY <1>2, <1>3, <2>1 DEF FlushAt
  <2>2. CASE Head(q) # Eof
    BY <1>2, <1>6, <2>2 DEF FlushAt
  <2>3. QED
    BY <2>1, <2>2
<1>7. FlushAt(ms, done, ended2, r, n)
  BY <1>4, <1>5, <1>6 DEF FlushAt
<1>8. QED
  BY <1>1, <1>7

LEMMA UnpackEffect ==
  ASSUME BaseInv, NEW n \in Node, Unpack(n)
  PROVE  \/ UNCHANGED <<got, toMac>>
         \/ \E k \in DOMAIN msgs :
              /\ msgs[k].from # n /\ Head(toRime[n]) = DataBlob(msgs[k], k)
              /\ OutputStep(n, k)
<1>1. PICK b : b = Head(toRime[n])
  OBVIOUS
<1>2. toRime[n] # << >> /\ toRime[n] \in Seq(Hearable(msgs, got, n))
  BY DEF Unpack, BaseInv, ContentsInv
<1>3. b \in Hearable(msgs, got, n)
  BY <1>1, <1>2, HeadAndTail
<1>4. CASE b \in OthersData(msgs, n)
  <2>1. PICK k \in DOMAIN msgs : msgs[k].from # n /\ b = DataBlob(msgs[k], k)
    BY <1>4 DEF OthersData
  <2>2. UNCHANGED <<got, toMac>> \/ OutputStep(n, k)
    BY <1>1, <2>1, UnpackData
  <2>3. QED
    BY <1>1, <2>1, <2>2
<1>5. CASE b \in EarnedAcks(msgs, got)
  <2>1. PICK k \in DOMAIN msgs : msgs[k].conn.kind = "ruc" /\ b = AckBlob(msgs[k])
    BY <1>5 DEF EarnedAcks
  <2>2. QED
    BY <1>1, <2>1, UnpackAck
<1>6. QED
  BY <1>3, <1>4, <1>5 DEF Hearable

\* The three operations that pack a message.
LEMMA FlushSubmit ==
  ASSUME BaseInv, FlushInv, NEW n \in Node, NEW i \in DOMAIN Config[n], NEW d \in Address,
         Submit(n, i, d), UNCHANGED <<rimeDone, macDone>>,
         \/ UNCHANGED toMac
         \/ Publish(toMac, n, DataBlob(msgs'[NextId], NextId))
  PROVE  FlushInv'
<1>1. /\ Longer(msgs, msgs') /\ DOMAIN msgs' = DOMAIN msgs \cup {NextId}
      /\ NextId \in Byte /\ msgs'[NextId] \in Sent /\ msgs'[NextId].from = n
  BY Submitted
<1>2. n \notin rimeDone
  BY DEF Submit
<1>3. PICK b : b = DataBlob(msgs'[NextId], NextId)
  OBVIOUS
<1>4. b \in Blob /\ b # Eof
  BY <1>1, <1>3, DataBytes, SentIsMessage
<1>5. toMac \in [Node -> Seq(Blob)]
  BY DEF BaseInv, PortsInv
<1>6. /\ \A m \in Node : m # n => toMac'[m] = toMac[m]
      /\ toMac'[n] = toMac[n] \/ toMac'[n] = Append(toMac[n], b)
  <2>1. CASE UNCHANGED toMac
    BY <2>1
  <2>2. CASE toMac' = [toMac EXCEPT ![n] = Append(@, b)]
    BY <1>4, <1>5, <2>2, Appended
  <2>3. QED
    BY <1>3, <2>1, <2>2 DEF Publish
<1>7. ASSUME NEW m \in Node PROVE FlushAt(msgs', rimeDone, macDone, toMac'[m], m)
  <2>1. FlushAt(msgs, rimeDone, macDone, toMac[m], m) /\ toMac[m] \in Seq(Blob)
    BY <1>5 DEF FlushInv
  <2>2. CASE m = n
    <3>1. /\ FlushAt(msgs', rimeDone, macDone, toMac[m], m)
          /\ FlushAt(msgs', rimeDone, macDone, Append(toMac[m], b), m)
      BY <1>2, <1>4, <2>1, <2>2, FlushOpen
    <3>2. QED
      BY <1>6, <2>2, <3>1
  <2>3. CASE m # n
    <3>1. PromptData(msgs', m) = PromptData(msgs, m)
      BY <1>1, <2>3 DEF PromptData, Longer
    <3>2. QED
      BY <1>6, <2>1, <2>3, <3>1 DEF FlushAt
  <2>4. QED
    BY <2>2, <2>3
<1>8. QED
  BY <1>7 DEF FlushInv

LEMMA FlushStep == BaseInv /\ FlushInv /\ [Next]_vars => FlushInv'
<1> SUFFICES ASSUME BaseInv, FlushInv, [Next]_vars PROVE FlushInv'
  OBVIOUS
<1>1. CASE UNCHANGED vars
  BY <1>1 DEF vars, FlushInv
<1>2. CASE Next
  <2>1. PICK n \in Node : RimeStack(n) \/ StubbornSender(n) \/ Mac(n)
    BY <1>2 DEF Next
  <2>2. ASSUME NEW i \in Conns(n, "bc"), PackBc(n, i) PROVE FlushInv'
    <3>1. /\ i \in DOMAIN Config[n] /\ Config[n][i].kind = "bc" /\ n \in Address
          /\ Submit(n, i, n) /\ UNCHANGED <<rimeDone, macDone>>
      BY <2>2, NodeAssumption DEF Conns, PackBc, rimeVars
    <3>2. msgs'[NextId].from = n /\ msgs'[NextId].conn = Config[n][i]
      BY <3>1, Submitted
    <3>3. Publish(toMac, n, DataBlob(msgs'[NextId], NextId))
      BY <2>2, <3>1, <3>2 DEF DataBlob, HeaderOf, PackBc, Payload, NextId
    <3>4. QED
      BY <3>1, <3>3, FlushSubmit
  <2>3. ASSUME NEW i \in Conns(n, "uc"), NEW d \in Targets \ {n}, PackUc(n, i, d)
        PROVE  FlushInv'
    <3>1. /\ i \in DOMAIN Config[n] /\ Config[n][i].kind = "uc" /\ d \in Address
          /\ Submit(n, i, d) /\ UNCHANGED <<rimeDone, macDone>>
      BY <2>3, NodeAssumption DEF Conns, PackUc, rimeVars
    <3>2. msgs'[NextId].from = n /\ msgs'[NextId].conn = Config[n][i] /\ msgs'[NextId].to = d
      BY <3>1, Submitted
    <3>3. Publish(toMac, n, DataBlob(msgs'[NextId], NextId))
      BY <2>3, <3>1, <3>2 DEF DataBlob, HeaderOf, PackUc, Payload, NextId
    <3>4. QED
      BY <3>1, <3>3, FlushSubmit
  <2>4. ASSUME NEW i \in Conns(n, "ruc"), NEW d \in Targets \ {n}, PackRuc(n, i, d)
        PROVE  FlushInv'
    <3>1. /\ i \in DOMAIN Config[n] /\ d \in Address
          /\ Submit(n, i, d) /\ UNCHANGED <<rimeDone, macDone, toMac>>
      BY <2>4, NodeAssumption DEF Conns, PackRuc
    <3>2. QED
      BY <3>1, FlushSubmit
  <2>5. CASE PackEof(n)
    <3>1. /\ toMac' = [toMac EXCEPT ![n] = Append(@, Eof)] /\ rimeDone' = rimeDone \cup {n}
          /\ n \notin rimeDone /\ UNCHANGED <<msgs, macDone>>
      BY <2>5 DEF PackEof, Publish
    <3>2. toMac \in [Node -> Seq(Blob)] /\ Eof \in Blob
      BY DEF BaseInv, PortsInv, Eof, Blob
    <3>3. toMac'[n] = Append(toMac[n], Eof) /\ \A m \in Node : m # n => toMac'[m] = toMac[m]
      BY <3>1, <3>2, Appended
    <3>4. FlushAt(msgs, rimeDone \cup {n}, macDone, Append(toMac[n], Eof), n)
      BY <3>1, <3>2, FlushEof DEF FlushInv
    <3>5. ASSUME NEW m \in Node, m # n
          PROVE  FlushAt(msgs, rimeDone \cup {n}, macDone, toMac[m], m)
      BY <3>5 DEF FlushInv, FlushAt
    <3>6. QED
      BY <3>1, <3>3, <3>4, <3>5 DEF FlushInv
  <2>6. CASE Unpack(n)
    <3>1. n \notin rimeDone /\ UNCHANGED <<rimeDone, macDone, msgs>>
      BY <2>6 DEF Unpack, rimeVars
    <3>2. CASE UNCHANGED toMac
      BY <3>1, <3>2 DEF FlushInv
    <3>3. ASSUME NEW k \in DOMAIN msgs, Publish(toMac, n, AckBlob(msgs[k])) PROVE FlushInv'
      <4>1. PICK a : a = AckBlob(msgs[k])
        OBVIOUS
      <4>2. a \in Blob /\ a # Eof
        <5>1. msgs[k] \in Message
          BY SentAt, SentIsMessage DEF BaseInv
        <5>2. QED
          BY <4>1, <5>1, AckBytes
      <4>3. toMac \in [Node -> Seq(Blob)] /\ toMac' = [toMac EXCEPT ![n] = Append(@, a)]
        BY <3>3, <4>1 DEF BaseInv, PortsInv, Publish
      <4>4. toMac'[n] = Append(toMac[n], a) /\ \A m \in Node : m # n => toMac'[m] = toMac[m]
        BY <4>2, <4>3, Appended
      <4>5. FlushAt(msgs, rimeDone, macDone, Append(toMac[n], a), n)
        BY <3>1, <4>2, <4>3, FlushOpen DEF FlushInv
      <4>6. QED
        BY <3>1, <4>4, <4>5 DEF FlushInv
    <3>4. QED
      BY <2>6, <3>2, <3>3, UnpackEffect DEF OutputStep
  <2>7. ASSUME NEW i \in Conns(n, "ruc"), SendHeld(n, i) PROVE FlushInv'
    <3>1. UNCHANGED <<rimeDone, macDone, msgs>>
      BY <2>7 DEF SendHeld
    <3>2. PICK b \in HeldData(msgs, n, Config[n][i]) : toMac'[n] = Append(toMac[n], b)
      BY <2>7, BaseSendHeld
    <3>3. \A m \in Node : m # n => toMac'[m] = toMac[m]
      BY <2>7, BaseSendHeld
    <3>4. PICK k \in DOMAIN msgs : msgs[k].conn.kind = "ruc" /\ b = DataBlob(msgs[k], k)
      BY DEF HeldData
    <3>5. b \in Blob /\ b # Eof
      <4>1. k \in Byte /\ msgs[k] \in Message
        BY SentAt, SentIsMessage DEF BaseInv
      <4>2. QED
        BY <3>4, <4>1, DataBytes
    <3>6. b \notin PromptData(msgs, n)
      <4>1. ASSUME NEW l \in DOMAIN msgs, msgs[l].conn.kind # "ruc", b = DataBlob(msgs[l], l)
            PROVE  FALSE
        <5>1. DataBlob(msgs[k], k) = DataBlob(msgs[l], l) /\ WellFormed(msgs)
          BY <3>4, <4>1 DEF BaseInv
        <5>2. k = l
          BY <5>1, SameData
        <5>3. QED
          BY <3>4, <4>1, <5>2
      <4>2. QED
        BY <4>1 DEF PromptData
    <3>7. toMac[n] \in Seq(Blob) /\ FlushAt(msgs, rimeDone, macDone, toMac[n], n)
      BY DEF BaseInv, PortsInv, FlushInv
    <3>8. FlushAt(msgs, rimeDone, macDone, Append(toMac[n], b), n)
      BY <3>5, <3>6, <3>7, FlushLate
    <3>9. QED
      BY <3>1, <3>2, <3>3, <3>8 DEF FlushInv
  <2>8. ASSUME NEW i \in Conns(n, "ruc"), Settle(n, i) PROVE FlushInv'
    BY <2>8 DEF Settle, FlushInv
  <2>9. CASE MacSend(n) \/ MacEof(n)
    <3>1. /\ toMac[n] # << >> /\ toMac' = [toMac EXCEPT ![n] = Tail(@)]
          /\ IF Head(toMac[n]) = Eof THEN macDone' = macDone \cup {n} ELSE macDone' = macDone
          /\ UNCHANGED <<rimeDone, msgs>>
      BY <2>9 DEF MacSend, MacEof, rimeVars
    <3>2. toMac \in [Node -> Seq(Blob)]
      BY DEF BaseInv, PortsInv
    <3>3. toMac'[n] = Tail(toMac[n]) /\ \A m \in Node : m # n => toMac'[m] = toMac[m]
      BY <3>1, <3>2, Dropped
    <3>4. FlushAt(msgs, rimeDone, macDone', Tail(toMac[n]), n)
      BY <3>1, <3>2, FlushTake DEF FlushInv
    <3>5. ASSUME NEW m \in Node, m # n
          PROVE  FlushAt(msgs, rimeDone, macDone', toMac[m], m)
      BY <3>1, <3>5 DEF FlushInv, FlushAt
    <3>6. QED
      BY <3>1, <3>3, <3>4, <3>5 DEF FlushInv
  <2>10. CASE MacReceive(n)
    BY <2>10 DEF MacReceive, rimeVars, FlushInv
  <2>11. QED
    BY <2>1, <2>2, <2>3, <2>4, <2>5, <2>6, <2>7, <2>8, <2>9, <2>10, Actions
<1>3. QED
  BY <1>1, <1>2

\* When a MAC ends, every broadcast and unicast of its node has left the port
\* (FlushedAtEof): PMT_EOF follows them and nothing is packed after it.
THEOREM FlushedBeforeEnd == Spec => []FlushedAtEof
<1>1. Init => FlushInv
  BY DEF Init, FlushInv, FlushAt
<1>2. BaseInv /\ FlushInv => FlushedAtEof
  <2> SUFFICES ASSUME BaseInv, FlushInv, NEW n \in macDone, NEW k \in MsgIds,
                      msgs[k].from = n, msgs[k].conn.kind # "ruc",
                      NEW j \in DOMAIN toMac[n], toMac[n][j] = BlobOf(k)
               PROVE  FALSE
    BY DEF FlushedAtEof, In
  <2>1. n \in Node /\ toMac[n] \in Seq(Blob)
    BY DEF BaseInv, PortsInv
  <2>2. toMac[n][j] \in Blob
    BY <2>1
  <2>3. BlobOf(k) = DataBlob(msgs[k], k)
    BY DEF BlobOf, DataBlob, HeaderOf
  <2>4. toMac[n][j] \in PromptData(msgs, n)
    BY <2>2, <2>3 DEF PromptData, MsgIds
  <2>5. QED
    BY <2>1, <2>4 DEF FlushInv, FlushAt
<1>3. Spec => [](BaseInv /\ FlushInv)
  BY <1>1, BaseInit, BaseStep, FlushStep, PTL DEF Spec
<1>4. QED
  BY <1>2, <1>3, PTL

-----------------------------------------------------------------------------
(***************************************************************************)
(* No message is lost inside the nodes. NothingLostInside is not           *)
(* inductive: a packet a stubborn sender is about to leave need not have   *)
(* been sent. The invariant says it was, as soon as an attempt was made    *)
(* for it.                                                                 *)
(***************************************************************************)

\* A stubborn sender has b before it: b is not the packet it is busy with, or no
\* attempt was made for it yet.
Unsent(b, from) ==
  \E i \in Conns(from, "ruc") : \E j \in DOMAIN held[from][i] :
    held[from][i][j] = b /\ (j = 1 => tries[from][i] = 0)

\* b, message k of node from, was output at n, or is in a queue on its way to n, or the
\* air kept it from n.
Underway(b, k, from, n) ==
  \/ OutputAt(got, n, k) \/ In(b, toMac[from])
  \/ In([blob |-> b, ok |-> TRUE], heard[n]) \/ In(b, toRime[n])
  \/ <<n, k>> \in missed

Wanted(n, k) == Expects(n, k) /\ msgs[k].conn.channel < 256

KeptInv ==
  \A k \in DOMAIN msgs, n \in Node : Wanted(n, k) =>
    \/ Unsent(DataBlob(msgs[k], k), msgs[k].from)
    \/ Underway(DataBlob(msgs[k], k), k, msgs[k].from, n)

LEMMA InAppend ==
  ASSUME NEW S, NEW q \in Seq(S), NEW x \in S
  PROVE  In(x, Append(q, x)) /\ \A y : In(y, q) => In(y, Append(q, x))
BY AppendAt DEF In

LEMMA InTail ==
  ASSUME NEW S, NEW q \in Seq(S), q # << >>, NEW x, In(x, q)
  PROVE  x = Head(q) \/ In(x, Tail(q))
<1>1. PICK j \in DOMAIN q : q[j] = x
  BY DEF In
<1>2. CASE j = 1
  BY <1>1, <1>2, TailAt
<1>3. CASE j # 1
  <2>1. PICK l \in DOMAIN Tail(q) : Tail(q)[l] = x
    BY <1>1, <1>3, TailAt
  <2>2. QED
    BY <2>1 DEF In
<1>4. QED
  BY <1>2, <1>3

LEMMA WantedParts ==
  ASSUME BaseInv, NEW k \in DOMAIN msgs, NEW n \in Node, Wanted(n, k)
  PROVE  /\ msgs[k].from \in Node /\ msgs[k].from # n /\ k \in Byte /\ k # 0
         /\ DataBlob(msgs[k], k) \in Blob /\ DataBlob(msgs[k], k) # Eof
         /\ DataBlob(msgs[k], k)[Len(DataBlob(msgs[k], k))] = k
         /\ ~ IsAck(DataBlob(msgs[k], k))
<1>1. k \in Byte /\ k # 0 /\ msgs[k] \in Sent
  BY SentAt DEF BaseInv
<1>2. msgs[k].from \in Node /\ msgs[k] \in Message
  BY <1>1, SentIsMessage
<1>3. msgs[k].from # n
  BY DEF Wanted, Expects, MeantFor
<1>4. /\ DataBlob(msgs[k], k) \in Blob /\ DataBlob(msgs[k], k) # Eof
      /\ DataBlob(msgs[k], k)[Len(DataBlob(msgs[k], k))] = k
  BY <1>1, <1>2, DataBytes
<1>5. ~ IsAck(DataBlob(msgs[k], k))
  BY <1>1, DataIsNoAck
<1>6. QED
  BY <1>1, <1>2, <1>3, <1>4, <1>5

\* A stubborn sender's attempt puts its packet into the port.
LEMMA KeptBySend ==
  ASSUME BaseInv, NEW m \in Node, NEW i \in Conns(m, "ruc"), SendHeld(m, i),
         NEW k, NEW n \in Node, NEW b \in Blob, NEW from \in Node,
         Unsent(b, from) \/ Underway(b, k, from, n)
  PROVE  (Unsent(b, from) \/ Underway(b, k, from, n))'
<1>1. i \in DOMAIN Config[m]
  BY DEF Conns
<1>2. PICK h : h = Head(held[m][i])
  OBVIOUS
<1>3. held[m][i] # << >> /\ held[m][i] \in Seq(Blob)
  BY <1>1 DEF SendHeld, BaseInv, SendersInv
<1>4. h \in Blob /\ h = held[m][i][1]
  BY <1>2, <1>3, HeadAndTail, TailAt
<1>5. /\ toMac' = [toMac EXCEPT ![m] = Append(@, h)]
      /\ tries' = [tries EXCEPT ![m][i] = tries[m][i] + 1]
      /\ UNCHANGED <<sendSeq, held, rimeDone, toRime, heard, macDone, msgs, got, missed>>
  BY <1>2 DEF SendHeld, Publish
<1>6. toMac \in [Node -> Seq(Blob)]
  BY DEF BaseInv, PortsInv
<1>7. /\ toMac'[m] = Append(toMac[m], h) /\ \A p \in Node : p # m => toMac'[p] = toMac[p]
      /\ toMac[m] \in Seq(Blob)
  BY <1>4, <1>5, <1>6, Appended
<1>8. In(h, toMac'[m]) /\ \A y : In(y, toMac[m]) => In(y, toMac'[m])
  BY <1>4, <1>7, InAppend
<1>9. CASE Underway(b, k, from, n)
  <2>1. In(b, toMac[from]) => In(b, toMac'[from])
    BY <1>7, <1>8
  <2>2. Underway(b, k, from, n)'
    BY <1>5, <1>9, <2>1 DEF Underway
  <2>3. QED
    BY <2>2
<1>10. CASE Unsent(b, from)
  <2>1. PICK p \in Conns(from, "ruc") : \E j \in DOMAIN held[from][p] :
          held[from][p][j] = b /\ (j = 1 => tries[from][p] = 0)
    BY <1>10 DEF Unsent
  <2>2. PICK j \in DOMAIN held[from][p] :
          held[from][p][j] = b /\ (j = 1 => tries[from][p] = 0)
    BY <2>1
  <2>3. CASE from = m /\ p = i /\ j = 1
    <3>1. b = h /\ In(b, toMac'[from])
      BY <1>4, <1>8, <2>2, <2>3
    <3>2. Underway(b, k, from, n)'
      BY <3>1 DEF Underway
    <3>3. QED
      BY <3>2
  <2>4. CASE ~ (from = m /\ p = i /\ j = 1)
    <3>1. p \in DOMAIN Config[from]
      BY DEF Conns
    <3>2. j = 1 => tries'[from][p] = tries[from][p]
      BY <1>5, <2>4, <3>1 DEF BaseInv, SendersInv
    <3>3. Unsent(b, from)'
      BY <1>5, <2>2, <3>2 DEF Unsent
    <3>4. QED
      BY <3>3
  <2>5. QED
    BY <2>3, <2>4
<1>11. QED
  BY <1>9, <1>10

\* A packet that a stubborn sender leaves was sent.
LEMMA KeptBySettle ==
  ASSUME BaseInv, NEW m \in Node, NEW i \in Conns(m, "ruc"), Settle(m, i),
         NEW k, NEW n \in Node, NEW b \in Blob, NEW from \in Node,
         Unsent(b, from) \/ Underway(b, k, from, n)
  PROVE  (Unsent(b, from) \/ Underway(b, k, from, n))'
<1>1. i \in DOMAIN Config[m]
  BY DEF Conns
<1>2. tries[m][i] > 0 /\ tries[m][i] \in Nat /\ held[m][i] # << >> /\ held[m][i] \in Seq(Blob)
  BY <1>1, BoundsAssumption DEF Settle, BaseInv, SendersInv, HeldInv
<1>3. PICK x : x = Tail(held[m][i])
  OBVIOUS
<1>4. /\ held' = [held EXCEPT ![m][i] = x] /\ tries' = [tries EXCEPT ![m][i] = 0]
      /\ UNCHANGED <<sendSeq, rimeDone, toMac, toRime, heard, macDone, msgs, got, missed>>
  BY <1>3 DEF Settle
<1>5. CASE Underway(b, k, from, n)
  <2>1. Underway(b, k, from, n)'
    BY <1>4, <1>5 DEF Underway
  <2>2. QED
    BY <2>1
<1>6. CASE Unsent(b, from)
  <2>1. PICK p \in Conns(from, "ruc") : \E j \in DOMAIN held[from][p] :
          held[from][p][j] = b /\ (j = 1 => tries[from][p] = 0)
    BY <1>6 DEF Unsent
  <2>2. PICK j \in DOMAIN held[from][p] :
          held[from][p][j] = b /\ (j = 1 => tries[from][p] = 0)
    BY <2>1
  <2>3. p \in DOMAIN Config[from]
    BY DEF Conns
  <2>4. /\ DOMAIN held = Node /\ DOMAIN tries = Node
        /\ DOMAIN held[from] = DOMAIN Config[from] /\ DOMAIN tries[from] = DOMAIN Config[from]
    BY DEF BaseInv, SendersInv
  <2>5. CASE from = m /\ p = i
    <3>1. held'[from][p] = x /\ tries'[from][p] = 0
      BY <1>4, <2>3, <2>4, <2>5
    <3>2. j # 1
      BY <1>2, <2>2, <2>5
    <3>3. j - 1 \in DOMAIN x /\ x[j - 1] = b
      BY <1>2, <1>3, <2>2, <2>5, <3>2, TailAt
    <3>4. Unsent(b, from)'
      BY <3>1, <3>3 DEF Unsent
    <3>5. QED
      BY <3>4
  <2>6. CASE ~ (from = m /\ p = i)
    <3>1. held'[from][p] = held[from][p] /\ tries'[from][p] = tries[from][p]
      BY <1>4, <2>3, <2>4, <2>6
    <3>2. Unsent(b, from)'
      BY <2>2, <3>1 DEF Unsent
    <3>3. QED
      BY <3>2
  <2>7. QED
    BY <2>5, <2>6
<1>7. QED
  BY <1>5, <1>6

\* mac hands what it takes from the port to the air, which keeps it or delivers it.
LEMMA KeptByMacSend ==
  ASSUME BaseInv, NEW m \in Node, MacSend(m),
         NEW k, NEW n \in Node, NEW b \in Blob, NEW from \in Node, from # n,
         ~ IsAck(b), b[Len(b)] = k,
         Unsent(b, from) \/ Underway(b, k, from, n)
  PROVE  (Unsent(b, from) \/ Underway(b, k, from, n))'
<1>1. PICK h : h = Head(toMac[m])
  OBVIOUS
<1>2. /\ toMac[m] # << >> /\ toMac' = [toMac EXCEPT ![m] = Tail(@)]
      /\ UNCHANGED <<sendSeq, held, tries, rimeDone, toRime, macDone, msgs, got>>
  BY DEF MacSend, rimeVars
<1>3. PICK fate \in [Node \ {m} -> Fates] :
        /\ heard' = [p \in Node |->
                       IF p # m /\ fate[p] # "lost"
                       THEN Append(heard[p], [blob |-> h, ok |-> fate[p] = "intact"])
                       ELSE heard[p]]
        /\ missed' = missed \cup
             {<<p, IF IsAck(h) THEN 0 ELSE h[Len(h)]>> :
                p \in {q \in Node \ {m} : fate[q] # "intact"}}
  BY <1>1 DEF MacSend
<1>4. toMac \in [Node -> Seq(Blob)] /\ heard[n] \in Seq(Frame(Blob))
  BY DEF BaseInv, PortsInv
<1>5. toMac'[m] = Tail(toMac[m]) /\ \A p \in Node : p # m => toMac'[p] = toMac[p]
  BY <1>2, <1>4, Dropped
<1>6. h \in Blob
  BY <1>1, <1>2, <1>4, HeadAndTail
<1>7. CASE Unsent(b, from)
  <2>1. Unsent(b, from)'
    BY <1>2, <1>7 DEF Unsent
  <2>2. QED
    BY <2>1
<1>8. ASSUME In([blob |-> b, ok |-> TRUE], heard[n]) PROVE In([blob |-> b, ok |-> TRUE], heard'[n])
  <2>1. CASE n # m /\ fate[n] # "lost"
    <3>1. PICK f : f = [blob |-> h, ok |-> fate[n] = "intact"]
      OBVIOUS
    <3>2. f \in Frame(Blob) /\ heard'[n] = Append(heard[n], f)
      BY <1>3, <1>6, <2>1, <3>1 DEF Frame
    <3>3. QED
      BY <1>4, <1>8, <3>2, InAppend
  <2>2. CASE ~ (n # m /\ fate[n] # "lost")
    BY <1>3, <1>8, <2>2
  <2>3. QED
    BY <2>1, <2>2
<1>9. ASSUME In(b, toMac[from])
      PROVE  Underway(b, k, from, n)'
  <2>1. CASE from = m /\ b = h
    <3>1. n # m
      BY <2>1
    <3>2. CASE fate[n] = "intact"
      <4>1. PICK f : f = [blob |-> b, ok |-> TRUE]
        OBVIOUS
      <4>2. heard'[n] = Append(heard[n], f)
        BY <1>3, <2>1, <3>1, <3>2, <4>1
      <4>3. f \in Frame(Blob)
        BY <4>1 DEF Frame
      <4>4. In(f, heard'[n])
        BY <1>4, <4>2, <4>3, InAppend
      <4>5. QED
        BY <4>1, <4>4 DEF Underway
    <3>3. CASE fate[n] # "intact"
      <4>1. (IF IsAck(h) THEN 0 ELSE h[Len(h)]) = k
        BY <2>1
      <4>2. <<n, k>> \in missed'
        BY <1>3, <3>1, <3>3, <4>1
      <4>3. QED
        BY <4>2 DEF Underway
    <3>4. QED
      BY <3>2, <3>3
  <2>2. CASE from = m /\ b # h
    <3>1. In(b, Tail(toMac[m]))
      BY <1>1, <1>2, <1>4, <1>9, <2>2, InTail
    <3>2. QED
      BY <1>5, <2>2, <3>1 DEF Underway
  <2>3. CASE from # m
    BY <1>5, <1>9, <2>3 DEF Underway
  <2>4. QED
    BY <2>1, <2>2, <2>3
<1>10. CASE Underway(b, k, from, n)
  <2>1. missed \subseteq missed'
    BY <1>3
  <2>2. Underway(b, k, from, n)'
    BY <1>2, <1>8, <1>9, <1>10, <2>1 DEF Underway
  <2>3. QED
    BY <2>2
<1>11. QED
  BY <1>7, <1>10

LEMMA KeptByMacEof ==
  ASSUME BaseInv, NEW m \in Node, MacEof(m),
         NEW k, NEW n \in Node, NEW b \in Blob, NEW from \in Node, b # Eof,
         Unsent(b, from) \/ Underway(b, k, from, n)
  PROVE  (Unsent(b, from) \/ Underway(b, k, from, n))'
<1>1. /\ toMac[m] # << >> /\ Head(toMac[m]) = Eof /\ toMac' = [toMac EXCEPT ![m] = Tail(@)]
      /\ UNCHANGED <<sendSeq, held, tries, rimeDone, toRime, heard, msgs, got, missed>>
  BY DEF MacEof, rimeVars
<1>2. toMac \in [Node -> Seq(Blob)]
  BY DEF BaseInv, PortsInv
<1>3. toMac'[m] = Tail(toMac[m]) /\ \A p \in Node : p # m => toMac'[p] = toMac[p]
  BY <1>1, <1>2, Dropped
<1>4. In(b, toMac[from]) => In(b, toMac'[from])
  <2>1. CASE from = m
    BY <1>1, <1>2, <1>3, <2>1, InTail
  <2>2. CASE from # m
    BY <1>3, <2>2
  <2>3. QED
    BY <2>1, <2>2
<1>5. CASE Unsent(b, from)
  <2>1. Unsent(b, from)'
    BY <1>1, <1>5 DEF Unsent
  <2>2. QED
    BY <2>1
<1>6. CASE Underway(b, k, from, n)
  <2>1. Underway(b, k, from, n)'
    BY <1>1, <1>4, <1>6 DEF Underway
  <2>2. QED
    BY <2>1
<1>7. QED
  BY <1>5, <1>6

\* mac passes on every frame whose check sequence is right.
LEMMA KeptByMacReceive ==
  ASSUME BaseInv, NEW m \in Node, MacReceive(m),
         NEW k, NEW n \in Node, NEW b \in Blob, NEW from \in Node,
         Unsent(b, from) \/ Underway(b, k, from, n)
  PROVE  (Unsent(b, from) \/ Underway(b, k, from, n))'
<1>1. PICK f : f = Head(heard[m])
  OBVIOUS
<1>2. /\ heard[m] # << >> /\ heard' = [heard EXCEPT ![m] = Tail(@)]
      /\ toRime' = [toRime EXCEPT ![m] = IF f.ok THEN Append(@, f.blob) ELSE @]
      /\ UNCHANGED <<sendSeq, held, tries, rimeDone, toMac, macDone, msgs, got, missed>>
  BY <1>1 DEF MacReceive, rimeVars
<1>3. heard \in [Node -> Seq(Frame(Blob))] /\ toRime \in [Node -> Seq(Blob)]
  BY DEF BaseInv, PortsInv
<1>4. heard'[m] = Tail(heard[m]) /\ \A p \in Node : p # m => heard'[p] = heard[p]
  BY <1>2, <1>3, Dropped
<1>5. f \in Frame(Blob)
  BY <1>1, <1>2, <1>3, HeadAndTail
<1>6. f.blob \in Blob
  BY <1>5 DEF Frame
<1>7. /\ f.ok => toRime'[m] = Append(toRime[m], f.blob)
      /\ ~ f.ok => toRime'[m] = toRime[m]
      /\ \A p \in Node : p # m => toRime'[p] = toRime[p]
  BY <1>2, <1>3
<1>8. In(b, toRime[n]) => In(b, toRime'[n])
  <2>1. CASE n = m /\ f.ok
    BY <1>3, <1>6, <1>7, <2>1, InAppend
  <2>2. CASE ~ (n = m /\ f.ok)
    BY <1>7, <2>2
  <2>3. QED
    BY <2>1, <2>2
<1>9. ASSUME In([blob |-> b, ok |-> TRUE], heard[n])
      PROVE  In([blob |-> b, ok |-> TRUE], heard'[n]) \/ In(b, toRime'[n])
  <2>1. CASE n # m
    BY <1>4, <1>9, <2>1
  <2>2. CASE n = m /\ f # [blob |-> b, ok |-> TRUE]
    <3>1. PICK g : g = [blob |-> b, ok |-> TRUE]
      OBVIOUS
    <3>2. In(g, Tail(heard[m]))
      BY <1>1, <1>2, <1>3, <1>9, <2>2, <3>1, InTail
    <3>3. QED
      BY <1>4, <2>2, <3>1, <3>2
  <2>3. CASE n = m /\ f = [blob |-> b, ok |-> TRUE]
    <3>1. f.ok /\ f.blob = b
      BY <2>3
    <3>2. In(b, toRime'[n])
      BY <1>3, <1>7, <2>3, <3>1, InAppend
    <3>3. QED
      BY <3>2
  <2>4. QED
    BY <2>1, <2>2, <2>3
<1>10. CASE Unsent(b, from)
  <2>1. Unsent(b, from)'
    BY <1>2, <1>10 DEF Unsent
  <2>2. QED
    BY <2>1
<1>11. CASE Underway(b, k, from, n)
  <2>1. Underway(b, k, from, n)'
    BY <1>2, <1>8, <1>9, <1>11 DEF Underway
  <2>2. QED
    BY <2>1
<1>12. QED
  BY <1>10, <1>11

\* rime_stack outputs a message that is wanted.
LEMMA KeptByUnpack ==
  ASSUME BaseInv, NEW m \in Node, Unpack(m),
         NEW k \in DOMAIN msgs, NEW n \in Node, Wanted(n, k),
         NEW b \in Blob, b = DataBlob(msgs[k], k), NEW from \in Node,
         Unsent(b, from) \/ Underway(b, k, from, n)
  PROVE  (Unsent(b, from) \/ Underway(b, k, from, n))'
<1>1. /\ toRime[m] # << >> /\ toRime' = [toRime EXCEPT ![m] = Tail(@)]
      /\ UNCHANGED <<sendSeq, held, tries, rimeDone, heard, macDone, msgs, missed>>
  BY DEF Unpack, rimeVars
<1>2. /\ toRime \in [Node -> Seq(Blob)] /\ toMac \in [Node -> Seq(Blob)]
      /\ got \in [Node -> Seq(OutputRec)]
  BY DEF BaseInv, PortsInv
<1>3. toRime'[m] = Tail(toRime[m]) /\ \A p \in Node : p # m => toRime'[p] = toRime[p]
  BY <1>1, <1>2, Dropped
<1>4. MoreOutput(got, got')
  BY BaseUnpack
<1>5. OutputAt(got, n, k) => OutputAt(got', n, k)
  BY <1>4 DEF MoreOutput, OutputAt
<1>6. In(b, toMac[from]) => In(b, toMac'[from])
  <2>1. CASE UNCHANGED toMac
    BY <2>1
  <2>2. ASSUME NEW l \in DOMAIN msgs, Publish(toMac, m, AckBlob(msgs[l]))
        PROVE  In(b, toMac[from]) => In(b, toMac'[from])
    <3>1. PICK a : a = AckBlob(msgs[l])
      OBVIOUS
    <3>2. a \in Blob
      <4>1. msgs[l] \in Message
        BY SentAt, SentIsMessage DEF BaseInv
      <4>2. QED
        BY <3>1, <4>1, AckBytes
    <3>3. toMac' = [toMac EXCEPT ![m] = Append(@, a)]
      BY <2>2, <3>1 DEF Publish
    <3>4. /\ toMac'[m] = Append(toMac[m], a) /\ toMac[m] \in Seq(Blob)
          /\ \A p \in Node : p # m => toMac'[p] = toMac[p]
      BY <1>2, <3>2, <3>3, Appended
    <3>5. In(b, toMac[m]) => In(b, toMac'[m])
      BY <3>2, <3>4, InAppend
    <3>6. QED
      BY <3>4, <3>5
  <2>3. QED
    BY <2>1, <2>2, UnpackEffect DEF OutputStep
<1>7. ASSUME In(b, toRime[n]) PROVE In(b, toRime'[n]) \/ OutputAt(got', n, k)
  <2>1. CASE n # m
    BY <1>3, <1>7, <2>1
  <2>2. CASE n = m /\ Head(toRime[m]) # b
    BY <1>1, <1>2, <1>3, <1>7, <2>2, InTail
  <2>3. CASE n = m /\ Head(toRime[m]) = b
    <3>1. OutputStep(n, k)
      BY <2>3, UnpackData DEF Wanted
    <3>2. PICK g : g = [conn |-> msgs[k].conn, payload |-> <<k>>]
      OBVIOUS
    <3>3. got' = [got EXCEPT ![n] = Append(@, g)]
      BY <3>1, <3>2 DEF OutputStep
    <3>4. g \in OutputRec
      <4>1. k \in Byte /\ msgs[k].conn \in Connection
        BY SentAt, SentIsMessage, MessageParts DEF BaseInv
      <4>2. QED
        BY <3>2, <4>1 DEF OutputRec, Blob
    <3>5. got'[n] = Append(got[n], g) /\ got[n] \in Seq(OutputRec)
      BY <1>2, <3>3, <3>4, Appended
    <3>6. In(g, got'[n])
      BY <3>4, <3>5, InAppend
    <3>7. QED
      BY <3>2, <3>6 DEF In, OutputAt
  <2>4. QED
    BY <2>1, <2>2, <2>3
<1>8. CASE Unsent(b, from)
  <2>1. Unsent(b, from)'
    BY <1>1, <1>8 DEF Unsent
  <2>2. QED
    BY <2>1
<1>9. CASE Underway(b, k, from, n)
  <2>1. Underway(b, k, from, n)'
    BY <1>1, <1>5, <1>6, <1>7, <1>9 DEF Underway
  <2>2. QED
    BY <2>1
<1>10. QED
  BY <1>8, <1>9

\* Packing a message takes none of the others away.
LEMMA KeptByPack ==
  ASSUME BaseInv, NEW m \in Node,
         \/ /\ \E x \in Blob : Publish(toMac, m, x)
            /\ UNCHANGED <<held, tries, toRime, heard, got, missed>>
         \/ /\ \E i \in DOMAIN Config[m], x \in Blob :
                 held' = [held EXCEPT ![m][i] = Append(held[m][i], x)]
            /\ UNCHANGED <<tries, toMac, toRime, heard, got, missed>>,
         NEW k, NEW n \in Node, NEW b \in Blob, NEW from \in Node,
         Unsent(b, from) \/ Underway(b, k, from, n)
  PROVE  (Unsent(b, from) \/ Underway(b, k, from, n))'
<1>1. ASSUME NEW x \in Blob, Publish(toMac, m, x),
             UNCHANGED <<held, tries, toRime, heard, got, missed>>
      PROVE  (Unsent(b, from) \/ Underway(b, k, from, n))'
  <2>1. toMac \in [Node -> Seq(Blob)] /\ toMac' = [toMac EXCEPT ![m] = Append(@, x)]
    BY <1>1 DEF BaseInv, PortsInv, Publish
  <2>2. /\ toMac'[m] = Append(toMac[m], x) /\ toMac[m] \in Seq(Blob)
        /\ \A p \in Node : p # m => toMac'[p] = toMac[p]
    BY <2>1, Appended
  <2>3. In(b, toMac[m]) => In(b, toMac'[m])
    BY <2>2, InAppend
  <2>4. In(b, toMac[from]) => In(b, toMac'[from])
    BY <2>2, <2>3
  <2>5. CASE Unsent(b, from)
    <3>1. Unsent(b, from)'
      BY <1>1, <2>5 DEF Unsent
    <3>2. QED
      BY <3>1
  <2>6. CASE Underway(b, k, from, n)
    <3>1. Underway(b, k, from, n)'
      BY <1>1, <2>4, <2>6 DEF Underway
    <3>2. QED
      BY <3>1
  <2>7. QED
    BY <2>5, <2>6
<1>2. ASSUME NEW i \in DOMAIN Config[m], NEW x \in Blob,
             held' = [held EXCEPT ![m][i] = Append(held[m][i], x)],
             UNCHANGED <<tries, toMac, toRime, heard, got, missed>>
      PROVE  (Unsent(b, from) \/ Underway(b, k, from, n))'
  <2>1. CASE Unsent(b, from)
    <3>1. PICK p \in Conns(from, "ruc") : \E j \in DOMAIN held[from][p] :
            held[from][p][j] = b /\ (j = 1 => tries[from][p] = 0)
      BY <2>1 DEF Unsent
    <3>2. PICK j \in DOMAIN held[from][p] :
            held[from][p][j] = b /\ (j = 1 => tries[from][p] = 0)
      BY <3>1
    <3>3. p \in DOMAIN Config[from]
      BY DEF Conns
    <3>4. DOMAIN held = Node /\ held[from] \in [DOMAIN Config[from] -> Seq(Blob)]
      BY DEF BaseInv, SendersInv
    <3>5. j \in DOMAIN held'[from][p] /\ held'[from][p][j] = b
      <4>1. CASE from = m /\ p = i
        <5>1. held'[from][p] = Append(held[from][p], x)
          BY <1>2, <3>3, <3>4, <4>1
        <5>2. held[from][p] \in Seq(Blob)
          BY <3>3, <3>4
        <5>3. QED
          BY <3>2, <5>1, <5>2, AppendAt
      <4>2. CASE ~ (from = m /\ p = i)
        <5>1. held'[from][p] = held[from][p]
          BY <1>2, <3>3, <3>4, <4>2
        <5>2. QED
          BY <3>2, <5>1
      <4>3. QED
        BY <4>1, <4>2
    <3>6. Unsent(b, from)'
      BY <1>2, <3>2, <3>5 DEF Unsent
    <3>7. QED
      BY <3>6
  <2>2. CASE Underway(b, k, from, n)
    <3>1. Underway(b, k, from, n)'
      BY <1>2, <2>2 DEF Underway
    <3>2. QED
      BY <3>1
  <2>3. QED
    BY <2>1, <2>2
<1>3. QED
  BY <1>1, <1>2

\* The messages that were submitted before are wanted where they were.
LEMMA StillWanted ==
  ASSUME Longer(msgs, msgs'), NEW k \in DOMAIN msgs, NEW n \in Node
  PROVE  Wanted(n, k)' <=> Wanted(n, k)
BY DEF Longer, Wanted, Expects, MeantFor

LEMMA KeptOthers ==
  ASSUME BaseInv, KeptInv, Longer(msgs, msgs'), NEW m \in Node,
         \/ /\ \E x \in Blob : Publish(toMac, m, x)
            /\ UNCHANGED <<held, tries, toRime, heard, got, missed>>
         \/ /\ \E i \in DOMAIN Config[m], x \in Blob :
                 held' = [held EXCEPT ![m][i] = Append(held[m][i], x)]
            /\ UNCHANGED <<tries, toMac, toRime, heard, got, missed>>,
         NEW k \in DOMAIN msgs, NEW n \in Node, Wanted(n, k)'
  PROVE  (\/ Unsent(DataBlob(msgs[k], k), msgs[k].from)
          \/ Underway(DataBlob(msgs[k], k), k, msgs[k].from, n))'
<1>1. Wanted(n, k)
  BY StillWanted
<1>2. PICK b, from : b = DataBlob(msgs[k], k) /\ from = msgs[k].from
  OBVIOUS
<1>3. b \in Blob /\ from \in Node
  BY <1>1, <1>2, WantedParts
<1>4. Unsent(b, from) \/ Underway(b, k, from, n)
  BY <1>1, <1>2 DEF KeptInv
<1>5. (Unsent(b, from) \/ Underway(b, k, from, n))'
  BY <1>3, <1>4, KeptByPack
<1>6. b = DataBlob(msgs'[k], k) /\ from = msgs'[k].from
  BY <1>2 DEF Longer
<1>7. QED
  BY <1>5, <1>6

\* A packed message waits for mac or for a stubborn sender.
LEMMA KeptAtOnce ==
  ASSUME BaseInv, KeptInv, NEW m \in Node, NEW i \in DOMAIN Config[m], NEW d \in Address,
         Submit(m, i, d), Publish(toMac, m, DataBlob(msgs'[NextId], NextId)),
         UNCHANGED <<rimeVars, toRime, heard, macDone, got, missed>>
  PROVE  KeptInv'
<1>1. /\ Longer(msgs, msgs') /\ DOMAIN msgs' = DOMAIN msgs \cup {NextId}
      /\ NextId \in Byte /\ msgs'[NextId] \in Sent /\ msgs'[NextId].from = m
  BY Submitted
<1>8. PICK new : new = NextId
  OBVIOUS
<1>2. PICK x : x = DataBlob(msgs'[NextId], NextId)
  OBVIOUS
<1>3. x \in Blob
  BY <1>1, <1>2, DataBytes, SentIsMessage
<1>4. /\ Publish(toMac, m, x)
      /\ UNCHANGED <<held, tries, toRime, heard, got, missed>>
  BY <1>2 DEF rimeVars
<1>5. ASSUME NEW k \in DOMAIN msgs, NEW n \in Node, Wanted(n, k)'
      PROVE  (\/ Unsent(DataBlob(msgs[k], k), msgs[k].from)
              \/ Underway(DataBlob(msgs[k], k), k, msgs[k].from, n))'
  BY <1>1, <1>3, <1>4, <1>5, KeptOthers
<1>6. ASSUME NEW n \in Node
      PROVE  Underway(DataBlob(msgs[new], new), new, msgs[new].from, n)'
  <2>1. toMac \in [Node -> Seq(Blob)] /\ toMac' = [toMac EXCEPT ![m] = Append(@, x)]
    BY <1>4 DEF BaseInv, PortsInv, Publish
  <2>2. toMac'[m] = Append(toMac[m], x) /\ toMac[m] \in Seq(Blob)
    BY <1>3, <2>1, Appended
  <2>3. In(x, toMac'[m])
    BY <1>3, <2>2, InAppend
  <2>4. x = DataBlob(msgs'[new], new) /\ m = msgs'[new].from
    BY <1>1, <1>2, <1>8
  <2>5. QED
    BY <2>3, <2>4 DEF Underway
<1>7. QED
  BY <1>1, <1>5, <1>6, <1>8 DEF KeptInv

LEMMA KeptHeld ==
  ASSUME BaseInv, KeptInv, NEW m \in Node, NEW i \in Conns(m, "ruc"),
         NEW d \in Targets \ {m}, PackRuc(m, i, d)
  PROVE  KeptInv'
<1>1. i \in DOMAIN Config[m] /\ Config[m][i].kind = "ruc" /\ d \in Address
  BY NodeAssumption DEF Conns
<1>2. PICK new : new = NextId
  OBVIOUS
<1>3. Submit(m, i, d)
  BY DEF PackRuc
<1>4. /\ Longer(msgs, msgs') /\ DOMAIN msgs' = DOMAIN msgs \cup {new}
      /\ new \in Byte /\ msgs'[new] \in Sent
      /\ msgs'[new].from = m /\ msgs'[new].conn = Config[m][i]
      /\ msgs'[new].to = d /\ msgs'[new].seqno = sendSeq[m][i]
  BY <1>1, <1>2, <1>3, Submitted
<1>5. PICK x : x = DataBlob(msgs'[new], new)
  OBVIOUS
<1>6. x = RucHeader(Config[m][i].channel, FALSE, sendSeq[m][i], m, d) \o <<new>>
  BY <1>1, <1>4, <1>5 DEF DataBlob, HeaderOf
<1>7. x \in Blob
  BY <1>4, <1>5, DataBytes, SentIsMessage
<1>8. /\ held' = [held EXCEPT ![m][i] = Append(held[m][i], x)]
      /\ UNCHANGED <<tries, toMac, toRime, heard, got, missed>>
  BY <1>2, <1>6 DEF PackRuc, Payload, NextId
<1>9. ASSUME NEW k \in DOMAIN msgs, NEW n \in Node, Wanted(n, k)'
      PROVE  (\/ Unsent(DataBlob(msgs[k], k), msgs[k].from)
              \/ Underway(DataBlob(msgs[k], k), k, msgs[k].from, n))'
  BY <1>1, <1>4, <1>7, <1>8, <1>9, KeptOthers
<1>10. Unsent(DataBlob(msgs[new], new), msgs[new].from)'
  <2>1. /\ DOMAIN held = Node /\ held[m] \in [DOMAIN Config[m] -> Seq(Blob)]
        /\ tries[m][i] \in Nat /\ (tries[m][i] > 0 => held[m][i] # << >>)
    BY <1>1, BoundsAssumption DEF BaseInv, SendersInv, HeldInv
  <2>2. held'[m][i] = Append(held[m][i], x) /\ held[m][i] \in Seq(Blob)
    BY <1>1, <1>8, <2>1
  <2>3. PICK l : l = Len(held[m][i]) + 1
    OBVIOUS
  <2>4. l \in DOMAIN held'[m][i] /\ held'[m][i][l] = x
    BY <1>7, <2>2, <2>3, AppendProperties, LenProperties
  <2>5. l = 1 => tries[m][i] = 0
    <3>1. ASSUME l = 1 PROVE held[m][i] = << >>
      BY <2>2, <2>3, <3>1, LenProperties, EmptySeq
    <3>2. QED
      BY <2>1, <3>1
  <2>6. x = DataBlob(msgs'[new], new) /\ m = msgs'[new].from /\ tries' = tries
    BY <1>4, <1>5, <1>8
  <2>7. Unsent(x, m)'
    BY <2>4, <2>5, <2>6 DEF Unsent
  <2>8. QED
    BY <2>6, <2>7
<1>11. QED
  BY <1>4, <1>9, <1>10 DEF KeptInv

LEMMA KeptStep == BaseInv /\ KeptInv /\ [Next]_vars => KeptInv'
<1> SUFFICES ASSUME BaseInv, KeptInv, [Next]_vars PROVE KeptInv'
  OBVIOUS
<1>1. CASE UNCHANGED vars
  BY <1>1 DEF vars, KeptInv, Wanted, Expects, MeantFor, Unsent, Underway
<1>2. CASE Next
  <2>1. PICK m \in Node : RimeStack(m) \/ StubbornSender(m) \/ Mac(m)
    BY <1>2 DEF Next
  <2>2. ASSUME NEW i \in Conns(m, "bc"), PackBc(m, i) PROVE KeptInv'
    <3>1. /\ i \in DOMAIN Config[m] /\ Config[m][i].kind = "bc" /\ m \in Address
          /\ Submit(m, i, m)
          /\ UNCHANGED <<rimeVars, toRime, heard, macDone, got, missed>>
      BY <2>2, NodeAssumption DEF Conns, PackBc
    <3>2. msgs'[NextId].from = m /\ msgs'[NextId].conn = Config[m][i]
      BY <3>1, Submitted
    <3>3. Publish(toMac, m, DataBlob(msgs'[NextId], NextId))
      BY <2>2, <3>1, <3>2 DEF DataBlob, HeaderOf, PackBc, Payload, NextId
    <3>4. QED
      BY <3>1, <3>3, KeptAtOnce
  <2>3. ASSUME NEW i \in Conns(m, "uc"), NEW d \in Targets \ {m}, PackUc(m, i, d)
        PROVE  KeptInv'
    <3>1. /\ i \in DOMAIN Config[m] /\ Config[m][i].kind = "uc" /\ d \in Address
          /\ Submit(m, i, d)
          /\ UNCHANGED <<rimeVars, toRime, heard, macDone, got, missed>>
      BY <2>3, NodeAssumption DEF Conns, PackUc
    <3>2. msgs'[NextId].from = m /\ msgs'[NextId].conn = Config[m][i] /\ msgs'[NextId].to = d
      BY <3>1, Submitted
    <3>3. Publish(toMac, m, DataBlob(msgs'[NextId], NextId))
      BY <2>3, <3>1, <3>2 DEF DataBlob, HeaderOf, PackUc, Payload, NextId
    <3>4. QED
      BY <3>1, <3>3, KeptAtOnce
  <2>4. CASE \E i \in Conns(m, "ruc"), d \in Targets \ {m} : PackRuc(m, i, d)
    BY <2>4, KeptHeld
  <2>5. CASE /\ msgs' = msgs
             /\ \A k \in DOMAIN msgs, n \in Node, b \in Blob, from \in Node :
                  Wanted(n, k) /\ b = DataBlob(msgs[k], k) /\ from = msgs[k].from
                  /\ (Unsent(b, from) \/ Underway(b, k, from, n))
                  => (Unsent(b, from) \/ Underway(b, k, from, n))'
    <3>1. ASSUME NEW k \in DOMAIN msgs, NEW n \in Node, Wanted(n, k)'
          PROVE  (\/ Unsent(DataBlob(msgs[k], k), msgs[k].from)
                  \/ Underway(DataBlob(msgs[k], k), k, msgs[k].from, n))'
      <4>1. Wanted(n, k)
        BY <2>5, <3>1 DEF Wanted, Expects, MeantFor
      <4>2. PICK b, from : b = DataBlob(msgs[k], k) /\ from = msgs[k].from
        OBVIOUS
      <4>3. b \in Blob /\ from \in Node
        BY <4>1, <4>2, WantedParts
      <4>4. Unsent(b, from) \/ Underway(b, k, from, n)
        BY <4>1, <4>2 DEF KeptInv
      <4>5. (Unsent(b, from) \/ Underway(b, k, from, n))'
        BY <2>5, <4>1, <4>2, <4>3, <4>4
      <4>6. b = DataBlob(msgs'[k], k) /\ from = msgs'[k].from
        BY <2>5, <4>2
      <4>7. QED
        BY <4>5, <4>6
    <3>2. QED
      BY <2>5, <3>1 DEF KeptInv
  <2>6. CASE PackEof(m)
    <3>1. /\ Publish(toMac, m, Eof) /\ Eof \in Blob /\ msgs' = msgs
          /\ UNCHANGED <<held, tries, toRime, heard, got, missed>>
      BY <2>6 DEF PackEof, Eof, Blob
    <3>2. ASSUME NEW k \in DOMAIN msgs, NEW n \in Node, NEW b \in Blob, NEW from \in Node,
                 Wanted(n, k), b = DataBlob(msgs[k], k), from = msgs[k].from,
                 Unsent(b, from) \/ Underway(b, k, from, n)
          PROVE  (Unsent(b, from) \/ Underway(b, k, from, n))'
      BY <3>1, <3>2, KeptByPack
    <3>3. QED
      BY <2>5, <3>1, <3>2
  <2>7. CASE Unpack(m)
    <3>1. msgs' = msgs
      BY <2>7 DEF Unpack
    <3>2. QED
      BY <2>5, <2>7, <3>1, KeptByUnpack
  <2>8. ASSUME NEW i \in Conns(m, "ruc"), SendHeld(m, i) PROVE KeptInv'
    <3>1. msgs' = msgs
      BY <2>8 DEF SendHeld
    <3>2. QED
      BY <2>5, <2>8, <3>1, KeptBySend
  <2>9. ASSUME NEW i \in Conns(m, "ruc"), Settle(m, i) PROVE KeptInv'
    <3>1. msgs' = msgs
      BY <2>9 DEF Settle
    <3>2. QED
      BY <2>5, <2>9, <3>1, KeptBySettle
  <2>10. CASE MacSend(m)
    <3>1. msgs' = msgs
      BY <2>10 DEF MacSend
    <3>2. ASSUME NEW k \in DOMAIN msgs, NEW n \in Node, NEW b \in Blob, NEW from \in Node,
                 Wanted(n, k), b = DataBlob(msgs[k], k), from = msgs[k].from,
                 Unsent(b, from) \/ Underway(b, k, from, n)
          PROVE  (Unsent(b, from) \/ Underway(b, k, from, n))'
      <4>1. from # n /\ ~ IsAck(b) /\ b[Len(b)] = k
        BY <3>2, WantedParts
      <4>2. QED
        BY <2>10, <3>2, <4>1, KeptByMacSend
    <3>3. QED
      BY <2>5, <3>1, <3>2
  <2>11. CASE MacEof(m)
    <3>1. msgs' = msgs
      BY <2>11 DEF MacEof
    <3>2. ASSUME NEW k \in DOMAIN msgs, NEW n \in Node, NEW b \in Blob, NEW from \in Node,
                 Wanted(n, k), b = DataBlob(msgs[k], k), from = msgs[k].from,
                 Unsent(b, from) \/ Underway(b, k, from, n)
          PROVE  (Unsent(b, from) \/ Underway(b, k, from, n))'
      <4>1. b # Eof
        BY <3>2, WantedParts
      <4>2. QED
        BY <2>11, <3>2, <4>1, KeptByMacEof
    <3>3. QED
      BY <2>5, <3>1, <3>2
  <2>12. CASE MacReceive(m)
    <3>1. msgs' = msgs
      BY <2>12 DEF MacReceive
    <3>2. QED
      BY <2>5, <2>12, <3>1, KeptByMacReceive
  <2>13. QED
    BY <2>1, <2>2, <2>3, <2>4, <2>6, <2>7, <2>8, <2>9, <2>10, <2>11, <2>12, Actions
<1>3. QED
  BY <1>1, <1>2

\* Between the nodes only the air loses messages (NothingLostInside): what a node
\* expects, on a channel below 256, is output there, still in a queue, or was kept from
\* it by the air. The dispatch of rime_stack_impl::unpack, the target tests of the
\* connections, mac's app_in and mac_in, and the queue of the stubborn sender.
THEOREM NoneLostInside == Spec => []NothingLostInside
<1>1. Init => KeptInv
  BY DEF Init, KeptInv
<1>2. BaseInv /\ KeptInv => NothingLostInside
  <2> SUFFICES ASSUME BaseInv, KeptInv, NEW k \in MsgIds, NEW n \in Node,
                      Expects(n, k), msgs[k].conn.channel < 256
               PROVE  AccountedFor(n, k)
    BY DEF NothingLostInside
  <2>1. k \in DOMAIN msgs /\ Wanted(n, k)
    BY DEF MsgIds, Wanted
  <2>2. BlobOf(k) = DataBlob(msgs[k], k)
    BY DEF BlobOf, DataBlob, HeaderOf
  <2>3. CASE Unsent(DataBlob(msgs[k], k), msgs[k].from)
    <3>1. Unsettled(k)
      BY <2>2, <2>3 DEF Unsent, Unsettled, In
    <3>2. QED
      BY <3>1 DEF AccountedFor
  <2>4. CASE Underway(DataBlob(msgs[k], k), k, msgs[k].from, n)
    BY <2>2, <2>4 DEF Underway, AccountedFor, OutputAt
  <2>5. QED
    BY <2>1, <2>3, <2>4 DEF KeptInv
<1>3. Spec => [](BaseInv /\ KeptInv)
  BY <1>1, BaseInit, BaseStep, KeptStep, PTL DEF Spec
<1>4. QED
  BY <1>2, <1>3, PTL


-----------------------------------------------------------------------------
(***************************************************************************)
(* The order of a flow: the messages of one node on one connection. What a *)
(* receiver output, its two queues, the sender's port and the stubborn     *)
(* sender's packets are one line from the oldest message to the newest,    *)
(* and every step moves a message along it, takes one out, or puts one in  *)
(* where it belongs. InOrder alone is about the front of it only.          *)
(***************************************************************************)

\* No two connections of a node are of the same kind and channel. With two of them, two
\* stubborn senders would serve one flow.
DistinctConns ==
  \A n \in Node : \A i, j \in DOMAIN Config[n] : Config[n][i] = Config[n][j] => i = j

Flow(ms, m, c) == {k \in DOMAIN ms : ms[k].from = m /\ ms[k].conn = c}

\* Message a may be before message b.
Fine(ms, m, c, a, b) ==
  \A k, l \in Flow(ms, m, c) :
    a = DataBlob(ms[k], k) /\ b = DataBlob(ms[l], l)
    => k < l \/ (k = l /\ c.kind = "ruc")

\* b is not a message of the flow.
Foreign(ms, m, c, b) == \A k \in Flow(ms, m, c) : b # DataBlob(ms[k], k)

Stages == 1 .. 5
Before(s, a, t, b) == s < t \/ (s = t /\ a < b)

Ordered(ms, m, c, line) ==
  \A s, t \in Stages : \A a \in DOMAIN line[s], b \in DOMAIN line[t] :
    Before(s, a, t, b) => Fine(ms, m, c, line[s][a], line[t][b])

\* The messages that were output, as they were sent, and those in frames.
Sources(ms, g) == [j \in 1 .. Len(g) |-> DataBlob(ms[g[j].payload[1]], g[j].payload[1])]
Blobs(h) == [j \in 1 .. Len(h) |-> h[j].blob]

LineOf(ms, g, r, h, q, p) ==
  [s \in Stages |-> IF s = 1 THEN Sources(ms, g)
                    ELSE IF s = 2 THEN r
                    ELSE IF s = 3 THEN Blobs(h)
                    ELSE IF s = 4 THEN q ELSE p]

Line(n, m, i) == LineOf(msgs, got[n], toRime[n], heard[n], toMac[m], held[m][i])

OrderInv ==
  \A n, m \in Node : \A i \in DOMAIN Config[m] : n # m =>
    Ordered(msgs, m, Config[m][i], Line(n, m, i))

LEMMA OrderedDrop ==
  ASSUME NEW ms, NEW m, NEW c,
         NEW line \in [Stages -> Seq(Blob)], NEW line2 \in [Stages -> Seq(Blob)],
         NEW t \in Stages, line[t] # << >>, line2[t] = Tail(line[t]),
         \A s \in Stages : s # t => line2[s] = line[s],
         Ordered(ms, m, c, line)
  PROVE  Ordered(ms, m, c, line2)
<1>1. ASSUME NEW s \in Stages, NEW u \in Stages,
             NEW a \in DOMAIN line2[s], NEW b \in DOMAIN line2[u], Before(s, a, u, b)
      PROVE  Fine(ms, m, c, line2[s][a], line2[u][b])
  <2>1. line[t] \in Seq(Blob)
    OBVIOUS
  <2>2. /\ \A j \in DOMAIN line2[t] : j + 1 \in DOMAIN line[t] /\ line2[t][j] = line[t][j + 1]
        /\ \A j \in DOMAIN line2[t] : j \in Int
    BY <2>1, TailAt
  <2>3. PICK a2 \in DOMAIN line[s] :
          line2[s][a] = line[s][a2] /\ (s = t => a2 = a + 1) /\ (s # t => a2 = a)
    BY <2>2
  <2>4. PICK b2 \in DOMAIN line[u] :
          line2[u][b] = line[u][b2] /\ (u = t => b2 = b + 1) /\ (u # t => b2 = b)
    BY <2>2
  <2>5. Before(s, a2, u, b2)
    <3>1. CASE s < u
      BY <3>1 DEF Before
    <3>2. CASE ~ (s < u)
      <4>1. s = u /\ a < b
        BY <1>1, <3>2 DEF Before
      <4>2. CASE s = t
        <5>1. a \in Int /\ b \in Int /\ a2 = a + 1 /\ b2 = b + 1
          BY <2>2, <2>3, <2>4, <4>1, <4>2
        <5>2. a2 < b2
          BY <4>1, <5>1
        <5>3. QED
          BY <4>1, <5>2 DEF Before
      <4>3. CASE s # t
        BY <2>3, <2>4, <4>1, <4>3 DEF Before
      <4>4. QED
        BY <4>2, <4>3
    <3>3. QED
      BY <3>1, <3>2
  <2>6. Fine(ms, m, c, line[s][a2], line[u][b2])
    BY <2>5 DEF Ordered
  <2>7. QED
    BY <2>3, <2>4, <2>6
<1>2. QED
  BY <1>1 DEF Ordered

LEMMA OrderedPut ==
  ASSUME NEW ms, NEW m, NEW c,
         NEW line \in [Stages -> Seq(Blob)], NEW line2 \in [Stages -> Seq(Blob)],
         NEW t \in Stages, NEW x \in Blob, line2[t] = Append(line[t], x),
         \A s \in Stages : s # t => line2[s] = line[s],
         Ordered(ms, m, c, line),
         \A s \in Stages : \A a \in DOMAIN line[s] :
           /\ s <= t => Fine(ms, m, c, line[s][a], x)
           /\ t < s => Fine(ms, m, c, x, line[s][a])
  PROVE  Ordered(ms, m, c, line2)
<1>1. ASSUME NEW s \in Stages, NEW u \in Stages,
             NEW a \in DOMAIN line2[s], NEW b \in DOMAIN line2[u], Before(s, a, u, b)
      PROVE  Fine(ms, m, c, line2[s][a], line2[u][b])
  <2>1. line[t] \in Seq(Blob)
    OBVIOUS
  <2>2. /\ \A j \in DOMAIN line[t] : line2[t][j] = line[t][j]
        /\ \A j \in DOMAIN line2[t] : j \in DOMAIN line[t] \/ line2[t][j] = x
        /\ \A j \in DOMAIN line2[t] : j \notin DOMAIN line[t] =>
             \A l \in DOMAIN line2[t] : l <= j
    <3>1. PICK q \in Seq(Blob) : q = line[t]
      BY <2>1
    <3>2. PICK r : r = Append(q, x)
      OBVIOUS
    <3>3. /\ \A j \in DOMAIN q : r[j] = q[j]
          /\ \A j \in DOMAIN r : j \in DOMAIN q \/ r[j] = x
          /\ \A j \in DOMAIN r : j \notin DOMAIN q => \A l \in DOMAIN r : l <= j
      <4>1. /\ Len(q) \in Nat /\ DOMAIN q = 1 .. Len(q) /\ DOMAIN r = 1 .. (Len(q) + 1)
            /\ r[Len(q) + 1] = x /\ \A j \in 1 .. Len(q) : r[j] = q[j]
        BY <3>2, AppendProperties, LenProperties
      <4>2. \A j \in DOMAIN r : j \in DOMAIN q \/ j = Len(q) + 1
        BY <4>1
      <4>3. \A l \in DOMAIN r : l <= Len(q) + 1
        BY <4>1
      <4>4. QED
        BY <4>1, <4>2, <4>3
    <3>4. line2[t] = r
      BY <3>1, <3>2
    <3>5. QED
      BY <3>1, <3>3, <3>4, Zenon
  <2>3. s \in Int /\ u \in Int /\ t \in Int
    BY DEF Stages
  <2>4. CASE a \in DOMAIN line[s] /\ b \in DOMAIN line[u]
    <3>1. line2[s][a] = line[s][a] /\ line2[u][b] = line[u][b]
      BY <2>2, <2>4
    <3>2. QED
      BY <1>1, <2>4, <3>1 DEF Ordered
  <2>5. CASE a \notin DOMAIN line[s]
    <3>1. s = t /\ line2[s][a] = x
      BY <2>2, <2>5
    <3>2. u # t
      <4>1. SUFFICES ASSUME u = t PROVE FALSE
        OBVIOUS
      <4>2. a < b /\ b <= a
        BY <1>1, <2>2, <2>3, <2>5, <3>1, <4>1 DEF Before
      <4>3. a \in Int /\ b \in Int
        <5>1. line2[t] \in Seq(Blob)
          OBVIOUS
        <5>2. DOMAIN line2[t] = 1 .. Len(line2[t]) /\ Len(line2[t]) \in Nat
          BY <5>1, LenProperties
        <5>3. QED
          BY <3>1, <4>1, <5>2
      <4>4. QED
        BY <4>2, <4>3
    <3>3. t < u /\ line2[u] = line[u]
      BY <1>1, <2>3, <3>1, <3>2 DEF Before
    <3>4. QED
      BY <3>1, <3>3
  <2>6. CASE a \in DOMAIN line[s] /\ b \notin DOMAIN line[u]
    <3>1. u = t /\ line2[u][b] = x /\ line2[s][a] = line[s][a]
      BY <2>2, <2>6
    <3>2. s <= t
      BY <1>1, <2>3, <3>1 DEF Before
    <3>3. QED
      BY <2>6, <3>1, <3>2
  <2>7. QED
    BY <2>4, <2>5, <2>6
<1>2. QED
  BY <1>1 DEF Ordered

\* The first message of a stage, put at the end of the stage in front of it.
LEMMA OrderedMove ==
  ASSUME NEW ms, NEW m, NEW c,
         NEW line \in [Stages -> Seq(Blob)], NEW line2 \in [Stages -> Seq(Blob)],
         NEW t \in Stages, t - 1 \in Stages, line[t] # << >>,
         line2[t] = Tail(line[t]), line2[t - 1] = Append(line[t - 1], Head(line[t])),
         \A s \in Stages : s # t /\ s # t - 1 => line2[s] = line[s],
         Ordered(ms, m, c, line)
  PROVE  Ordered(ms, m, c, line2)
<1>1. PICK mid : mid = [line EXCEPT ![t] = Tail(line[t])]
  OBVIOUS
<1>2. PICK x : x = Head(line[t])
  OBVIOUS
<1>3. /\ line[t] \in Seq(Blob) /\ x \in Blob /\ Tail(line[t]) \in Seq(Blob)
      /\ 1 \in DOMAIN line[t] /\ x = line[t][1]
  BY <1>2, HeadAndTail, TailAt
<1>4. /\ mid \in [Stages -> Seq(Blob)] /\ mid[t] = Tail(line[t])
      /\ \A s \in Stages : s # t => mid[s] = line[s]
  BY <1>1, <1>3
<1>5. Ordered(ms, m, c, mid)
  BY <1>4, OrderedDrop
<1>6. PICK v \in Stages : v = t - 1
  OBVIOUS
<1>7. t \in Int /\ v \in Int /\ v # t
  BY <1>6 DEF Stages
<1>8. line2[v] = Append(mid[v], x) /\ \A s \in Stages : s # v => line2[s] = mid[s]
  BY <1>2, <1>4, <1>6, <1>7
<1>9. ASSUME NEW s \in Stages, NEW a \in DOMAIN mid[s]
      PROVE  /\ s <= v => Fine(ms, m, c, mid[s][a], x)
             /\ v < s => Fine(ms, m, c, x, mid[s][a])
  <2>1. s \in Int
    BY DEF Stages
  <2>2. ASSUME s <= v PROVE Fine(ms, m, c, mid[s][a], x)
    <3>1. s < t /\ mid[s] = line[s]
      BY <1>4, <1>6, <1>7, <2>1, <2>2
    <3>2. Before(s, a, t, 1)
      BY <3>1 DEF Before
    <3>3. QED
      BY <1>3, <3>1, <3>2 DEF Ordered
  <2>3. ASSUME v < s, s = t PROVE Fine(ms, m, c, x, mid[s][a])
    <3>1. a + 1 \in DOMAIN line[t] /\ mid[s][a] = line[t][a + 1] /\ a + 1 # 1 /\ a + 1 >= 1
      BY <1>3, <1>4, <2>3, TailAt
    <3>2. a \in Int
      BY <1>3, <1>4, <2>3, TailAt
    <3>3. Before(t, 1, t, a + 1)
      BY <3>1, <3>2 DEF Before
    <3>4. Fine(ms, m, c, line[t][1], line[t][a + 1])
      BY <1>3, <3>1, <3>3 DEF Ordered
    <3>5. QED
      BY <1>3, <3>1, <3>4
  <2>4. ASSUME v < s, s # t PROVE Fine(ms, m, c, x, mid[s][a])
    <3>1. t < s /\ mid[s] = line[s]
      BY <1>4, <1>6, <1>7, <2>1, <2>4
    <3>2. Before(t, 1, s, a)
      BY <3>1 DEF Before
    <3>3. QED
      BY <1>3, <3>1, <3>2 DEF Ordered
  <2>5. QED
    BY <2>2, <2>3, <2>4
<1>10. QED
  BY <1>3, <1>4, <1>5, <1>8, <1>9, OrderedPut

\* What is no message of the flow may be put anywhere.
LEMMA OrderedForeign ==
  ASSUME NEW ms, NEW m, NEW c,
         NEW line \in [Stages -> Seq(Blob)], NEW line2 \in [Stages -> Seq(Blob)],
         NEW t \in Stages, NEW x \in Blob, line2[t] = Append(line[t], x),
         \A s \in Stages : s # t => line2[s] = line[s],
         Ordered(ms, m, c, line), Foreign(ms, m, c, x)
  PROVE  Ordered(ms, m, c, line2)
<1>1. \A b : Fine(ms, m, c, b, x) /\ Fine(ms, m, c, x, b)
  BY DEF Fine, Foreign
<1>2. QED
  BY <1>1, OrderedPut

-----------------------------------------------------------------------------
\* The stages of a line.
LEMMA BlobsAt ==
  ASSUME NEW h \in Seq(Frame(Blob))
  PROVE  /\ Blobs(h) \in Seq(Blob) /\ Len(Blobs(h)) = Len(h)
         /\ \A j \in 1 .. Len(h) : Blobs(h)[j] = h[j].blob
<1>1. Len(h) \in Nat /\ \A j \in 1 .. Len(h) : h[j] \in Frame(Blob)
  BY LenProperties
<1>2. \A j \in 1 .. Len(h) : h[j].blob \in Blob
  BY <1>1 DEF Frame
<1>3. [j \in 1 .. Len(h) |-> h[j].blob] \in Seq(Blob)
  BY <1>1, <1>2, IsASeq
<1>4. QED
  BY <1>1, <1>3 DEF Blobs

LEMMA BlobsAppend ==
  ASSUME NEW h \in Seq(Frame(Blob)), NEW f \in Frame(Blob)
  PROVE  Blobs(Append(h, f)) = Append(Blobs(h), f.blob)
<1>1. PICK r \in Seq(Frame(Blob)) : r = Append(h, f)
  BY Put
<1>2. /\ Len(h) \in Nat /\ Len(r) = Len(h) + 1 /\ r[Len(h) + 1] = f
      /\ \A j \in 1 .. Len(h) : r[j] = h[j]
  BY <1>1, AppendProperties, LenProperties
<1>3. f.blob \in Blob
  BY DEF Frame
<1>4. PICK u \in Seq(Blob), v \in Seq(Blob) : u = Blobs(r) /\ v = Append(Blobs(h), f.blob)
  <2>1. Blobs(r) \in Seq(Blob) /\ Blobs(h) \in Seq(Blob)
    BY BlobsAt
  <2>2. Append(Blobs(h), f.blob) \in Seq(Blob)
    BY <1>3, <2>1, Put
  <2>3. QED
    BY <2>1, <2>2
<1>5. /\ Len(u) = Len(h) + 1 /\ Len(v) = Len(h) + 1
      /\ \A j \in 1 .. (Len(h) + 1) : u[j] = v[j]
  <2>1. Len(u) = Len(r) /\ \A j \in 1 .. Len(r) : u[j] = r[j].blob
    BY <1>4, BlobsAt
  <2>2. PICK w \in Seq(Blob) :
          w = Blobs(h) /\ Len(w) = Len(h) /\ \A j \in 1 .. Len(h) : w[j] = h[j].blob
    BY BlobsAt
  <2>3. /\ Len(v) = Len(h) + 1 /\ v[Len(h) + 1] = f.blob
        /\ \A j \in 1 .. Len(h) : v[j] = w[j]
    BY <1>3, <1>4, <2>2, AppendProperties
  <2>4. ASSUME NEW j \in 1 .. (Len(h) + 1) PROVE u[j] = v[j]
    <3>1. CASE j = Len(h) + 1
      BY <1>2, <2>1, <2>3, <3>1
    <3>2. CASE j \in 1 .. Len(h)
      BY <1>2, <2>1, <2>2, <2>3, <3>2
    <3>3. QED
      BY <1>2, <3>1, <3>2
  <2>5. QED
    BY <1>2, <2>1, <2>3, <2>4
<1>6. u = v
  BY <1>5, SeqEqual
<1>7. QED
  BY <1>1, <1>4, <1>6

LEMMA BlobsTail ==
  ASSUME NEW h \in Seq(Frame(Blob)), h # << >>
  PROVE  /\ Blobs(h) # << >> /\ Head(Blobs(h)) = Head(h).blob
         /\ Blobs(Tail(h)) = Tail(Blobs(h))
<1>1. PICK r \in Seq(Frame(Blob)) : r = Tail(h)
  BY HeadAndTail
<1>2. /\ Len(h) \in Nat /\ Len(h) # 0 /\ Len(r) = Len(h) - 1 /\ Head(h) = h[1]
      /\ \A j \in 1 .. (Len(h) - 1) : r[j] = h[j + 1]
  BY <1>1, HeadTailProperties, EmptySeq, LenProperties
<1>3. PICK w \in Seq(Blob) :
        w = Blobs(h) /\ Len(w) = Len(h) /\ \A j \in 1 .. Len(h) : w[j] = h[j].blob
  BY BlobsAt
<1>4. w # << >>
  BY <1>2, <1>3
<1>5. PICK u \in Seq(Blob), v \in Seq(Blob) : u = Blobs(r) /\ v = Tail(w)
  BY <1>4, BlobsAt, HeadAndTail
<1>6. /\ Len(v) = Len(h) - 1 /\ Head(w) = w[1]
      /\ \A j \in 1 .. (Len(h) - 1) : v[j] = w[j + 1]
  BY <1>3, <1>4, <1>5, HeadTailProperties
<1>7. Len(u) = Len(h) - 1 /\ \A j \in 1 .. (Len(h) - 1) : u[j] = r[j].blob
  BY <1>2, <1>5, BlobsAt
<1>8. \A j \in 1 .. (Len(h) - 1) : u[j] = v[j]
  <2>1. ASSUME NEW j \in 1 .. (Len(h) - 1) PROVE u[j] = v[j]
    <3>1. j + 1 \in 1 .. Len(h)
      BY <1>2
    <3>2. QED
      BY <1>2, <1>3, <1>6, <1>7, <3>1
  <2>2. QED
    BY <2>1
<1>9. u = v
  BY <1>6, <1>7, <1>8, SeqEqual
<1>10. Head(w) = Head(h).blob
  <2>1. 1 \in 1 .. Len(h)
    BY <1>2
  <2>2. QED
    BY <1>2, <1>3, <1>6, <2>1
<1>11. QED
  BY <1>1, <1>3, <1>4, <1>5, <1>9, <1>10

LEMMA SourcesAt ==
  ASSUME NEW ms, WellFormed(ms), NEW n, NEW g \in Seq(Outputs(ms, n))
  PROVE  /\ Sources(ms, g) \in Seq(Blob) /\ Len(Sources(ms, g)) = Len(g)
         /\ \A j \in 1 .. Len(g) :
              /\ g[j].payload[1] \in DOMAIN ms /\ ms[g[j].payload[1]].from # n
              /\ Sources(ms, g)[j] = DataBlob(ms[g[j].payload[1]], g[j].payload[1])
<1>1. Len(g) \in Nat /\ \A j \in 1 .. Len(g) : g[j] \in Outputs(ms, n)
  BY LenProperties
<1>2. ASSUME NEW j \in 1 .. Len(g)
      PROVE  /\ g[j].payload[1] \in DOMAIN ms /\ ms[g[j].payload[1]].from # n
             /\ DataBlob(ms[g[j].payload[1]], g[j].payload[1]) \in Blob
  <2>1. PICK k \in DOMAIN ms : g[j].payload = <<k>> /\ ms[k].from # n
    BY <1>1 DEF Outputs
  <2>2. g[j].payload[1] = k
    BY <2>1
  <2>3. DataBlob(ms[k], k) \in Blob
    BY SentAt, SentIsMessage, DataBytes
  <2>4. QED
    BY <2>1, <2>2, <2>3
<1>3. [j \in 1 .. Len(g) |-> DataBlob(ms[g[j].payload[1]], g[j].payload[1])] \in Seq(Blob)
  BY <1>1, <1>2, IsASeq
<1>4. QED
  BY <1>1, <1>2, <1>3 DEF Sources

LEMMA SourcesAppend ==
  ASSUME NEW ms, WellFormed(ms), NEW n, NEW g \in Seq(Outputs(ms, n)),
         NEW x \in Outputs(ms, n), NEW k, x.payload = <<k>>
  PROVE  Sources(ms, Append(g, x)) = Append(Sources(ms, g), DataBlob(ms[k], k))
<1>1. PICK r \in Seq(Outputs(ms, n)) : r = Append(g, x)
  BY Put
<1>2. /\ Len(g) \in Nat /\ Len(r) = Len(g) + 1 /\ r[Len(g) + 1] = x
      /\ \A j \in 1 .. Len(g) : r[j] = g[j]
  BY <1>1, AppendProperties, LenProperties
<1>3. x.payload[1] = k
  OBVIOUS
<1>4. PICK u \in Seq(Blob) : u = Sources(ms, r)
  BY SourcesAt
<1>5. /\ Len(u) = Len(r)
      /\ \A j \in 1 .. Len(r) : u[j] = DataBlob(ms[r[j].payload[1]], r[j].payload[1])
  BY <1>4, SourcesAt
<1>6. PICK w \in Seq(Blob) : w = Sources(ms, g)
  BY SourcesAt
<1>7. /\ Len(w) = Len(g)
      /\ \A j \in 1 .. Len(g) : w[j] = DataBlob(ms[g[j].payload[1]], g[j].payload[1])
  BY <1>6, SourcesAt
<1>8. u[Len(g) + 1] = DataBlob(ms[k], k)
  <2>1. Len(g) + 1 \in 1 .. Len(r)
    BY <1>2
  <2>2. QED
    BY <1>2, <1>3, <1>5, <2>1
<1>9. PICK y \in Blob : y = DataBlob(ms[k], k)
  <2>1. Len(g) + 1 \in 1 .. Len(u)
    BY <1>2, <1>5
  <2>2. u[Len(g) + 1] \in Blob
    BY <2>1
  <2>3. QED
    BY <1>8, <2>2
<1>10. PICK v \in Seq(Blob) : v = Append(w, y)
  BY Put
<1>11. Len(v) = Len(g) + 1 /\ v[Len(g) + 1] = y /\ \A j \in 1 .. Len(g) : v[j] = w[j]
  BY <1>7, <1>10, AppendProperties
<1>12. ASSUME NEW j \in 1 .. (Len(g) + 1) PROVE u[j] = v[j]
  <2>1. CASE j = Len(g) + 1
    BY <1>8, <1>9, <1>11, <2>1
  <2>2. CASE j \in 1 .. Len(g)
    BY <1>2, <1>5, <1>7, <1>11, <2>2
  <2>3. QED
    BY <1>2, <2>1, <2>2
<1>13. u = v
  BY <1>2, <1>5, <1>11, <1>12, SeqEqual
<1>14. QED
  BY <1>1, <1>4, <1>6, <1>9, <1>10, <1>13

LEMMA LineAt ==
  ASSUME NEW ms, WellFormed(ms), NEW n, NEW g \in Seq(Outputs(ms, n)),
         NEW r \in Seq(Blob), NEW h \in Seq(Frame(Blob)), NEW q \in Seq(Blob),
         NEW p \in Seq(Blob)
  PROVE  /\ LineOf(ms, g, r, h, q, p) \in [Stages -> Seq(Blob)]
         /\ LineOf(ms, g, r, h, q, p)[1] = Sources(ms, g)
         /\ LineOf(ms, g, r, h, q, p)[2] = r
         /\ LineOf(ms, g, r, h, q, p)[3] = Blobs(h)
         /\ LineOf(ms, g, r, h, q, p)[4] = q
         /\ LineOf(ms, g, r, h, q, p)[5] = p
<1>1. Sources(ms, g) \in Seq(Blob) /\ Blobs(h) \in Seq(Blob)
  BY SourcesAt, BlobsAt
<1>2. PICK u, v : u = Sources(ms, g) /\ v = Blobs(h)
  OBVIOUS
<1>3. [s \in Stages |-> IF s = 1 THEN u ELSE IF s = 2 THEN r ELSE IF s = 3 THEN v
                        ELSE IF s = 4 THEN q ELSE p] \in [Stages -> Seq(Blob)]
  BY <1>1, <1>2
<1>4. 1 \in Stages /\ 2 \in Stages /\ 3 \in Stages /\ 4 \in Stages /\ 5 \in Stages
  BY DEF Stages
<1>5. QED
  BY <1>2, <1>3, <1>4 DEF LineOf

LEMMA StageCases ==
  ASSUME NEW s \in Stages
  PROVE  s \in Int /\ (s = 1 \/ s = 2 \/ s = 3 \/ s = 4 \/ s = 5)
BY DEF Stages

LEMMA LineNow ==
  ASSUME BaseInv, NEW n \in Node, NEW m \in Node, NEW i \in DOMAIN Config[m]
  PROVE  /\ Line(n, m, i) \in [Stages -> Seq(Blob)]
         /\ Line(n, m, i)[1] = Sources(msgs, got[n]) /\ Line(n, m, i)[2] = toRime[n]
         /\ Line(n, m, i)[3] = Blobs(heard[n]) /\ Line(n, m, i)[4] = toMac[m]
         /\ Line(n, m, i)[5] = held[m][i]
<1>1. /\ WellFormed(msgs) /\ got[n] \in Seq(Outputs(msgs, n)) /\ toRime[n] \in Seq(Blob)
      /\ heard[n] \in Seq(Frame(Blob)) /\ toMac[m] \in Seq(Blob) /\ held[m][i] \in Seq(Blob)
  BY DEF BaseInv, SendersInv, PortsInv, ContentsInv
<1>2. PICK ms, g, r, h, q, p :
        /\ ms = msgs /\ g = got[n] /\ r = toRime[n] /\ h = heard[n]
        /\ q = toMac[m] /\ p = held[m][i]
  OBVIOUS
<1>3. /\ WellFormed(ms) /\ g \in Seq(Outputs(ms, n)) /\ r \in Seq(Blob)
      /\ h \in Seq(Frame(Blob)) /\ q \in Seq(Blob) /\ p \in Seq(Blob)
  BY <1>1, <1>2
<1>4. Line(n, m, i) = LineOf(ms, g, r, h, q, p)
  BY <1>2 DEF Line
<1>5. QED
  BY <1>2, <1>3, <1>4, LineAt

LEMMA LineNext ==
  ASSUME BaseInv', NEW n \in Node, NEW m \in Node, NEW i \in DOMAIN Config[m]
  PROVE  /\ Line(n, m, i)' \in [Stages -> Seq(Blob)]
         /\ Line(n, m, i)'[1] = Sources(msgs', got'[n]) /\ Line(n, m, i)'[2] = toRime'[n]
         /\ Line(n, m, i)'[3] = Blobs(heard'[n]) /\ Line(n, m, i)'[4] = toMac'[m]
         /\ Line(n, m, i)'[5] = held'[m][i]
<1>1. /\ WellFormed(msgs') /\ got'[n] \in Seq(Outputs(msgs', n)) /\ toRime'[n] \in Seq(Blob)
      /\ heard'[n] \in Seq(Frame(Blob)) /\ toMac'[m] \in Seq(Blob) /\ held'[m][i] \in Seq(Blob)
  BY DEF BaseInv, SendersInv, PortsInv, ContentsInv
<1>2. PICK ms, g, r, h, q, p :
        /\ ms = msgs' /\ g = got'[n] /\ r = toRime'[n] /\ h = heard'[n]
        /\ q = toMac'[m] /\ p = held'[m][i]
  OBVIOUS
<1>3. /\ WellFormed(ms) /\ g \in Seq(Outputs(ms, n)) /\ r \in Seq(Blob)
      /\ h \in Seq(Frame(Blob)) /\ q \in Seq(Blob) /\ p \in Seq(Blob)
  BY <1>1, <1>2
<1>4. Line(n, m, i)' = LineOf(ms, g, r, h, q, p)
  BY <1>2 DEF Line
<1>5. QED
  BY <1>2, <1>3, <1>4, LineAt

\* What is not of the flow.
LEMMA DifferentData ==
  ASSUME NEW ms, WellFormed(ms), NEW k \in DOMAIN ms, NEW l \in DOMAIN ms, k # l
  PROVE  DataBlob(ms[k], k) # DataBlob(ms[l], l)
<1>1. PICK x, y : x = ms[k] /\ y = ms[l]
  OBVIOUS
<1>2. x \in Message /\ y \in Message /\ k \in Byte /\ l \in Byte
  BY <1>1, SentAt, SentIsMessage
<1>3. PICK a, b : a = DataBlob(x, k) /\ b = DataBlob(y, l)
  OBVIOUS
<1>4. a[Len(a)] = k /\ b[Len(b)] = l
  BY <1>2, <1>3, DataBytes
<1>5. QED
  BY <1>1, <1>3, <1>4

LEMMA AckIsNoData ==
  ASSUME NEW x \in Sent, x.conn.kind = "ruc", NEW y \in Sent, NEW l \in Byte
  PROVE  AckBlob(x) # DataBlob(y, l)
<1>1. PICK b : b = AckBlob(x)
  OBVIOUS
<1>2. SUFFICES ASSUME b = DataBlob(y, l) PROVE FALSE
  BY <1>1
<1>3. x \in Message /\ y \in Message
  BY SentIsMessage
<1>4. RucIsAck(b) /\ Begins(b, x.conn.channel)
  BY <1>1, <1>3, AckBytes
<1>5. Begins(b, y.conn.channel) /\ (y.conn.kind = "ruc" => ~ RucIsAck(b))
  BY <1>2, <1>3, DataBytes
<1>6. x.conn.channel = y.conn.channel
  BY <1>3, <1>4, <1>5, ChannelsDiffer, MessageParts
<1>7. y.conn.kind = "ruc"
  <2>1. PICK n \in Node : \E i \in DOMAIN Config[n] : Config[n][i] = x.conn
    BY SentIsMessage
  <2>2. PICK m \in Node : \E i \in DOMAIN Config[m] : Config[m][i] = y.conn
    BY SentIsMessage
  <2>3. PICK i \in DOMAIN Config[n] : Config[n][i] = x.conn
    BY <2>1
  <2>4. PICK j \in DOMAIN Config[m] : Config[m][j] = y.conn
    BY <2>2
  <2>5. Config[n][i].kind = Config[m][j].kind
    BY <1>6, <2>3, <2>4, ChannelsAgree
  <2>6. QED
    BY <2>3, <2>4, <2>5
<1>8. QED
  BY <1>4, <1>5, <1>7

LEMMA ForeignData ==
  ASSUME NEW ms, WellFormed(ms), NEW m, NEW c, NEW k \in DOMAIN ms, k \notin Flow(ms, m, c)
  PROVE  Foreign(ms, m, c, DataBlob(ms[k], k))
BY DifferentData DEF Foreign, Flow

LEMMA ForeignAck ==
  ASSUME NEW ms, WellFormed(ms), NEW m, NEW c, NEW x \in Sent, x.conn.kind = "ruc"
  PROVE  Foreign(ms, m, c, AckBlob(x))
BY AckIsNoData, SentAt DEF Foreign, Flow

LEMMA ForeignEof ==
  ASSUME NEW ms, WellFormed(ms), NEW m, NEW c
  PROVE  Foreign(ms, m, c, Eof)
BY DataBytes, SentAt, SentIsMessage DEF Foreign, Flow

LEMMA SameLine ==
  ASSUME OrderInv, NEW n \in Node, NEW m \in Node, NEW i \in DOMAIN Config[m], n # m,
         msgs' = msgs, got'[n] = got[n], toRime'[n] = toRime[n], heard'[n] = heard[n],
         toMac'[m] = toMac[m], held'[m][i] = held[m][i]
  PROVE  Ordered(msgs', m, Config[m][i], Line(n, m, i)')
BY DEF OrderInv, Line

\* mac hands the first message in its port to the other nodes, or to some of them.
LEMMA OrderMacSend ==
  ASSUME BaseInv, BaseInv', OrderInv, NEW p \in Node, MacSend(p),
         NEW n \in Node, NEW m \in Node, NEW i \in DOMAIN Config[m], n # m
  PROVE  Ordered(msgs', m, Config[m][i], Line(n, m, i)')
<1>1. PICK b : b = Head(toMac[p])
  OBVIOUS
<1>2. /\ toMac[p] # << >> /\ b # Eof /\ toMac' = [toMac EXCEPT ![p] = Tail(@)]
      /\ UNCHANGED <<held, toRime, msgs, got>>
  BY <1>1 DEF MacSend, rimeVars
<1>3. PICK fate \in [Node \ {p} -> Fates] :
        heard' = [q \in Node |->
                    IF q # p /\ fate[q] # "lost"
                    THEN Append(heard[q], [blob |-> b, ok |-> fate[q] = "intact"])
                    ELSE heard[q]]
  BY <1>1 DEF MacSend
<1>4. toMac \in [Node -> Seq(Blob)] /\ heard[n] \in Seq(Frame(Blob)) /\ WellFormed(msgs)
  BY DEF BaseInv, PortsInv
<1>5. toMac'[p] = Tail(toMac[p]) /\ \A q \in Node : q # p => toMac'[q] = toMac[q]
  BY <1>2, <1>4, Dropped
<1>6. b \in Blob /\ b \in Sendable(msgs, got, p)
  <2>1. toMac[p] \in Seq(Blob) /\ toMac[p] \in Seq(Sendable(msgs, got, p))
    BY DEF BaseInv, PortsInv, ContentsInv
  <2>2. QED
    BY <1>1, <1>2, <2>1, HeadAndTail
<1>7. PICK line, line2, ms, c :
        line = Line(n, m, i) /\ line2 = Line(n, m, i)' /\ ms = msgs /\ c = Config[m][i]
  OBVIOUS
<1>8. /\ line \in [Stages -> Seq(Blob)] /\ line[1] = Sources(msgs, got[n])
      /\ line[2] = toRime[n] /\ line[3] = Blobs(heard[n]) /\ line[4] = toMac[m]
      /\ line[5] = held[m][i]
  BY <1>7, LineNow
<1>9. /\ line2 \in [Stages -> Seq(Blob)] /\ line2[1] = line[1] /\ line2[2] = line[2]
      /\ line2[3] = Blobs(heard'[n]) /\ line2[4] = toMac'[m] /\ line2[5] = line[5]
  <2>1. /\ line2 \in [Stages -> Seq(Blob)] /\ line2[1] = Sources(msgs', got'[n])
        /\ line2[2] = toRime'[n] /\ line2[3] = Blobs(heard'[n]) /\ line2[4] = toMac'[m]
        /\ line2[5] = held'[m][i]
    BY <1>7, LineNext
  <2>2. QED
    BY <1>2, <1>8, <2>1
<1>10. Ordered(ms, m, c, line)
  BY <1>7 DEF OrderInv
<1>11. ASSUME n # p, fate[n] # "lost"
       PROVE  line2[3] = Append(line[3], b)
  <2>1. PICK f : f = [blob |-> b, ok |-> fate[n] = "intact"]
    OBVIOUS
  <2>2. f \in Frame(Blob) /\ f.blob = b
    BY <1>6, <2>1 DEF Frame
  <2>3. heard'[n] = Append(heard[n], f)
    BY <1>3, <1>11, <2>1
  <2>4. QED
    BY <1>4, <1>8, <1>9, <2>2, <2>3, BlobsAppend
<1>12. ASSUME ~ (n # p /\ fate[n] # "lost")
       PROVE  heard'[n] = heard[n] /\ line2[3] = line[3]
  BY <1>3, <1>8, <1>9, <1>12
<1>13. 3 \in Stages /\ 4 \in Stages /\ 4 - 1 = 3 /\ \A s \in Stages : s \in {1, 2, 3, 4, 5}
  BY DEF Stages
<1>14. CASE m = p /\ fate[n] # "lost"
  <2>1. line[4] # << >> /\ line2[4] = Tail(line[4]) /\ b = Head(line[4])
    BY <1>1, <1>2, <1>5, <1>8, <1>9, <1>14
  <2>2. line2[3] = Append(line[3], Head(line[4]))
    BY <1>11, <1>14, <2>1
  <2>3. \A s \in Stages : s # 4 /\ s # 4 - 1 => line2[s] = line[s]
    BY <1>9, <1>13
  <2>4. line2[4 - 1] = Append(line[4 - 1], Head(line[4])) /\ 4 - 1 \in Stages
    BY <1>13, <2>2
  <2>5. Ordered(ms, m, c, line2)
    BY <1>8, <1>9, <1>10, <1>13, <2>1, <2>3, <2>4, OrderedMove
  <2>6. QED
    BY <1>2, <1>7, <2>5
<1>15. CASE m = p /\ fate[n] = "lost"
  <2>1. line[4] # << >> /\ line2[4] = Tail(line[4]) /\ line2[3] = line[3]
    BY <1>2, <1>5, <1>8, <1>9, <1>12, <1>15
  <2>2. \A s \in Stages : s # 4 => line2[s] = line[s]
    BY <1>9, <1>13, <2>1
  <2>3. Ordered(ms, m, c, line2)
    BY <1>8, <1>9, <1>10, <1>13, <2>1, <2>2, OrderedDrop
  <2>4. QED
    BY <1>2, <1>7, <2>3
<1>16. CASE m # p /\ n # p /\ fate[n] # "lost"
  <2>1. Foreign(ms, m, c, b)
    <3>1. CASE b \in OwnData(msgs, p)
      <4>1. PICK k \in DOMAIN ms : ms[k].from = p /\ b = DataBlob(ms[k], k)
        BY <1>7, <3>1 DEF OwnData
      <4>2. k \notin Flow(ms, m, c)
        BY <1>16, <4>1 DEF Flow
      <4>3. QED
        BY <1>4, <1>7, <4>1, <4>2, ForeignData
    <3>2. CASE b \in EarnedAcks(msgs, got)
      <4>1. PICK k \in DOMAIN ms : ms[k].conn.kind = "ruc" /\ b = AckBlob(ms[k])
        BY <1>7, <3>2 DEF EarnedAcks
      <4>2. ms[k] \in Sent /\ WellFormed(ms)
        BY <1>4, <1>7, SentAt
      <4>3. QED
        BY <4>1, <4>2, ForeignAck
    <3>3. QED
      BY <1>2, <1>6, <3>1, <3>2 DEF Sendable
  <2>2. line2[3] = Append(line[3], b) /\ line2[4] = line[4]
    BY <1>5, <1>8, <1>9, <1>11, <1>16
  <2>3. \A s \in Stages : s # 3 => line2[s] = line[s]
    BY <1>9, <1>13, <2>2
  <2>4. Ordered(ms, m, c, line2)
    BY <1>6, <1>8, <1>9, <1>10, <1>13, <2>1, <2>2, <2>3, OrderedForeign
  <2>5. QED
    BY <1>2, <1>7, <2>4
<1>17. CASE m # p /\ ~ (n # p /\ fate[n] # "lost")
  <2>1. toMac'[m] = toMac[m] /\ heard'[n] = heard[n]
    BY <1>5, <1>12, <1>17
  <2>2. QED
    BY <1>2, <2>1, SameLine
<1>18. QED
  BY <1>14, <1>15, <1>16, <1>17

\* mac passes on the first frame it heard, or drops it.
LEMMA OrderMacReceive ==
  ASSUME BaseInv, BaseInv', OrderInv, NEW p \in Node, MacReceive(p),
         NEW n \in Node, NEW m \in Node, NEW i \in DOMAIN Config[m], n # m
  PROVE  Ordered(msgs', m, Config[m][i], Line(n, m, i)')
<1>1. PICK f : f = Head(heard[p])
  OBVIOUS
<1>2. /\ heard[p] # << >> /\ heard' = [heard EXCEPT ![p] = Tail(@)]
      /\ toRime' = [toRime EXCEPT ![p] = IF f.ok THEN Append(@, f.blob) ELSE @]
      /\ UNCHANGED <<held, toMac, msgs, got>>
  BY <1>1 DEF MacReceive, rimeVars
<1>3. /\ heard \in [Node -> Seq(Frame(Blob))] /\ toRime \in [Node -> Seq(Blob)]
      /\ heard[p] \in Seq(Frame(Blob))
  BY DEF BaseInv, PortsInv
<1>4. heard'[p] = Tail(heard[p]) /\ \A q \in Node : q # p => heard'[q] = heard[q]
  BY <1>2, <1>3, Dropped
<1>5. /\ f.ok => toRime'[p] = Append(toRime[p], f.blob)
      /\ ~ f.ok => toRime'[p] = toRime[p]
      /\ \A q \in Node : q # p => toRime'[q] = toRime[q]
  BY <1>2, <1>3
<1>6. CASE n # p
  <2>1. toRime'[n] = toRime[n] /\ heard'[n] = heard[n]
    BY <1>4, <1>5, <1>6
  <2>2. QED
    BY <1>2, <2>1, SameLine
<1>7. CASE n = p
  <2>1. PICK line, line2, ms, c :
          line = Line(n, m, i) /\ line2 = Line(n, m, i)' /\ ms = msgs /\ c = Config[m][i]
    OBVIOUS
  <2>2. /\ line \in [Stages -> Seq(Blob)] /\ line[1] = Sources(msgs, got[n])
        /\ line[2] = toRime[n] /\ line[3] = Blobs(heard[n]) /\ line[4] = toMac[m]
        /\ line[5] = held[m][i]
    BY <2>1, LineNow
  <2>3. /\ line2 \in [Stages -> Seq(Blob)] /\ line2[1] = line[1]
        /\ line2[2] = toRime'[n] /\ line2[3] = Blobs(heard'[n])
        /\ line2[4] = line[4] /\ line2[5] = line[5]
    <3>1. /\ line2 \in [Stages -> Seq(Blob)] /\ line2[1] = Sources(msgs', got'[n])
          /\ line2[2] = toRime'[n] /\ line2[3] = Blobs(heard'[n]) /\ line2[4] = toMac'[m]
          /\ line2[5] = held'[m][i]
      BY <2>1, LineNext
    <3>2. QED
      BY <1>2, <2>2, <3>1
  <2>4. Ordered(ms, m, c, line)
    BY <2>1 DEF OrderInv
  <2>5. line[3] # << >> /\ Head(line[3]) = f.blob /\ line2[3] = Tail(line[3])
    BY <1>1, <1>2, <1>3, <1>4, <1>7, <2>2, <2>3, BlobsTail
  <2>6. 3 \in Stages /\ 2 \in Stages /\ 3 - 1 = 2 /\ \A s \in Stages : s \in {1, 2, 3, 4, 5}
    BY DEF Stages
  <2>7. CASE f.ok
    <3>1. line2[2] = Append(line[2], Head(line[3]))
      BY <1>5, <1>7, <2>2, <2>3, <2>5, <2>7
    <3>2. line2[3 - 1] = Append(line[3 - 1], Head(line[3])) /\ 3 - 1 \in Stages
      BY <2>6, <3>1
    <3>3. \A s \in Stages : s # 3 /\ s # 3 - 1 => line2[s] = line[s]
      BY <2>3, <2>6
    <3>4. Ordered(ms, m, c, line2)
      BY <2>2, <2>3, <2>4, <2>5, <2>6, <3>2, <3>3, OrderedMove
    <3>5. QED
      BY <1>2, <2>1, <3>4
  <2>8. CASE ~ f.ok
    <3>1. line2[2] = line[2]
      BY <1>5, <1>7, <2>2, <2>3, <2>8
    <3>2. \A s \in Stages : s # 3 => line2[s] = line[s]
      BY <2>3, <2>6, <3>1
    <3>3. Ordered(ms, m, c, line2)
      BY <2>2, <2>3, <2>4, <2>5, <2>6, <3>2, OrderedDrop
    <3>4. QED
      BY <1>2, <2>1, <3>3
  <2>9. QED
    BY <2>7, <2>8
<1>8. QED
  BY <1>6, <1>7

\* PMT_EOF leaves the port, and a packet its stubborn sender.
LEMMA OrderMacEof ==
  ASSUME BaseInv, BaseInv', OrderInv, NEW p \in Node, MacEof(p),
         NEW n \in Node, NEW m \in Node, NEW i \in DOMAIN Config[m], n # m
  PROVE  Ordered(msgs', m, Config[m][i], Line(n, m, i)')
<1>1. /\ toMac[p] # << >> /\ toMac' = [toMac EXCEPT ![p] = Tail(@)]
      /\ UNCHANGED <<held, toRime, heard, msgs, got>>
  BY DEF MacEof, rimeVars
<1>2. toMac \in [Node -> Seq(Blob)]
  BY DEF BaseInv, PortsInv
<1>3. toMac'[p] = Tail(toMac[p]) /\ \A q \in Node : q # p => toMac'[q] = toMac[q]
  BY <1>1, <1>2, Dropped
<1>4. CASE m # p
  <2>1. toMac'[m] = toMac[m]
    BY <1>3, <1>4
  <2>2. QED
    BY <1>1, <2>1, SameLine
<1>5. CASE m = p
  <2>1. PICK line, line2, ms, c :
          line = Line(n, m, i) /\ line2 = Line(n, m, i)' /\ ms = msgs /\ c = Config[m][i]
    OBVIOUS
  <2>2. /\ line \in [Stages -> Seq(Blob)] /\ line[1] = Sources(msgs, got[n])
        /\ line[2] = toRime[n] /\ line[3] = Blobs(heard[n]) /\ line[4] = toMac[m]
        /\ line[5] = held[m][i]
    BY <2>1, LineNow
  <2>3. /\ line2 \in [Stages -> Seq(Blob)] /\ line2[1] = line[1] /\ line2[2] = line[2]
        /\ line2[3] = line[3] /\ line2[4] = Tail(line[4]) /\ line2[5] = line[5]
    <3>1. /\ line2 \in [Stages -> Seq(Blob)] /\ line2[1] = Sources(msgs', got'[n])
          /\ line2[2] = toRime'[n] /\ line2[3] = Blobs(heard'[n]) /\ line2[4] = toMac'[m]
          /\ line2[5] = held'[m][i]
      BY <2>1, LineNext
    <3>2. QED
      BY <1>1, <1>3, <1>5, <2>2, <3>1
  <2>4. Ordered(ms, m, c, line) /\ line[4] # << >>
    BY <1>1, <1>5, <2>1, <2>2 DEF OrderInv
  <2>5. 4 \in Stages /\ \A s \in Stages : s # 4 => line2[s] = line[s]
    BY <2>3 DEF Stages
  <2>6. Ordered(ms, m, c, line2)
    BY <2>2, <2>3, <2>4, <2>5, OrderedDrop
  <2>7. QED
    BY <1>1, <2>1, <2>6
<1>6. QED
  BY <1>4, <1>5

LEMMA OrderSettle ==
  ASSUME BaseInv, BaseInv', OrderInv, NEW p \in Node, NEW j \in Conns(p, "ruc"), Settle(p, j),
         NEW n \in Node, NEW m \in Node, NEW i \in DOMAIN Config[m], n # m
  PROVE  Ordered(msgs', m, Config[m][i], Line(n, m, i)')
<1>1. j \in DOMAIN Config[p]
  BY DEF Conns
<1>2. tries[p][j] > 0 /\ tries[p][j] \in Nat /\ held[p][j] # << >>
  BY <1>1, BoundsAssumption DEF Settle, BaseInv, SendersInv, HeldInv
<1>3. PICK x : x = Tail(held[p][j])
  OBVIOUS
<1>4. held' = [held EXCEPT ![p][j] = x] /\ UNCHANGED <<toMac, toRime, heard, msgs, got>>
  BY <1>3 DEF Settle
<1>5. /\ DOMAIN held = Node /\ DOMAIN held[p] = DOMAIN Config[p]
      /\ DOMAIN held[m] = DOMAIN Config[m]
  BY DEF BaseInv, SendersInv
<1>6. CASE m # p \/ i # j
  <2>1. held'[m][i] = held[m][i]
    BY <1>1, <1>4, <1>5, <1>6
  <2>2. QED
    BY <1>4, <2>1, SameLine
<1>7. CASE m = p /\ i = j
  <2>1. PICK line, line2, ms, c :
          line = Line(n, m, i) /\ line2 = Line(n, m, i)' /\ ms = msgs /\ c = Config[m][i]
    OBVIOUS
  <2>2. /\ line \in [Stages -> Seq(Blob)] /\ line[1] = Sources(msgs, got[n])
        /\ line[2] = toRime[n] /\ line[3] = Blobs(heard[n]) /\ line[4] = toMac[m]
        /\ line[5] = held[m][i]
    BY <2>1, LineNow
  <2>3. held'[m][i] = Tail(held[m][i])
    BY <1>1, <1>3, <1>4, <1>5, <1>7
  <2>4. /\ line2 \in [Stages -> Seq(Blob)] /\ line2[1] = line[1] /\ line2[2] = line[2]
        /\ line2[3] = line[3] /\ line2[4] = line[4] /\ line2[5] = Tail(line[5])
    <3>1. /\ line2 \in [Stages -> Seq(Blob)] /\ line2[1] = Sources(msgs', got'[n])
          /\ line2[2] = toRime'[n] /\ line2[3] = Blobs(heard'[n]) /\ line2[4] = toMac'[m]
          /\ line2[5] = held'[m][i]
      BY <2>1, LineNext
    <3>2. QED
      BY <1>4, <2>2, <2>3, <3>1
  <2>5. Ordered(ms, m, c, line) /\ line[5] # << >>
    BY <1>2, <1>7, <2>1, <2>2 DEF OrderInv
  <2>6. 5 \in Stages /\ \A s \in Stages : s # 5 => line2[s] = line[s]
    BY <2>4 DEF Stages
  <2>7. Ordered(ms, m, c, line2)
    BY <2>2, <2>4, <2>5, <2>6, OrderedDrop
  <2>8. QED
    BY <1>4, <2>1, <2>7
<1>8. QED
  BY <1>6, <1>7

\* A message in the port of p that is not of the flow: PMT_EOF, an acknowledgement.
LEMMA OrderPublish ==
  ASSUME BaseInv, BaseInv', OrderInv, NEW p \in Node, NEW x \in Blob, Publish(toMac, p, x),
         UNCHANGED <<held, toRime, heard, msgs, got>>,
         NEW n \in Node, NEW m \in Node, NEW i \in DOMAIN Config[m], n # m,
         m = p => Foreign(msgs, m, Config[m][i], x)
  PROVE  Ordered(msgs', m, Config[m][i], Line(n, m, i)')
<1>1. toMac \in [Node -> Seq(Blob)] /\ toMac' = [toMac EXCEPT ![p] = Append(@, x)]
  BY DEF BaseInv, PortsInv, Publish
<1>2. toMac'[p] = Append(toMac[p], x) /\ \A q \in Node : q # p => toMac'[q] = toMac[q]
  BY <1>1, Appended
<1>3. CASE m # p
  <2>1. toMac'[m] = toMac[m]
    BY <1>2, <1>3
  <2>2. QED
    BY <2>1, SameLine
<1>4. CASE m = p
  <2>1. PICK line, line2, ms, c :
          line = Line(n, m, i) /\ line2 = Line(n, m, i)' /\ ms = msgs /\ c = Config[m][i]
    OBVIOUS
  <2>2. /\ line \in [Stages -> Seq(Blob)] /\ line[1] = Sources(msgs, got[n])
        /\ line[2] = toRime[n] /\ line[3] = Blobs(heard[n]) /\ line[4] = toMac[m]
        /\ line[5] = held[m][i]
    BY <2>1, LineNow
  <2>3. /\ line2 \in [Stages -> Seq(Blob)] /\ line2[1] = line[1] /\ line2[2] = line[2]
        /\ line2[3] = line[3] /\ line2[4] = Append(line[4], x) /\ line2[5] = line[5]
    <3>1. /\ line2 \in [Stages -> Seq(Blob)] /\ line2[1] = Sources(msgs', got'[n])
          /\ line2[2] = toRime'[n] /\ line2[3] = Blobs(heard'[n]) /\ line2[4] = toMac'[m]
          /\ line2[5] = held'[m][i]
      BY <2>1, LineNext
    <3>2. QED
      BY <1>2, <1>4, <2>2, <3>1
  <2>4. Ordered(ms, m, c, line) /\ Foreign(ms, m, c, x)
    BY <1>4, <2>1 DEF OrderInv
  <2>5. 4 \in Stages /\ \A s \in Stages : s # 4 => line2[s] = line[s]
    BY <2>3 DEF Stages
  <2>6. Ordered(ms, m, c, line2)
    BY <2>2, <2>3, <2>4, <2>5, OrderedForeign
  <2>7. QED
    BY <2>1, <2>6
<1>5. QED
  BY <1>3, <1>4

\* rime_stack takes the first message from the port: it is output or not, and perhaps
\* answered.
LEMMA OrderUnpack ==
  ASSUME BaseInv, BaseInv', OrderInv, NEW p \in Node, Unpack(p),
         NEW n \in Node, NEW m \in Node, NEW i \in DOMAIN Config[m], n # m
  PROVE  Ordered(msgs', m, Config[m][i], Line(n, m, i)')
<1>1. /\ toRime[p] # << >> /\ toRime' = [toRime EXCEPT ![p] = Tail(@)]
      /\ UNCHANGED <<held, heard, msgs>>
  BY DEF Unpack, rimeVars
<1>2. /\ toRime \in [Node -> Seq(Blob)] /\ toMac \in [Node -> Seq(Blob)]
      /\ got \in [Node -> Seq(OutputRec)] /\ WellFormed(msgs)
      /\ got[n] \in Seq(Outputs(msgs, n))
  BY DEF BaseInv, PortsInv, ContentsInv
<1>3. toRime'[p] = Tail(toRime[p]) /\ \A q \in Node : q # p => toRime'[q] = toRime[q]
  BY <1>1, <1>2, Dropped
<1>4. PICK line, line2, ms, c :
        line = Line(n, m, i) /\ line2 = Line(n, m, i)' /\ ms = msgs /\ c = Config[m][i]
  OBVIOUS
<1>5. /\ line \in [Stages -> Seq(Blob)] /\ line[1] = Sources(msgs, got[n])
      /\ line[2] = toRime[n] /\ line[3] = Blobs(heard[n]) /\ line[4] = toMac[m]
      /\ line[5] = held[m][i]
  BY <1>4, LineNow
<1>6. /\ line2 \in [Stages -> Seq(Blob)] /\ line2[1] = Sources(ms, got'[n])
      /\ line2[2] = toRime'[n] /\ line2[3] = line[3] /\ line2[4] = toMac'[m]
      /\ line2[5] = line[5]
  <2>1. /\ line2 \in [Stages -> Seq(Blob)] /\ line2[1] = Sources(msgs', got'[n])
        /\ line2[2] = toRime'[n] /\ line2[3] = Blobs(heard'[n]) /\ line2[4] = toMac'[m]
        /\ line2[5] = held'[m][i]
    BY <1>4, LineNext
  <2>2. QED
    BY <1>1, <1>4, <1>5, <2>1
<1>7. Ordered(ms, m, c, line)
  BY <1>4 DEF OrderInv
<1>8. 1 \in Stages /\ 2 \in Stages /\ 2 - 1 = 1 /\ \A s \in Stages : s \in {1, 2, 3, 4, 5}
  BY DEF Stages
<1>9. CASE UNCHANGED <<got, toMac>>
  <2>1. CASE n # p
    <3>1. toRime'[n] = toRime[n]
      BY <1>3, <2>1
    <3>2. QED
      BY <1>1, <1>9, <3>1, SameLine
  <2>2. CASE n = p
    <3>1. /\ line[2] # << >> /\ line2[2] = Tail(line[2])
          /\ line2[1] = line[1] /\ line2[4] = line[4]
      BY <1>1, <1>3, <1>4, <1>5, <1>6, <1>9, <2>2
    <3>2. \A s \in Stages : s # 2 => line2[s] = line[s]
      BY <1>6, <1>8, <3>1
    <3>3. Ordered(ms, m, c, line2)
      BY <1>5, <1>6, <1>7, <1>8, <3>1, <3>2, OrderedDrop
    <3>4. QED
      BY <1>1, <1>4, <3>3
  <2>3. QED
    BY <2>1, <2>2
<1>10. ASSUME NEW k \in DOMAIN msgs, msgs[k].from # p,
              Head(toRime[p]) = DataBlob(msgs[k], k), OutputStep(p, k)
       PROVE  Ordered(msgs', m, Config[m][i], Line(n, m, i)')
  <2>1. PICK g : g = [conn |-> msgs[k].conn, payload |-> <<k>>]
    OBVIOUS
  <2>2. k \in Byte /\ msgs[k] \in Sent /\ msgs[k].conn \in Connection
    BY <1>2, SentAt, SentIsMessage, MessageParts
  <2>3. g \in OutputRec /\ g \in Outputs(msgs, p)
    <3>1. g \in OutputRec
      BY <2>1, <2>2 DEF OutputRec, Blob
    <3>2. QED
      BY <1>10, <2>1, <3>1 DEF Outputs, OutputStep
  <2>4. got' = [got EXCEPT ![p] = Append(@, g)]
    BY <1>10, <2>1 DEF OutputStep
  <2>5. got'[p] = Append(got[p], g) /\ \A q \in Node : q # p => got'[q] = got[q]
    BY <1>2, <2>3, <2>4, Appended
  <2>6. CASE n = p
    <3>1. toMac'[m] = toMac[m]
      <4>1. m # p
        BY <2>6
      <4>2. QED
        BY <1>2, <1>10, <4>1 DEF OutputStep, Publish
    <3>2. /\ line[2] # << >> /\ line2[2] = Tail(line[2]) /\ line2[4] = line[4]
          /\ Head(line[2]) = DataBlob(ms[k], k)
      BY <1>1, <1>3, <1>4, <1>5, <1>6, <1>10, <2>6, <3>1
    <3>3. g.payload = <<k>>
      BY <2>1
    <3>4. line2[1] = Append(line[1], DataBlob(ms[k], k))
      <4>1. PICK gs \in Seq(Outputs(ms, n)) : gs = got[n]
        BY <1>2, <1>4
      <4>2. g \in Outputs(ms, n) /\ WellFormed(ms)
        BY <1>2, <1>4, <2>3, <2>6
      <4>3. Sources(ms, Append(gs, g)) = Append(Sources(ms, gs), DataBlob(ms[k], k))
        BY <3>3, <4>2, SourcesAppend
      <4>4. QED
        BY <1>4, <1>5, <1>6, <2>5, <2>6, <4>1, <4>3
    <3>5. line2[2 - 1] = Append(line[2 - 1], Head(line[2])) /\ 2 - 1 \in Stages
      BY <1>8, <3>2, <3>4
    <3>6. \A s \in Stages : s # 2 /\ s # 2 - 1 => line2[s] = line[s]
      BY <1>6, <1>8, <3>2
    <3>7. Ordered(ms, m, c, line2)
      BY <1>5, <1>6, <1>7, <1>8, <3>2, <3>5, <3>6, OrderedMove
    <3>8. QED
      BY <1>1, <1>4, <3>7
  <2>7. CASE n # p
    <3>1. got'[n] = got[n] /\ toRime'[n] = toRime[n]
      BY <1>3, <2>5, <2>7
    <3>2. CASE toMac'[m] = toMac[m]
      BY <1>1, <3>1, <3>2, SameLine
    <3>3. CASE toMac'[m] # toMac[m]
      <4>1. msgs[k].conn.kind = "ruc" /\ Publish(toMac, p, AckBlob(msgs[k]))
        BY <1>10, <3>3 DEF OutputStep
      <4>2. PICK a : a = AckBlob(msgs[k])
        OBVIOUS
      <4>3. a \in Blob
        BY <2>2, <4>2, AckBytes, SentIsMessage
      <4>4. toMac' = [toMac EXCEPT ![p] = Append(@, a)]
        BY <4>1, <4>2 DEF Publish
      <4>5. m = p /\ toMac'[m] = Append(toMac[m], a)
        <5>1. toMac'[p] = Append(toMac[p], a) /\ \A q \in Node : q # p => toMac'[q] = toMac[q]
          BY <1>2, <4>3, <4>4, Appended
        <5>2. QED
          BY <3>3, <5>1
      <4>6. Foreign(ms, m, c, a)
        BY <1>2, <1>4, <2>2, <4>1, <4>2, ForeignAck
      <4>7. line2[4] = Append(line[4], a) /\ line2[1] = line[1] /\ line2[2] = line[2]
        BY <1>4, <1>5, <1>6, <3>1, <4>5
      <4>8. 4 \in Stages /\ \A s \in Stages : s # 4 => line2[s] = line[s]
        BY <1>6, <4>7 DEF Stages
      <4>9. Ordered(ms, m, c, line2)
        BY <1>5, <1>6, <1>7, <4>3, <4>6, <4>7, <4>8, OrderedForeign
      <4>10. QED
        BY <1>1, <1>4, <4>9
    <3>4. QED
      BY <3>2, <3>3
  <2>8. QED
    BY <2>6, <2>7
<1>11. QED
  BY <1>9, <1>10, UnpackEffect

\* A stubborn sender's attempt puts a copy of its packet into the port, in front of the
\* others it holds.
LEMMA OrderSendHeld ==
  ASSUME BaseInv, BaseInv', OrderInv, DistinctConns,
         NEW p \in Node, NEW j \in Conns(p, "ruc"), SendHeld(p, j),
         NEW n \in Node, NEW m \in Node, NEW i \in DOMAIN Config[m], n # m
  PROVE  Ordered(msgs', m, Config[m][i], Line(n, m, i)')
<1>1. j \in DOMAIN Config[p] /\ Config[p][j].kind = "ruc"
  BY DEF Conns
<1>2. PICK x : x = Head(held[p][j])
  OBVIOUS
<1>3. /\ held[p][j] # << >> /\ held[p][j] \in Seq(Blob)
      /\ held[p][j] \in Seq(HeldData(msgs, p, Config[p][j])) /\ WellFormed(msgs)
  BY <1>1 DEF SendHeld, BaseInv, SendersInv, HeldInv
<1>4. /\ x \in Blob /\ x \in HeldData(msgs, p, Config[p][j])
      /\ x = held[p][j][1] /\ 1 \in DOMAIN held[p][j]
  BY <1>2, <1>3, HeadAndTail, TailAt
<1>5. PICK k \in DOMAIN msgs :
        msgs[k].from = p /\ msgs[k].conn = Config[p][j] /\ x = DataBlob(msgs[k], k)
  BY <1>4 DEF HeldData
<1>6. Publish(toMac, p, x) /\ UNCHANGED <<held, toRime, heard, msgs, got>>
  BY <1>2 DEF SendHeld
<1>7. CASE m # p \/ i # j
  <2>1. ASSUME m = p PROVE Foreign(msgs, m, Config[m][i], x)
    <3>1. Config[m][i] # Config[p][j]
      BY <1>1, <1>7, <2>1 DEF DistinctConns
    <3>2. k \notin Flow(msgs, m, Config[m][i])
      BY <1>5, <3>1 DEF Flow
    <3>3. QED
      BY <1>3, <1>5, <3>2, ForeignData
  <2>2. QED
    BY <1>4, <1>6, <2>1, OrderPublish
<1>8. CASE m = p /\ i = j
  <2>1. toMac'[m] = Append(toMac[m], x)
    <3>1. toMac \in [Node -> Seq(Blob)] /\ toMac' = [toMac EXCEPT ![p] = Append(@, x)]
      BY <1>6 DEF BaseInv, PortsInv, Publish
    <3>2. QED
      BY <1>4, <1>8, <3>1, Appended
  <2>2. PICK line, line2, ms, c :
          line = Line(n, m, i) /\ line2 = Line(n, m, i)' /\ ms = msgs /\ c = Config[m][i]
    OBVIOUS
  <2>3. /\ line \in [Stages -> Seq(Blob)] /\ line[1] = Sources(msgs, got[n])
        /\ line[2] = toRime[n] /\ line[3] = Blobs(heard[n]) /\ line[4] = toMac[m]
        /\ line[5] = held[m][i]
    BY <2>2, LineNow
  <2>4. /\ line2 \in [Stages -> Seq(Blob)] /\ line2[1] = line[1] /\ line2[2] = line[2]
        /\ line2[3] = line[3] /\ line2[4] = Append(line[4], x) /\ line2[5] = line[5]
    <3>1. /\ line2 \in [Stages -> Seq(Blob)] /\ line2[1] = Sources(msgs', got'[n])
          /\ line2[2] = toRime'[n] /\ line2[3] = Blobs(heard'[n]) /\ line2[4] = toMac'[m]
          /\ line2[5] = held'[m][i]
      BY <2>2, LineNext
    <3>2. QED
      BY <1>6, <2>1, <2>3, <3>1
  <2>5. Ordered(ms, m, c, line)
    BY <2>2 DEF OrderInv
  <2>6. 4 \in Stages /\ 5 \in Stages /\ \A s \in Stages : s # 4 => line2[s] = line[s]
    BY <2>4 DEF Stages
  <2>7. ASSUME NEW s \in Stages, NEW a \in DOMAIN line[s]
        PROVE  /\ s <= 4 => Fine(ms, m, c, line[s][a], x)
               /\ 4 < s => Fine(ms, m, c, x, line[s][a])
    <3>1. 1 \in DOMAIN line[5] /\ x = line[5][1]
      BY <1>4, <1>8, <2>3
    <3>2. ASSUME s <= 4 PROVE Fine(ms, m, c, line[s][a], x)
      <4>1. Before(s, a, 5, 1)
        BY <3>2 DEF Before, Stages
      <4>2. QED
        BY <2>5, <2>6, <3>1, <4>1 DEF Ordered
    <3>3. ASSUME 4 < s PROVE Fine(ms, m, c, x, line[s][a])
      <4>1. s = 5
        BY <3>3 DEF Stages
      <4>2. CASE a = 1
        <5>1. Fine(ms, m, c, x, x)
          <6>1. WellFormed(ms) /\ c.kind = "ruc"
            BY <1>1, <1>3, <1>8, <2>2
          <6>2. QED
            BY <6>1, DifferentData DEF Fine, Flow
        <5>2. QED
          BY <3>1, <4>1, <4>2, <5>1
      <4>3. CASE a # 1
        <5>1. 1 <= a /\ a \in Int
          BY <1>3, <1>8, <2>3, <4>1, TailAt
        <5>2. Before(5, 1, 5, a)
          BY <4>3, <5>1 DEF Before
        <5>3. QED
          BY <2>5, <2>6, <3>1, <4>1, <5>2 DEF Ordered
      <4>4. QED
        BY <4>2, <4>3
    <3>4. QED
      BY <3>2, <3>3
  <2>8. Ordered(ms, m, c, line2)
    BY <1>4, <2>3, <2>4, <2>5, <2>6, <2>7, OrderedPut
  <2>9. QED
    BY <1>6, <2>2, <2>8
<1>9. QED
  BY <1>7, <1>8

\* What is in a line belongs to messages that were submitted before.
Known(ms, x) ==
  \/ x = Eof
  \/ \E k \in DOMAIN ms : \/ x = DataBlob(ms[k], k)
                          \/ ms[k].conn.kind = "ruc" /\ x = AckBlob(ms[k])

LEMMA LineKnown ==
  ASSUME BaseInv, NEW n \in Node, NEW m \in Node, NEW i \in DOMAIN Config[m],
         NEW s \in Stages, NEW a \in DOMAIN Line(n, m, i)[s]
  PROVE  Known(msgs, Line(n, m, i)[s][a])
<1>1. /\ WellFormed(msgs) /\ got[n] \in Seq(Outputs(msgs, n))
      /\ toRime[n] \in Seq(Hearable(msgs, got, n))
      /\ heard[n] \in Seq(Frame(Hearable(msgs, got, n))) /\ heard[n] \in Seq(Frame(Blob))
      /\ toMac[m] \in Seq(Sendable(msgs, got, m))
      /\ held[m][i] \in Seq(HeldData(msgs, m, Config[m][i]))
  BY DEF BaseInv, HeldInv, PortsInv, ContentsInv
<1>2. PICK line : line = Line(n, m, i)
  OBVIOUS
<1>3. /\ line[1] = Sources(msgs, got[n])
      /\ line[2] = toRime[n] /\ line[3] = Blobs(heard[n]) /\ line[4] = toMac[m]
      /\ line[5] = held[m][i] /\ a \in DOMAIN line[s]
  BY <1>2, LineNow
<1>4. \A x \in Hearable(msgs, got, n) : Known(msgs, x)
  BY DEF Hearable, OthersData, EarnedAcks, Known
<1>5. \A x \in Sendable(msgs, got, m) : Known(msgs, x)
  BY DEF Sendable, OwnData, EarnedAcks, Known
<1>6. \A x \in HeldData(msgs, m, Config[m][i]) : Known(msgs, x)
  BY DEF HeldData, Known
<1>7. CASE s = 1
  <2>1. PICK g \in Seq(Outputs(msgs, n)) : g = got[n]
    BY <1>1
  <2>2. /\ Len(Sources(msgs, g)) = Len(g) /\ Sources(msgs, g) \in Seq(Blob)
        /\ \A j \in 1 .. Len(g) :
             /\ g[j].payload[1] \in DOMAIN msgs
             /\ Sources(msgs, g)[j] = DataBlob(msgs[g[j].payload[1]], g[j].payload[1])
    BY <1>1, SourcesAt
  <2>3. a \in 1 .. Len(g)
    <3>1. DOMAIN Sources(msgs, g) = 1 .. Len(g)
      BY <2>2, LenProperties
    <3>2. QED
      BY <1>3, <1>7, <2>1, <3>1
  <2>4. line[s][a] = DataBlob(msgs[g[a].payload[1]], g[a].payload[1])
    BY <1>3, <1>7, <2>1, <2>2, <2>3
  <2>5. QED
    BY <1>2, <2>2, <2>3, <2>4 DEF Known
<1>8. CASE s = 2
  <2>1. toRime[n][a] \in Hearable(msgs, got, n)
    BY <1>1, <1>3, <1>8
  <2>2. QED
    BY <1>2, <1>3, <1>4, <1>8, <2>1
<1>9. CASE s = 3
  <2>1. PICK h \in Seq(Frame(Blob)) : h = heard[n]
    BY <1>1
  <2>2. /\ Blobs(h) \in Seq(Blob) /\ Len(Blobs(h)) = Len(h)
        /\ \A j \in 1 .. Len(h) : Blobs(h)[j] = h[j].blob
    BY BlobsAt
  <2>3. a \in 1 .. Len(h) /\ DOMAIN h = 1 .. Len(h)
    <3>1. DOMAIN Blobs(h) = 1 .. Len(h) /\ DOMAIN h = 1 .. Len(h)
      BY <2>2, LenProperties
    <3>2. QED
      BY <1>3, <1>9, <2>1, <3>1
  <2>4. h[a] \in Frame(Hearable(msgs, got, n))
    BY <1>1, <2>1, <2>3
  <2>5. h[a].blob \in Hearable(msgs, got, n)
    BY <2>4 DEF Frame
  <2>6. line[s][a] = h[a].blob
    BY <1>3, <1>9, <2>1, <2>2, <2>3
  <2>7. QED
    BY <1>2, <1>4, <2>5, <2>6
<1>10. CASE s = 4
  <2>1. toMac[m][a] \in Sendable(msgs, got, m)
    BY <1>1, <1>3, <1>10
  <2>2. QED
    BY <1>2, <1>3, <1>5, <1>10, <2>1
<1>11. CASE s = 5
  <2>1. held[m][i][a] \in HeldData(msgs, m, Config[m][i])
    BY <1>1, <1>3, <1>11
  <2>2. QED
    BY <1>2, <1>3, <1>6, <1>11, <2>1
<1>12. QED
  BY <1>7, <1>8, <1>9, <1>10, <1>11, StageCases

LEMMA NotNew ==
  ASSUME NEW ms, NEW ms2, WellFormed(ms), WellFormed(ms2), Longer(ms, ms2),
         NEW new \in DOMAIN ms2, new \notin DOMAIN ms, NEW x, Known(ms, x)
  PROVE  x # DataBlob(ms2[new], new)
<1>1. new \in Byte /\ ms2[new] \in Sent /\ ms2[new] \in Message
  BY SentAt, SentIsMessage
<1>2. CASE x = Eof
  BY <1>1, <1>2, DataBytes
<1>3. ASSUME NEW k \in DOMAIN ms, x = DataBlob(ms[k], k) PROVE x # DataBlob(ms2[new], new)
  <2>1. k \in DOMAIN ms2 /\ ms2[k] = ms[k] /\ k # new
    BY DEF Longer
  <2>2. QED
    BY <1>3, <2>1, DifferentData
<1>4. ASSUME NEW k \in DOMAIN ms, ms[k].conn.kind = "ruc", x = AckBlob(ms[k])
      PROVE  x # DataBlob(ms2[new], new)
  <2>1. ms[k] \in Sent
    BY SentAt
  <2>2. QED
    BY <1>1, <1>4, <2>1, AckIsNoData
<1>5. QED
  BY <1>2, <1>3, <1>4 DEF Known

\* A new message changes nothing for those before it, and may follow each of them.
LEMMA FineLonger ==
  ASSUME NEW ms, NEW ms2, WellFormed(ms), WellFormed(ms2), Longer(ms, ms2),
         NEW new \in DOMAIN ms2, new \notin DOMAIN ms, DOMAIN ms2 = DOMAIN ms \cup {new},
         NEW m, NEW c, NEW x, NEW y, Known(ms, x), Known(ms, y), Fine(ms, m, c, x, y)
  PROVE  Fine(ms2, m, c, x, y)
<1>1. x # DataBlob(ms2[new], new) /\ y # DataBlob(ms2[new], new)
  BY NotNew
<1>2. ASSUME NEW k \in Flow(ms2, m, c), NEW l \in Flow(ms2, m, c),
             x = DataBlob(ms2[k], k), y = DataBlob(ms2[l], l)
      PROVE  k < l \/ (k = l /\ c.kind = "ruc")
  <2>1. k # new /\ l # new
    BY <1>1, <1>2
  <2>2. k \in DOMAIN ms /\ l \in DOMAIN ms /\ ms2[k] = ms[k] /\ ms2[l] = ms[l]
    BY <2>1 DEF Flow, Longer
  <2>3. k \in Flow(ms, m, c) /\ l \in Flow(ms, m, c)
    BY <2>2 DEF Flow
  <2>4. QED
    BY <1>2, <2>2, <2>3 DEF Fine
<1>3. QED
  BY <1>2 DEF Fine

LEMMA FineNew ==
  ASSUME NEW ms, NEW ms2, WellFormed(ms), WellFormed(ms2), Longer(ms, ms2),
         NEW new \in DOMAIN ms2, new \notin DOMAIN ms, \A k \in DOMAIN ms : k < new,
         DOMAIN ms2 = DOMAIN ms \cup {new},
         NEW m, NEW c, NEW x, Known(ms, x)
  PROVE  Fine(ms2, m, c, x, DataBlob(ms2[new], new))
<1>1. x # DataBlob(ms2[new], new)
  BY NotNew
<1>2. ASSUME NEW k \in Flow(ms2, m, c), NEW l \in Flow(ms2, m, c),
             x = DataBlob(ms2[k], k), DataBlob(ms2[new], new) = DataBlob(ms2[l], l)
      PROVE  k < l
  <2>1. l = new
    BY <1>2, DifferentData DEF Flow
  <2>2. k \in DOMAIN ms
    BY <1>1, <1>2 DEF Flow
  <2>3. QED
    BY <2>1, <2>2
<1>3. QED
  BY <1>2 DEF Fine

LEMMA OrderPack ==
  ASSUME BaseInv, BaseInv', OrderInv, DistinctConns,
         NEW p \in Node, NEW j \in DOMAIN Config[p], NEW d \in Address, Submit(p, j, d),
         UNCHANGED <<toRime, heard, got>>,
         \/ /\ Config[p][j].kind # "ruc" /\ UNCHANGED held
            /\ Publish(toMac, p, DataBlob(msgs'[NextId], NextId))
         \/ /\ UNCHANGED toMac
            /\ held' = [held EXCEPT ![p][j] = Append(@, DataBlob(msgs'[NextId], NextId))],
         NEW n \in Node, NEW m \in Node, NEW i \in DOMAIN Config[m], n # m
  PROVE  Ordered(msgs', m, Config[m][i], Line(n, m, i)')
<1>1. PICK new, ms, ms2, c : new = NextId /\ ms = msgs /\ ms2 = msgs' /\ c = Config[m][i]
  OBVIOUS
<1>2. PICK x : x = DataBlob(ms2[new], new)
  OBVIOUS
<1>3. /\ WellFormed(ms) /\ WellFormed(ms2) /\ Longer(ms, ms2)
      /\ new \in DOMAIN ms2 /\ new \notin DOMAIN ms /\ DOMAIN ms2 = DOMAIN ms \cup {new}
      /\ ms2[new] \in Sent /\ ms2[new].from = p /\ ms2[new].conn = Config[p][j]
  BY <1>1, Submitted DEF BaseInv
<1>4. \A k \in DOMAIN ms : k < new
  <2>1. ms \in Seq(Sent) /\ new = Len(ms) + 1
    BY <1>1, <1>3 DEF NextId, WellFormed
  <2>2. DOMAIN ms = 1 .. Len(ms) /\ Len(ms) \in Nat
    BY <2>1, LenProperties
  <2>3. QED
    BY <2>1, <2>2
<1>5. x \in Blob
  BY <1>2, <1>3, DataBytes, SentAt, SentIsMessage
<1>6. PICK line, line2 : line = Line(n, m, i) /\ line2 = Line(n, m, i)'
  OBVIOUS
<1>7. /\ line \in [Stages -> Seq(Blob)] /\ line[1] = Sources(ms, got[n])
      /\ line[2] = toRime[n] /\ line[3] = Blobs(heard[n]) /\ line[4] = toMac[m]
      /\ line[5] = held[m][i]
  BY <1>1, <1>6, LineNow
<1>8. Sources(ms2, got[n]) = Sources(ms, got[n])
  <2>1. PICK g \in Seq(Outputs(ms, n)) : g = got[n]
    BY <1>1 DEF BaseInv, ContentsInv
  <2>2. \A k \in 1 .. Len(g) : g[k].payload[1] \in DOMAIN ms
    BY <1>3, SourcesAt
  <2>3. \A k \in 1 .. Len(g) : ms2[g[k].payload[1]] = ms[g[k].payload[1]]
    BY <1>3, <2>2 DEF Longer
  <2>4. Sources(ms2, g) = Sources(ms, g)
    BY <2>3 DEF Sources
  <2>5. QED
    BY <2>1, <2>4
<1>9. /\ line2 \in [Stages -> Seq(Blob)] /\ line2[1] = line[1] /\ line2[2] = line[2]
      /\ line2[3] = line[3] /\ line2[4] = toMac'[m] /\ line2[5] = held'[m][i]
  <2>1. /\ line2 \in [Stages -> Seq(Blob)] /\ line2[1] = Sources(msgs', got'[n])
        /\ line2[2] = toRime'[n] /\ line2[3] = Blobs(heard'[n]) /\ line2[4] = toMac'[m]
        /\ line2[5] = held'[m][i]
    BY <1>6, LineNext
  <2>2. QED
    BY <1>1, <1>7, <1>8, <2>1
<1>10. \A s \in Stages : \A a \in DOMAIN line[s] : Known(ms, line[s][a])
  BY <1>1, <1>6, LineKnown
<1>11. Ordered(ms2, m, c, line)
  <2>1. Ordered(ms, m, c, line)
    BY <1>1, <1>6 DEF OrderInv
  <2>2. ASSUME NEW s \in Stages, NEW u \in Stages,
               NEW a \in DOMAIN line[s], NEW b \in DOMAIN line[u], Before(s, a, u, b)
        PROVE  Fine(ms2, m, c, line[s][a], line[u][b])
    <3>1. Fine(ms, m, c, line[s][a], line[u][b])
      BY <2>1, <2>2 DEF Ordered
    <3>2. PICK y, z : y = line[s][a] /\ z = line[u][b]
      OBVIOUS
    <3>3. Known(ms, y) /\ Known(ms, z) /\ Fine(ms, m, c, y, z)
      BY <1>10, <3>1, <3>2
    <3>4. Fine(ms2, m, c, y, z)
      BY <1>3, <3>3, FineLonger
    <3>5. QED
      BY <3>2, <3>4
  <2>3. QED
    BY <2>2 DEF Ordered
<1>12. \A s \in Stages : \A a \in DOMAIN line[s] : Fine(ms2, m, c, line[s][a], x)
  BY <1>2, <1>3, <1>4, <1>10, FineNew
<1>13. 4 \in Stages /\ 5 \in Stages /\ \A s \in Stages : s \in {1, 2, 3, 4, 5}
  BY DEF Stages
<1>14. CASE line2[4] = line[4] /\ line2[5] = line[5]
  <2>1. \A s \in Stages : line2[s] = line[s]
    BY <1>9, <1>13, <1>14
  <2>2. Ordered(ms2, m, c, line2)
    BY <1>11, <2>1 DEF Ordered
  <2>3. QED
    BY <1>1, <1>6, <2>2
<1>15. ASSUME ~ (m = p /\ i = j) PROVE Foreign(ms2, m, c, x)
  <2>1. ~ (ms2[new].from = m /\ ms2[new].conn = c)
    BY <1>1, <1>3, <1>15 DEF DistinctConns
  <2>2. new \notin Flow(ms2, m, c)
    BY <2>1 DEF Flow
  <2>3. QED
    BY <1>2, <1>3, <2>2, ForeignData
<1>16. CASE /\ Config[p][j].kind # "ruc" /\ UNCHANGED held
            /\ Publish(toMac, p, x)
  <2>1. toMac \in [Node -> Seq(Blob)] /\ toMac' = [toMac EXCEPT ![p] = Append(@, x)]
    BY <1>16 DEF BaseInv, PortsInv, Publish
  <2>2. toMac'[p] = Append(toMac[p], x) /\ \A q \in Node : q # p => toMac'[q] = toMac[q]
    BY <1>5, <2>1, Appended
  <2>3. line2[5] = line[5]
    BY <1>7, <1>9, <1>16
  <2>4. CASE m # p
    BY <1>7, <1>9, <1>14, <2>2, <2>3, <2>4
  <2>5. CASE m = p
    <3>1. line2[4] = Append(line[4], x) /\ \A s \in Stages : s # 4 => line2[s] = line[s]
      BY <1>7, <1>9, <1>13, <2>2, <2>3, <2>5
    <3>2. CASE i # j
      <4>1. Ordered(ms2, m, c, line2)
        BY <1>5, <1>7, <1>9, <1>11, <1>13, <1>15, <3>1, <3>2, OrderedForeign
      <4>2. QED
        BY <1>1, <1>6, <4>1
    <3>3. CASE i = j
      <4>1. held[m][i] = << >>
        <5>1. held[m][i] \in Seq(HeldData(msgs, m, Config[m][i]))
          BY DEF BaseInv, HeldInv
        <5>2. HeldData(msgs, m, Config[m][i]) = {}
          BY <1>16, <2>5, <3>3 DEF HeldData
        <5>3. QED
          BY <5>1, <5>2
      <4>2. \A s \in Stages : \A a \in DOMAIN line[s] : ~ (4 < s)
        <5>1. DOMAIN line[5] = {}
          BY <1>7, <4>1
        <5>2. \A s \in Stages : 4 < s => s = 5
          BY DEF Stages
        <5>3. QED
          BY <5>1, <5>2
      <4>3. Ordered(ms2, m, c, line2)
        BY <1>5, <1>7, <1>9, <1>11, <1>12, <1>13, <3>1, <4>2, OrderedPut
      <4>4. QED
        BY <1>1, <1>6, <4>3
    <3>4. QED
      BY <3>2, <3>3
  <2>6. QED
    BY <2>4, <2>5
<1>17. CASE UNCHANGED toMac /\ held' = [held EXCEPT ![p][j] = Append(@, x)]
  <2>1. line2[4] = line[4]
    BY <1>7, <1>9, <1>17
  <2>2. /\ DOMAIN held = Node /\ DOMAIN held[p] = DOMAIN Config[p]
        /\ DOMAIN held[m] = DOMAIN Config[m]
    BY DEF BaseInv, SendersInv
  <2>3. CASE ~ (m = p /\ i = j)
    <3>1. held'[m][i] = held[m][i]
      BY <1>17, <2>2, <2>3
    <3>2. QED
      BY <1>7, <1>9, <1>14, <2>1, <3>1
  <2>4. CASE m = p /\ i = j
    <3>1. held'[m][i] = Append(held[m][i], x)
      BY <1>17, <2>2, <2>4
    <3>2. line2[5] = Append(line[5], x) /\ \A s \in Stages : s # 5 => line2[s] = line[s]
      BY <1>7, <1>9, <1>13, <2>1, <3>1
    <3>3. \A s \in Stages : ~ (5 < s)
      BY DEF Stages
    <3>4. Ordered(ms2, m, c, line2)
      BY <1>5, <1>7, <1>9, <1>11, <1>12, <1>13, <3>2, <3>3, OrderedPut
    <3>5. QED
      BY <1>1, <1>6, <3>4
  <2>5. QED
    BY <2>3, <2>4
<1>18. QED
  BY <1>1, <1>2, <1>16, <1>17

LEMMA OrderStep == BaseInv /\ OrderInv /\ DistinctConns /\ [Next]_vars => OrderInv'
<1> SUFFICES ASSUME BaseInv, OrderInv, DistinctConns, [Next]_vars PROVE OrderInv'
  OBVIOUS
<1>1. BaseInv'
  BY BaseStep
<1>2. SUFFICES ASSUME NEW n \in Node, NEW m \in Node, NEW i \in DOMAIN Config[m], n # m
               PROVE  Ordered(msgs', m, Config[m][i], Line(n, m, i)')
  BY DEF OrderInv
<1>3. CASE UNCHANGED vars
  BY <1>2, <1>3, SameLine DEF vars
<1>4. CASE Next
  <2>1. PICK p \in Node : RimeStack(p) \/ StubbornSender(p) \/ Mac(p)
    BY <1>4 DEF Next
  <2>2. ASSUME NEW j \in Conns(p, "bc"), PackBc(p, j)
        PROVE  Ordered(msgs', m, Config[m][i], Line(n, m, i)')
    <3>1. /\ j \in DOMAIN Config[p] /\ Config[p][j].kind = "bc" /\ p \in Address
          /\ Submit(p, j, p) /\ UNCHANGED <<held, toRime, heard, got>>
      BY <2>2, NodeAssumption DEF Conns, PackBc, rimeVars
    <3>2. msgs'[NextId].from = p /\ msgs'[NextId].conn = Config[p][j]
      BY <3>1, Submitted
    <3>3. Publish(toMac, p, DataBlob(msgs'[NextId], NextId))
      BY <2>2, <3>1, <3>2 DEF DataBlob, HeaderOf, PackBc, Payload, NextId
    <3>4. QED
      BY <1>1, <1>2, <3>1, <3>3, OrderPack
  <2>3. ASSUME NEW j \in Conns(p, "uc"), NEW d \in Targets \ {p}, PackUc(p, j, d)
        PROVE  Ordered(msgs', m, Config[m][i], Line(n, m, i)')
    <3>1. /\ j \in DOMAIN Config[p] /\ Config[p][j].kind = "uc" /\ d \in Address
          /\ Submit(p, j, d) /\ UNCHANGED <<held, toRime, heard, got>>
      BY <2>3, NodeAssumption DEF Conns, PackUc, rimeVars
    <3>2. msgs'[NextId].from = p /\ msgs'[NextId].conn = Config[p][j] /\ msgs'[NextId].to = d
      BY <3>1, Submitted
    <3>3. Publish(toMac, p, DataBlob(msgs'[NextId], NextId))
      BY <2>3, <3>1, <3>2 DEF DataBlob, HeaderOf, PackUc, Payload, NextId
    <3>4. QED
      BY <1>1, <1>2, <3>1, <3>3, OrderPack
  <2>4. ASSUME NEW j \in Conns(p, "ruc"), NEW d \in Targets \ {p}, PackRuc(p, j, d)
        PROVE  Ordered(msgs', m, Config[m][i], Line(n, m, i)')
    <3>1. /\ j \in DOMAIN Config[p] /\ Config[p][j].kind = "ruc" /\ d \in Address
          /\ Submit(p, j, d) /\ UNCHANGED <<toMac, toRime, heard, got>>
      BY <2>4, NodeAssumption DEF Conns, PackRuc
    <3>2. /\ msgs'[NextId].from = p /\ msgs'[NextId].conn = Config[p][j]
          /\ msgs'[NextId].to = d /\ msgs'[NextId].seqno = sendSeq[p][j]
      BY <3>1, Submitted
    <3>3. DataBlob(msgs'[NextId], NextId) =
            RucHeader(Config[p][j].channel, FALSE, sendSeq[p][j], p, d) \o Payload
      BY <3>1, <3>2 DEF DataBlob, HeaderOf, Payload, NextId
    <3>4. held' = [held EXCEPT ![p][j] = Append(@, DataBlob(msgs'[NextId], NextId))]
      BY <2>4, <3>3 DEF PackRuc
    <3>5. QED
      BY <1>1, <1>2, <3>1, <3>4, OrderPack
  <2>5. CASE PackEof(p)
    <3>1. /\ Publish(toMac, p, Eof) /\ Eof \in Blob
          /\ UNCHANGED <<held, toRime, heard, msgs, got>>
      BY <2>5 DEF PackEof, Eof, Blob
    <3>2. Foreign(msgs, m, Config[m][i], Eof)
      BY ForeignEof DEF BaseInv
    <3>3. QED
      BY <1>1, <1>2, <3>1, <3>2, OrderPublish
  <2>6. CASE Unpack(p)
    BY <1>1, <1>2, <2>6, OrderUnpack
  <2>7. ASSUME NEW j \in Conns(p, "ruc"), SendHeld(p, j)
        PROVE  Ordered(msgs', m, Config[m][i], Line(n, m, i)')
    BY <1>1, <1>2, <2>7, OrderSendHeld
  <2>8. ASSUME NEW j \in Conns(p, "ruc"), Settle(p, j)
        PROVE  Ordered(msgs', m, Config[m][i], Line(n, m, i)')
    BY <1>1, <1>2, <2>8, OrderSettle
  <2>9. CASE MacSend(p)
    BY <1>1, <1>2, <2>9, OrderMacSend
  <2>10. CASE MacEof(p)
    BY <1>1, <1>2, <2>10, OrderMacEof
  <2>11. CASE MacReceive(p)
    BY <1>1, <1>2, <2>11, OrderMacReceive
  <2>12. QED
    BY <2>1, <2>2, <2>3, <2>4, <2>5, <2>6, <2>7, <2>8, <2>9, <2>10, <2>11, Actions
<1>5. QED
  BY <1>3, <1>4

LEMMA OrderInit == Init => OrderInv
<1> SUFFICES ASSUME Init, NEW n \in Node, NEW m \in Node, NEW i \in DOMAIN Config[m], n # m
             PROVE  Ordered(msgs, m, Config[m][i], Line(n, m, i))
  BY DEF OrderInv
<1>1. /\ got[n] = << >> /\ toRime[n] = << >> /\ heard[n] = << >> /\ toMac[m] = << >>
      /\ held[m][i] = << >>
  BY DEF Init, PerConn
<1>2. Sources(msgs, << >>) = << >> /\ Blobs(<< >>) = << >>
  BY DEF Sources, Blobs
<1>3. PICK line : line = Line(n, m, i)
  OBVIOUS
<1>4. /\ line[1] = << >> /\ line[2] = << >> /\ line[3] = << >> /\ line[4] = << >>
      /\ line[5] = << >>
  BY <1>1, <1>2, <1>3, BaseInit, LineNow
<1>5. \A s \in Stages : DOMAIN line[s] = {}
  BY <1>4, StageCases
<1>6. QED
  BY <1>3, <1>5 DEF Ordered

LEMMA FrontInOrder == BaseInv /\ OrderInv => InOrder
<1> SUFFICES ASSUME BaseInv, OrderInv, NEW n \in Node,
                    NEW a \in DOMAIN got[n], NEW b \in DOMAIN got[n], a < b, SameFlow(n, a, b)
             PROVE  \/ got[n][a].payload[1] < got[n][b].payload[1]
                    \/ got[n][a].conn.kind = "ruc" /\ got[n][a].payload = got[n][b].payload
  BY DEF InOrder
<1>1. PICK ms, g : ms = msgs /\ g = got[n]
  OBVIOUS
<1>2. WellFormed(ms) /\ g \in Seq(Outputs(ms, n)) /\ a \in DOMAIN g /\ b \in DOMAIN g
  BY <1>1 DEF BaseInv, ContentsInv
<1>3. g[a] \in Outputs(ms, n) /\ g[b] \in Outputs(ms, n)
  BY <1>2
<1>4. PICK k \in DOMAIN ms : g[a].payload = <<k>> /\ ms[k].conn = g[a].conn /\ ms[k].from # n
  BY <1>3 DEF Outputs
<1>5. PICK l \in DOMAIN ms : g[b].payload = <<l>> /\ ms[l].conn = g[b].conn
  BY <1>3 DEF Outputs
<1>6. g[a].payload[1] = k /\ g[b].payload[1] = l
  BY <1>4, <1>5
<1>7. PICK m, c : m = ms[k].from /\ c = ms[k].conn
  OBVIOUS
<1>8. ms[l].from = m /\ ms[l].conn = c
  BY <1>1, <1>4, <1>5, <1>6, <1>7 DEF SameFlow
<1>9. m \in Node /\ n # m /\ \E i \in DOMAIN Config[m] : Config[m][i] = c
  BY <1>2, <1>4, <1>7, SentAt, SentIsMessage
<1>10. PICK i \in DOMAIN Config[m] : Config[m][i] = c
  BY <1>9
<1>11. k \in Flow(ms, m, c) /\ l \in Flow(ms, m, c)
  BY <1>7, <1>8 DEF Flow
<1>12. PICK line : line = Line(n, m, i)
  OBVIOUS
<1>13. line[1] = Sources(ms, g) /\ Ordered(ms, m, c, line)
  BY <1>1, <1>9, <1>10, <1>12, LineNow DEF OrderInv
<1>14. /\ a \in DOMAIN line[1] /\ line[1][a] = DataBlob(ms[k], k)
       /\ b \in DOMAIN line[1] /\ line[1][b] = DataBlob(ms[l], l)
  <2>1. /\ Sources(ms, g) \in Seq(Blob) /\ Len(Sources(ms, g)) = Len(g)
        /\ \A j \in 1 .. Len(g) :
             Sources(ms, g)[j] = DataBlob(ms[g[j].payload[1]], g[j].payload[1])
    BY <1>2, SourcesAt
  <2>2. DOMAIN g = 1 .. Len(g) /\ DOMAIN Sources(ms, g) = 1 .. Len(g)
    BY <1>2, <2>1, LenProperties
  <2>3. QED
    BY <1>2, <1>6, <1>13, <2>1, <2>2
<1>15. Before(1, a, 1, b) /\ 1 \in Stages
  BY DEF Before, Stages
<1>16. Fine(ms, m, c, line[1][a], line[1][b])
  BY <1>13, <1>14, <1>15 DEF Ordered
<1>17. k < l \/ (k = l /\ c.kind = "ruc")
  BY <1>11, <1>14, <1>16 DEF Fine
<1>18. QED
  BY <1>1, <1>4, <1>5, <1>6, <1>7, <1>17

\* InOrder: of two messages of one node on one connection the one submitted first is
\* output first, and only a reliable connection outputs one twice, before any later one
\* (the ports of rime_stack and mac and the queue of the stubborn sender). For networks
\* in which no node has two connections of the same kind and channel.
THEOREM OutputInOrder == Spec => [](DistinctConns => InOrder)
<1>1. CASE DistinctConns
  <2>1. BaseInv /\ OrderInv /\ [Next]_vars => OrderInv'
    BY <1>1, OrderStep
  <2>2. Spec => [](BaseInv /\ OrderInv)
    BY <2>1, BaseInit, BaseStep, OrderInit, PTL DEF Spec
  <2>3. QED
    BY <2>2, FrontInOrder, PTL
<1>2. CASE ~ DistinctConns
  BY <1>2, PTL
<1>3. QED
  BY <1>1, <1>2
=============================================================================
