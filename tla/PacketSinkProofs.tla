-------------------------- MODULE PacketSinkProofs --------------------------
(***************************************************************************)
(* Proofs about packet_sink, for any number of symbols, any threshold and  *)
(* any set of observations: the types, the bound of d_packet, and that     *)
(* what is published are the frames of the chip stream, all of them. And   *)
(* about its link to access_code_prefixer, for any payloads that fit:      *)
(* undisturbed frames arrive, and interference costs few of them.          *)
(***************************************************************************)
EXTENDS PacketSinkReading, OqpskLink, Lemmas, SequenceTheorems

-----------------------------------------------------------------------------
(***************************************************************************)
(* decode_chips() has a result: some symbol is the first of the nearest.   *)
(***************************************************************************)

Nearest(o, s) == \A r \in Symbols : o[s] <= o[r] /\ (r < s => o[s] < o[r])

LEMMA BestMatchExists ==
  ASSUME NEW o \in Observations
  PROVE  BestMatch(o) \in Symbols /\ Nearest(o, BestMatch(o)) /\ o[BestMatch(o)] \in 0 .. Chips
<1>1. o \in [Symbols -> 0 .. Chips] /\ Symbols \in SUBSET Nat /\ 0 \in Symbols
  BY ObservationsAssumption, RadixAssumption DEF Symbols
<1> DEFINE E == {o[s] : s \in Symbols}
<1>2. PICK e \in E : \A n \in E : e <= n
  <2>1. E \in SUBSET Nat /\ E # {}
    BY <1>1, SinkAssumption
  <2>2. QED
    BY <2>1, LeastElement
<1> DEFINE B == {s \in Symbols : o[s] = e}
<1>3. PICK b \in B : \A n \in B : b <= n
  <2>1. B \in SUBSET Nat /\ B # {}
    BY <1>1, <1>2
  <2>2. QED
    BY <2>1, LeastElement
<1>4. b \in Symbols /\ Nearest(o, b)
  <2>1. b \in Symbols /\ o[b] = e
    BY <1>3
  <2>2. ASSUME NEW r \in Symbols
        PROVE  o[b] <= o[r] /\ (r < b => o[b] < o[r])
    <3>1. e <= o[r] /\ e \in Int /\ o[r] \in Int
      BY <1>1, <1>2, SinkAssumption
    <3>2. r < b => r \notin B
      BY <1>1, <1>3
    <3>3. QED
      BY <3>1, <3>2, <2>1
  <2>3. QED
    BY <2>1, <2>2 DEF Nearest
<1>5. BestMatch(o) \in Symbols /\ Nearest(o, BestMatch(o))
  BY <1>4 DEF BestMatch, Nearest
<1>6. QED
  BY <1>1, <1>5

LEMMA HalfBytes ==
  ASSUME NEW lo \in Symbols, NEW hi \in Symbols
  PROVE  lo \in Bytes /\ lo + Radix * hi \in Bytes
<1>1. Radix \in Nat /\ Radix >= 2 /\ lo \in 0 .. (Radix - 1) /\ hi \in 0 .. (Radix - 1)
  BY RadixAssumption DEF Symbols
<1>2. Radix * hi \in Nat /\ Radix * hi <= Radix * (Radix - 1)
  BY <1>1
<1>3. Radix * (Radix - 1) = Radix * Radix - Radix /\ Radix * Radix \in Nat
  BY <1>1
<1>4. Radix <= Radix * Radix
  BY <1>1
<1>5. QED
  BY <1>1, <1>2, <1>3, <1>4 DEF Bytes

LEMMA ZeroByte == 0 \in Symbols /\ 0 \in Bytes
BY HalfBytes, RadixAssumption DEF Symbols

LEMMA DelimiterIsNoZero == Sfd1 * Radix \in Bytes /\ Sfd1 * Radix # 0
<1>1. Radix \in Nat /\ Radix >= 2 /\ Sfd1 \in 1 .. (Radix - 1) /\ Sfd1 \in Symbols /\ 0 \in Symbols
  BY RadixAssumption, SfdAssumption DEF Symbols
<1>2. Sfd1 * Radix = Radix * Sfd1 /\ Radix * Sfd1 = 0 + Radix * Sfd1
  BY <1>1
<1>3. Sfd1 * Radix # 0
  BY <1>1
<1>4. QED
  BY <1>1, <1>2, <1>3, HalfBytes

LEMMA ScaledLqiType == \A sum \in Nat : ScaledLqi(sum) \in 0 .. 255
<1>1. SUFFICES ASSUME NEW sum \in Nat PROVE ScaledLqi(sum) \in 0 .. 255
  OBVIOUS
<1>2. sum \div LqiSamples \in Nat
  BY SinkAssumption
<1>3. QED
  BY <1>2 DEF ScaledLqi, Least

-----------------------------------------------------------------------------
(***************************************************************************)
(* A sequence of observations that grows.                                  *)
(***************************************************************************)
LEMMA Grows ==
  ASSUME NEW s \in Seq(Observations), NEW o \in Observations
  PROVE  /\ Append(s, o) \in Seq(Observations)
         /\ Len(s) \in Nat
         /\ Len(Append(s, o)) = Len(s) + 1
         /\ \A i \in 1 .. Len(s) : Append(s, o)[i] = s[i]
         /\ Append(s, o)[Len(s) + 1] = o
BY AppendProperties, LenProperties

\* A header stays one, and what follows it keeps its meaning.
LEMMA HeaderStays ==
  ASSUME NEW s \in Seq(Observations), NEW o \in Observations,
         NEW z \in 1 .. Len(s), Header(s, z)
  PROVE  /\ z \in 1 .. Len(Append(s, o)) /\ Header(Append(s, o), z)
         /\ z + 4 <= Len(s) => /\ LengthOf(Append(s, o), z) = LengthOf(s, z)
                               /\ Announced(Append(s, o), z) = Announced(s, z)
<1> DEFINE t == Append(s, o)
<1>1. /\ Len(s) \in Nat /\ Len(t) = Len(s) + 1
      /\ \A i \in 1 .. Len(s) : t[i] = s[i]
  BY Grows
<1>2. z + 2 <= Len(s)
  BY DEF Header
<1>3. /\ \A i \in 1 .. (z + 2) : i \in 1 .. Len(s)
      /\ 1 \in 1 .. Len(s) /\ z + 1 \in 1 .. Len(s) /\ z + 2 \in 1 .. Len(s)
  BY <1>1, <1>2
<1>4. Header(t, z)
  BY <1>1, <1>2, <1>3 DEF Header
<1>5. ASSUME z + 4 <= Len(s)
      PROVE  LengthOf(t, z) = LengthOf(s, z) /\ Announced(t, z) = Announced(s, z)
  <2>1. z + 3 \in 1 .. Len(s) /\ z + 4 \in 1 .. Len(s)
    BY <1>5, <1>1
  <2>2. LengthOf(t, z) = LengthOf(s, z)
    BY <2>1, <1>1 DEF LengthOf
  <2>3. QED
    BY <2>2 DEF Announced
<1>6. QED
  BY <1>1, <1>4, <1>5

-----------------------------------------------------------------------------
(***************************************************************************)
(* The invariant holds initially, and every step preserves it.             *)
(***************************************************************************)
LEMMA InitInv == Init => IInv
<1> SUFFICES ASSUME Init PROVE IInv
  OBVIOUS
<1> USE DEF Init, SinkInit
<1>1. TypeOK
  <2>1. packet \in Seq(Bytes) /\ seen \in Seq(Observations)
    BY EmptySeq
  <2>2. packetlen \in 0 .. MaxPktLen /\ lqiCount \in 0 .. LqiSamples
    BY SinkAssumption
  <2>3. dstate \in {"search", "sync", "header"} /\ locked \in BOOLEAN
    OBVIOUS
  <2>4. packetByte \in Bytes
    BY ZeroByte
  <2>5. byteIndex \in 0 .. 2 /\ payloadCnt \in Nat /\ lqi \in Nat
    OBVIOUS
  <2>6. QED
    BY <2>1, <2>2, <2>3, <2>4, <2>5 DEF TypeOK
<1>2. BufferBound /\ OnlyFramesPublished
  BY SinkAssumption DEF BufferBound, OnlyFramesPublished
<1>3. SearchInv /\ CollectInv
  BY DEF SearchInv, CollectInv
<1>4. QED
  BY <1>1, <1>2, <1>3 DEF IInv

\* A step that publishes nothing and grows nothing but "seen".
LEMMA QuietStep ==
  ASSUME IInv, out' = << >>, UNCHANGED <<packetlen, packet, payloadCnt>>
  PROVE  BufferBound' /\ OnlyFramesPublished'
BY DEF IInv, BufferBound, OnlyFramesPublished

LEMMA NoZeroStep ==
  ASSUME IInv, NEW o \in Observations, NoZero(o), Remember(o)
  PROVE  IInv'
<1> USE DEF IInv, NoZero
<1>1. seen' = << >>
  BY DEF Remember, Hunting
<1>2. TypeOK'
  BY <1>1 DEF TypeOK
<1>3. SearchInv' /\ CollectInv'
  BY <1>1 DEF SearchInv, CollectInv
<1>4. QED
  BY <1>2, <1>3, QuietStep

LEMMA FirstZeroStep ==
  ASSUME IInv, NEW o \in Observations, FirstZero(o), Remember(o)
  PROVE  IInv'
<1> USE DEF IInv, FirstZero
<1>1. seen' = <<o>> /\ seen' \in Seq(Observations) /\ Len(seen') = 1 /\ seen'[1] = o
  BY DEF Remember, Hunting
<1>2. TypeOK'
  BY <1>1 DEF TypeOK
<1>3. Zero(o)
  <2>1. o[0] \in Nat /\ Threshold \in Nat
    BY ObservationsAssumption, SinkAssumption, RadixAssumption DEF Symbols
  <2>2. QED
    BY <2>1 DEF Zero
<1>4. SearchInv'
  <2>1. packetByte' = 0 /\ Preamble(seen', 1)
    BY <1>1, <1>3 DEF SearchInv, Preamble
  <2>2. QED
    BY <2>1, <1>1 DEF SearchInv
<1>5. CollectInv'
  BY DEF CollectInv
<1>6. QED
  BY <1>2, <1>4, <1>5, QuietStep

LEMMA MoreZeroStep ==
  ASSUME IInv, NEW o \in Observations, MoreZero(o), Remember(o)
  PROVE  IInv'
<1> USE DEF IInv, MoreZero
<1>0. seen \in Seq(Observations)
  BY DEF TypeOK
<1>1. seen' = Append(seen, o)
  BY DEF Remember, Hunting
<1>2. /\ seen' \in Seq(Observations) /\ Len(seen) \in Nat /\ Len(seen') = Len(seen) + 1
      /\ (\A i \in 1 .. Len(seen) : seen'[i] = seen[i]) /\ seen'[Len(seen) + 1] = o
  BY <1>0, <1>1, Grows
<1>3. TypeOK'
  BY <1>2 DEF TypeOK
<1>4. SearchInv'
  <2>1. Preamble(seen, Len(seen))
    BY DEF SearchInv
  <2>2. Preamble(seen', Len(seen'))
    BY <2>1, <1>2 DEF Preamble, Zero
  <2>3. QED
    BY <2>2 DEF SearchInv
<1>5. CollectInv'
  BY DEF CollectInv
<1>6. QED
  BY <1>3, <1>4, <1>5, QuietStep

LEMMA FirstSfdStep ==
  ASSUME IInv, NEW o \in Observations, FirstSfd(o), Remember(o)
  PROVE  IInv'
<1> USE DEF IInv, FirstSfd
<1>0. seen \in Seq(Observations)
  BY DEF TypeOK
<1>1. seen' = Append(seen, o)
  BY DEF Remember, Hunting
<1>2. /\ seen' \in Seq(Observations) /\ Len(seen) \in Nat /\ Len(seen') = Len(seen) + 1
      /\ (\A i \in 1 .. Len(seen) : seen'[i] = seen[i]) /\ seen'[Len(seen) + 1] = o
  BY <1>0, <1>1, Grows
<1>3. TypeOK'
  BY <1>2, DelimiterIsNoZero DEF TypeOK
<1>4. SearchInv'
  <2>1. Preamble(seen, Len(seen))
    BY DEF SearchInv
  <2>2. Preamble(seen', Len(seen') - 1)
    BY <2>1, <1>2 DEF Preamble
  <2>3. ~Zero(o)
    <3>1. o[0] \in Nat /\ Threshold \in Nat
      BY ObservationsAssumption, SinkAssumption, RadixAssumption DEF Symbols
    <3>2. QED
      BY <3>1 DEF Zero
  <2>4. packetByte' # 0
    BY DelimiterIsNoZero
  <2>5. seen'[Len(seen')] = o
    BY <1>2
  <2>6. QED
    BY <2>2, <2>3, <2>4, <2>5 DEF SearchInv
<1>5. CollectInv'
  BY DEF CollectInv
<1>6. QED
  BY <1>3, <1>4, <1>5, QuietStep

LEMMA SecondSfdStep ==
  ASSUME IInv, NEW o \in Observations, SecondSfd(o), Remember(o)
  PROVE  IInv'
<1> USE DEF IInv, SecondSfd, EnterHaveSync
<1>0. seen \in Seq(Observations)
  BY DEF TypeOK
<1>1. seen' = Append(seen, o)
  BY DEF Remember, Hunting
<1>2. /\ seen' \in Seq(Observations) /\ Len(seen) \in Nat /\ Len(seen') = Len(seen) + 1
      /\ (\A i \in 1 .. Len(seen) : seen'[i] = seen[i]) /\ seen'[Len(seen) + 1] = o
  BY <1>0, <1>1, Grows
<1>3. TypeOK'
  BY <1>2, ZeroByte, SinkAssumption DEF TypeOK
<1>4. BufferBound' /\ OnlyFramesPublished'
  BY SinkAssumption DEF BufferBound, OnlyFramesPublished
<1>5. CollectInv'
  <2>0. PICK z \in Int : z = Len(seen) - 1
    BY <1>2
  <2>1. Preamble(seen, z) /\ ~Zero(seen[Len(seen)]) /\ seen[Len(seen)][Sfd1] <= Threshold
    BY <2>0 DEF SearchInv
  <2>2. z \in 1 .. Len(seen) /\ z + 1 = Len(seen)
    BY <2>0, <2>1, <1>2 DEF Preamble
  <2>3. Header(seen', z)
    BY <2>1, <2>2, <1>2 DEF Preamble, Header
  <2>4. InLength(z)'
    BY <2>2, <2>3, <1>2 DEF InLength
  <2>5. z \in 1 .. Len(seen')
    BY <2>2, <1>2
  <2>6. QED
    BY <2>4, <2>5 DEF CollectInv
<1>6. SearchInv'
  BY DEF SearchInv
<1>7. QED
  BY <1>3, <1>4, <1>5, <1>6

\* The block gives up what it has seen.
LEMMA EnterSearchStep ==
  ASSUME IInv, NEW o \in Observations, SyncLost(o) \/ InvalidSymbol(o), Remember(o)
  PROVE  IInv'
<1>1. seen' \in Seq(Observations)
  BY Grows DEF IInv, TypeOK, Remember, Hunting, SyncLost, InvalidSymbol
<1>2. /\ dstate' = "search" /\ locked' = FALSE /\ packetByte' = 0 /\ out' = << >>
      /\ UNCHANGED <<byteIndex, packetlen, packet, payloadCnt, lqi, lqiCount>>
  BY DEF SyncLost, InvalidSymbol, EnterSearch
<1>3. TypeOK'
  BY <1>1, <1>2, ZeroByte DEF IInv, TypeOK
<1>4. SearchInv' /\ CollectInv'
  BY <1>2 DEF SearchInv, CollectInv
<1>5. QED
  BY <1>2, <1>3, <1>4, QuietStep DEF IInv

\* The quality counters keep their types.
LEMMA CountLqiType ==
  ASSUME TypeOK, NEW o \in Observations, CountLqi(o)
  PROVE  lqi' \in Nat /\ lqiCount' \in 0 .. LqiSamples
BY BestMatchExists, SinkAssumption DEF TypeOK, CountLqi

LEMMA LowSymbolStep ==
  ASSUME IInv, NEW o \in Observations, LowSymbol(o), Remember(o)
  PROVE  IInv'
<1> USE DEF IInv
<1>0. seen \in Seq(Observations) /\ packet \in Seq(Bytes)
  BY DEF TypeOK
<1>1. seen' = Append(seen, o)
  BY DEF Remember, Hunting, LowSymbol
<1>2. /\ seen' \in Seq(Observations) /\ Len(seen) \in Nat /\ Len(seen') = Len(seen) + 1
      /\ (\A i \in 1 .. Len(seen) : seen'[i] = seen[i]) /\ seen'[Len(seen) + 1] = o
  BY <1>0, <1>1, Grows
<1>3. /\ byteIndex = 0 /\ byteIndex' = 1 /\ packetByte' = BestMatch(o) /\ Valid(o)
      /\ out' = << >> /\ UNCHANGED <<dstate, locked, packetlen, packet, payloadCnt>>
  BY DEF LowSymbol, Assemble
<1>4. packetByte' \in Bytes
  BY <1>3, BestMatchExists, HalfBytes
<1>5. TypeOK'
  BY <1>2, <1>3, <1>4, CountLqiType DEF TypeOK, LowSymbol
<1>6. dstate # "search" /\ SearchInv'
  BY <1>3 DEF SearchInv, LowSymbol
<1>7. CollectInv'
  <2>1. ASSUME dstate = "sync"
        PROVE  \E z \in 1 .. Len(seen') : InLength(z)'
    <3>1. PICK z \in 1 .. Len(seen) : InLength(z)
      BY <2>1 DEF CollectInv
    <3>2. z \in 1 .. Len(seen') /\ Header(seen', z) /\ z + 3 = Len(seen')
      BY <3>1, <1>0, <1>1, <1>2, <1>3, HeaderStays DEF InLength
    <3>3. InLength(z)'
      BY <3>1, <3>2, <1>2, <1>3 DEF InLength
    <3>4. QED
      BY <3>2, <3>3
  <2>2. ASSUME dstate = "header"
        PROVE  \E z \in 1 .. Len(seen') : InPayload(z)'
    <3>1. PICK z \in 1 .. Len(seen) : InPayload(z)
      BY <2>2 DEF CollectInv
    <3>2. Len(packet) \in Nat /\ Len(seen) = z + 4 + 2 * Len(packet)
      BY <3>1, <1>0, <1>3, LenProperties DEF InPayload
    <3>3. /\ z \in 1 .. Len(seen') /\ Header(seen', z)
          /\ LengthOf(seen', z) = LengthOf(seen, z)
          /\ Announced(seen', z) = Announced(seen, z)
      BY <3>1, <3>2, <1>0, <1>1, HeaderStays DEF InPayload
    <3>4. ASSUME NEW i \in (z + 3) .. Len(seen')
          PROVE  Valid(seen'[i])
      <4>1. CASE i = Len(seen) + 1
        BY <4>1, <1>2, <1>3
      <4>2. CASE i # Len(seen) + 1
        <5>1. i \in (z + 3) .. Len(seen) /\ i \in 1 .. Len(seen)
          BY <4>2, <1>2
        <5>2. seen'[i] = seen[i] /\ Valid(seen[i])
          BY <5>1, <3>1, <1>2 DEF InPayload
        <5>3. QED
          BY <5>2
      <4>3. QED
        BY <4>1, <4>2
    <3>5. \A i \in 1 .. Len(packet) :
            packet[i] = ByteOf(seen'[z + 3 + 2 * i], seen'[z + 4 + 2 * i])
      <4>1. ASSUME NEW i \in 1 .. Len(packet)
            PROVE  z + 3 + 2 * i \in 1 .. Len(seen) /\ z + 4 + 2 * i \in 1 .. Len(seen)
        BY <3>2
      <4>2. QED
        BY <4>1, <3>1, <1>2 DEF InPayload
    <3>6. InPayload(z)'
      BY <3>1, <3>2, <3>3, <3>4, <3>5, <1>2, <1>3 DEF InPayload
    <3>7. QED
      BY <3>3, <3>6
  <2>3. QED
    BY <2>1, <2>2, <1>3 DEF CollectInv
<1>8. QED
  BY <1>3, <1>5, <1>6, <1>7, QuietStep

LEMMA LengthByteStep ==
  ASSUME IInv, NEW o \in Observations, LengthByte(o), Remember(o)
  PROVE  IInv'
<1> USE DEF IInv
<1>0. seen \in Seq(Observations) /\ dstate = "sync" /\ byteIndex = 1
  BY DEF TypeOK, LengthByte
<1>1. seen' = Append(seen, o)
  BY DEF Remember, Hunting, LengthByte
<1>2. /\ seen' \in Seq(Observations) /\ Len(seen) \in Nat /\ Len(seen') = Len(seen) + 1
      /\ (\A i \in 1 .. Len(seen) : seen'[i] = seen[i]) /\ seen'[Len(seen) + 1] = o
  BY <1>0, <1>1, Grows
<1>3. PICK z \in 1 .. Len(seen) : InLength(z)
  BY <1>0 DEF CollectInv
<1>4. /\ z \in 1 .. Len(seen') /\ Header(seen', z) /\ Len(seen) = z + 3 /\ Len(seen') = z + 4
      /\ seen'[z + 3] = seen[z + 3] /\ seen'[z + 4] = o
  <2>1. Len(seen) = z + 3
    BY <1>0, <1>2, <1>3 DEF InLength
  <2>2. z \in 1 .. Len(seen') /\ Header(seen', z)
    BY <1>0, <1>1, <1>3, HeaderStays DEF InLength
  <2>3. QED
    BY <2>1, <2>2, <1>2
<1>5. /\ Assemble(o) = LengthOf(seen', z) /\ Assemble(o) \in Bytes
      /\ Valid(seen'[z + 3]) /\ Valid(seen'[z + 4])
  <2>1. packetByte = BestMatch(seen[z + 3]) /\ Valid(seen[z + 3])
    BY <1>0, <1>3 DEF InLength
  <2>2. seen[z + 3] \in Observations
    BY <1>0, <1>4, <1>2, ElementOfSeq
  <2>3. Assemble(o) = packetByte + Radix * BestMatch(o)
    BY <1>0 DEF Assemble
  <2>4. Assemble(o) \in Bytes
    BY <2>1, <2>2, <2>3, BestMatchExists, HalfBytes
  <2>5. QED
    BY <2>1, <2>3, <2>4, <1>4 DEF LengthOf, ByteOf, LengthByte
<1>6. packet = << >> /\ packet' = packet /\ out' = << >>
  BY <1>3 DEF InLength, LengthByte
<1>7. BufferBound' /\ OnlyFramesPublished'
  BY <1>6 DEF BufferBound, OnlyFramesPublished
<1>8. CASE LengthAccepted(Assemble(o))
  <2>1. /\ dstate' = "header" /\ packetByte' = 0 /\ byteIndex' = 0
        /\ packetlen' = Assemble(o) /\ payloadCnt' = 0 /\ locked' = locked
    BY <1>8 DEF LengthByte, EnterHaveHeader
  <2>2. packetlen' \in 0 .. MaxPktLen
    BY <2>1, <1>5, <1>8, RadixAssumption, SinkAssumption DEF LengthAccepted, Bytes
  <2>3. TypeOK'
    BY <2>1, <2>2, <1>2, <1>6, ZeroByte, CountLqiType DEF TypeOK, LengthByte
  <2>4. Announced(seen', z) > 0 /\ Announced(seen', z) \in Nat
    BY <1>5, <2>1, <2>2, SinkAssumption DEF Announced
  <2>5. InPayload(z)'
    BY <2>1, <2>2, <2>4, <1>4, <1>5, <1>6 DEF InPayload
  <2>6. SearchInv' /\ CollectInv'
    BY <2>1, <2>5, <1>4, <1>0 DEF SearchInv, CollectInv
  <2>7. QED
    BY <2>3, <2>6, <1>7
<1>9. CASE ~LengthAccepted(Assemble(o))
  <2>1. /\ dstate' = "search" /\ locked' = FALSE /\ packetByte' = 0 /\ byteIndex' = 2
        /\ UNCHANGED <<packetlen, payloadCnt>>
    BY <1>0, <1>9 DEF LengthByte, EnterSearch
  <2>2. TypeOK'
    <3>1. lqi' \in Nat /\ lqiCount' \in 0 .. LqiSamples
      BY CountLqiType DEF LengthByte
    <3>2. packetByte' \in Bytes
      BY <2>1, ZeroByte
    <3>3. dstate' \in {"search", "sync", "header"} /\ locked' \in BOOLEAN
      BY <2>1
    <3>4. byteIndex' \in 0 .. 2
      BY <2>1
    <3>5. QED
      BY <3>1, <3>2, <3>3, <3>4, <2>1, <1>2, <1>6 DEF TypeOK
  <2>3. SearchInv' /\ CollectInv'
    BY <2>1 DEF SearchInv, CollectInv
  <2>4. QED
    BY <2>2, <2>3, <1>7
<1>10. QED
  BY <1>8, <1>9

LEMMA PayloadByteStep ==
  ASSUME IInv, NEW o \in Observations, PayloadByte(o), Remember(o)
  PROVE  IInv'
<1> USE DEF IInv
<1>0. seen \in Seq(Observations) /\ packet \in Seq(Bytes) /\ dstate = "header" /\ locked
  BY DEF TypeOK, CollectInv, PayloadByte
<1>1. seen' = Append(seen, o)
  BY <1>0 DEF Remember, Hunting
<1>2. /\ seen' \in Seq(Observations) /\ Len(seen) \in Nat /\ Len(seen') = Len(seen) + 1
      /\ (\A i \in 1 .. Len(seen) : seen'[i] = seen[i]) /\ seen'[Len(seen) + 1] = o
  BY <1>0, <1>1, Grows
<1>3. PICK z \in 1 .. Len(seen) : InPayload(z)
  BY <1>0 DEF CollectInv
<1>4. PICK n \in Nat : n = Len(packet)
  BY <1>0, LenProperties
<1>5. byteIndex = 1 /\ Len(seen) = z + 5 + 2 * n /\ Len(seen') = z + 6 + 2 * n
  <2>1. byteIndex = 1
    BY <1>3 DEF InPayload, PayloadByte
  <2>2. QED
    BY <2>1, <1>2, <1>3, <1>4 DEF InPayload
<1>6. /\ z \in 1 .. Len(seen') /\ Header(seen', z)
      /\ LengthOf(seen', z) = packetlen
      /\ Announced(seen', z) = Announced(seen, z)
  BY <1>3, <1>5, <1>0, <1>1, HeaderStays DEF InPayload
<1>7. /\ Announced(seen', z) = IF packetlen = 0 THEN 1 ELSE packetlen
      /\ packetlen \in 0 .. MaxPktLen /\ n < Announced(seen', z)
      /\ payloadCnt' = n + 1 /\ packetlen' = packetlen
  BY <1>3, <1>4, <1>6 DEF InPayload, Announced, TypeOK, PayloadByte
<1>8. ASSUME NEW i \in (z + 3) .. Len(seen')
      PROVE  Valid(seen'[i])
  <2>1. CASE i = Len(seen) + 1
    BY <2>1, <1>2 DEF PayloadByte
  <2>2. CASE i # Len(seen) + 1
    <3>1. i \in (z + 3) .. Len(seen) /\ i \in 1 .. Len(seen)
      BY <2>2, <1>2
    <3>2. seen'[i] = seen[i] /\ Valid(seen[i])
      BY <3>1, <1>3, <1>2 DEF InPayload
    <3>3. QED
      BY <3>2
  <2>3. QED
    BY <2>1, <2>2
<1>9. PICK b \in Bytes : b = Assemble(o) /\ b = ByteOf(seen[Len(seen)], o)
  <2>1. packetByte = BestMatch(seen[Len(seen)])
    BY <1>3, <1>5 DEF InPayload
  <2>2. seen[Len(seen)] \in Observations
    BY <1>0, <1>5, <1>2, ElementOfSeq
  <2>3. Assemble(o) = ByteOf(seen[Len(seen)], o)
    BY <1>5, <2>1 DEF Assemble, ByteOf
  <2>4. Assemble(o) \in Bytes
    BY <2>2, <2>3, BestMatchExists, HalfBytes DEF ByteOf
  <2>5. QED
    BY <2>3, <2>4
<1>10. /\ packet' = Append(packet, b) /\ packet' \in Seq(Bytes) /\ Len(packet') = n + 1
       /\ (\A i \in 1 .. n : packet'[i] = packet[i]) /\ packet'[n + 1] = b
  <2>1. packet' = Append(packet, b)
    BY <1>9 DEF PayloadByte
  <2>2. QED
    BY <2>1, <1>0, <1>4, AppendProperties
<1>11. ASSUME NEW i \in 1 .. (n + 1)
       PROVE  packet'[i] = ByteOf(seen'[z + 3 + 2 * i], seen'[z + 4 + 2 * i])
  <2>1. CASE i = n + 1
    <3>1. z + 3 + 2 * i = Len(seen) /\ z + 4 + 2 * i = Len(seen) + 1
      BY <2>1, <1>5
    <3>2. seen'[z + 3 + 2 * i] = seen[Len(seen)] /\ seen'[z + 4 + 2 * i] = o
      BY <3>1, <1>2
    <3>3. QED
      BY <3>2, <2>1, <1>9, <1>10
  <2>2. CASE i # n + 1
    <3>1. i \in 1 .. n /\ z + 3 + 2 * i \in 1 .. Len(seen) /\ z + 4 + 2 * i \in 1 .. Len(seen)
      BY <2>2, <1>5
    <3>2. packet'[i] = packet[i]
      BY <3>1, <1>10
    <3>3. packet[i] = ByteOf(seen[z + 3 + 2 * i], seen[z + 4 + 2 * i])
      BY <3>1, <1>3, <1>4 DEF InPayload
    <3>4. QED
      BY <3>1, <3>2, <3>3, <1>2
  <2>3. QED
    BY <2>1, <2>2
<1>12. BufferBound'
  BY <1>7, <1>10, SinkAssumption DEF BufferBound
<1>13. lqi' \in Nat /\ lqiCount' \in 0 .. LqiSamples /\ byteIndex' = 0
  BY CountLqiType DEF PayloadByte
<1>14. CASE ~Filled(payloadCnt')
  <2>1. /\ dstate' = dstate /\ locked' = locked /\ packetByte' = b /\ out' = << >>
    BY <1>9, <1>14 DEF PayloadByte
  <2>2. n + 1 < Announced(seen', z)
    BY <1>7, <1>14 DEF Filled
  <2>3. TypeOK'
    BY <2>1, <1>2, <1>7, <1>10, <1>13 DEF TypeOK
  <2>4. OnlyFramesPublished'
    BY <2>1 DEF OnlyFramesPublished
  <2>5. InPayload(z)'
    BY <2>1, <2>2, <1>5, <1>6, <1>7, <1>8, <1>10, <1>11, <1>13 DEF InPayload
  <2>6. SearchInv' /\ CollectInv'
    BY <2>1, <2>5, <1>0, <1>6 DEF SearchInv, CollectInv
  <2>7. QED
    BY <2>3, <2>4, <2>6, <1>12
<1>15. CASE Filled(payloadCnt')
  <2>1. /\ dstate' = "search" /\ locked' = FALSE /\ packetByte' = 0
        /\ out' = <<Message(packet', lqi')>>
    BY <1>15 DEF PayloadByte, EnterSearch
  <2>2. n + 1 = Announced(seen', z)
    BY <1>7, <1>15 DEF Filled
  <2>3. /\ Len(out') = 1 /\ DOMAIN out'[1] = {"payload", "lqi"}
        /\ out'[1].payload = packet' /\ out'[1].lqi \in 0 .. 255
    BY <2>1, <1>13, ScaledLqiType DEF Message
  <2>4. TypeOK'
    <3>1. packetByte' \in Bytes
      BY <2>1, ZeroByte
    <3>2. dstate' \in {"search", "sync", "header"} /\ locked' \in BOOLEAN
      BY <2>1
    <3>3. byteIndex' \in 0 .. 2 /\ packetlen' \in 0 .. MaxPktLen /\ payloadCnt' \in Nat
      BY <1>7, <1>13
    <3>4. QED
      BY <3>1, <3>2, <3>3, <2>3, <1>2, <1>10, <1>13 DEF TypeOK
  <2>5. IsFrame(seen', z)
    BY <2>2, <1>5, <1>6, <1>7, <1>8 DEF IsFrame
  <2>6. packet' = PayloadOf(seen', z)
    <3>1. packet' \in [1 .. (n + 1) -> Bytes]
      BY <1>10, LenProperties
    <3>2. QED
      BY <3>1, <2>2, <1>11 DEF PayloadOf
  <2>7. OnlyFramesPublished'
    BY <2>3, <2>5, <2>6, <1>6 DEF OnlyFramesPublished
  <2>8. SearchInv' /\ CollectInv'
    BY <2>1 DEF SearchInv, CollectInv
  <2>9. QED
    BY <2>4, <2>7, <2>8, <1>12
<1>16. QED
  BY <1>14, <1>15

LEMMA CompareInv ==
  ASSUME IInv, NEW o \in Observations, Compare(o)
  PROVE  IInv'
<1>1. Remember(o) /\ Receive(o)
  BY DEF Compare
<1>2. CASE NoZero(o)
  BY <1>1, <1>2, NoZeroStep
<1>3. CASE FirstZero(o)
  BY <1>1, <1>3, FirstZeroStep
<1>4. CASE MoreZero(o)
  BY <1>1, <1>4, MoreZeroStep
<1>5. CASE FirstSfd(o)
  BY <1>1, <1>5, FirstSfdStep
<1>6. CASE SecondSfd(o)
  BY <1>1, <1>6, SecondSfdStep
<1>7. CASE SyncLost(o) \/ InvalidSymbol(o)
  BY <1>1, <1>7, EnterSearchStep
<1>8. CASE LowSymbol(o)
  BY <1>1, <1>8, LowSymbolStep
<1>9. CASE LengthByte(o)
  BY <1>1, <1>9, LengthByteStep
<1>10. CASE PayloadByte(o)
  BY <1>1, <1>10, PayloadByteStep
<1>11. QED
  BY <1>1, <1>2, <1>3, <1>4, <1>5, <1>6, <1>7, <1>8, <1>9, <1>10
     DEF Receive, Search, Collect

LEMMA StepInv == IInv /\ [Next]_vars => IInv'
<1>1. CASE UNCHANGED vars
  BY <1>1 DEF vars, sinkVars, IInv, TypeOK, BufferBound, OnlyFramesPublished,
              SearchInv, CollectInv, InLength, InPayload
<1>2. QED
  BY <1>1, CompareInv DEF Next

-----------------------------------------------------------------------------
(***************************************************************************)
(* Theorems.                                                               *)
(***************************************************************************)

\* In every state of the block "seen" is a frame up to where the block has got.
THEOREM SinkInvariance == Spec => []IInv
<1>1. Init => IInv
  BY InitInv
<1>2. IInv /\ [Next]_vars => IInv'
  BY StepInv
<1>3. QED
  BY <1>1, <1>2, PTL DEF Spec

\* Every variable of packet_sink keeps its type.
THEOREM SinkTyping == Spec => []TypeOK
<1>1. IInv => TypeOK
  BY DEF IInv
<1>2. QED
  BY <1>1, SinkInvariance, PTL

\* d_packet[d_packetlen_cnt++] never writes behind the end of d_packet.
THEOREM NoOverrun == Spec => []BufferBound
<1>1. IInv => BufferBound
  BY DEF IInv
<1>2. QED
  BY <1>1, SinkInvariance, PTL

\* Whatever the chip stream, every packet published is the payload of a frame:
\* preamble, delimiter, length and bytes, read off the stream.
THEOREM FramesOnly == Spec => []OnlyFramesPublished
<1>1. IInv => OnlyFramesPublished
  BY DEF IInv
<1>2. QED
  BY <1>1, SinkInvariance, PTL


-----------------------------------------------------------------------------
(***************************************************************************)
(* Every frame is published, with its own link quality. The step that      *)
(* completes a frame is the only one that leaves one in "seen": in every   *)
(* other state "seen" is too short, or is wrong where it ends.             *)
(***************************************************************************)

\* The quality counters are about the symbols since the delimiter.
QualityInv ==
  dstate # "search" =>
    \E z \in 1 .. Len(seen) :
      /\ Header(seen, z) /\ lqi = Sum(Correlations(seen, z))
      /\ lqiCount = Len(Correlations(seen, z))

\* A frame begins with one preamble only.
LEMMA OneHeader ==
  ASSUME NEW s, NEW y \in Nat, NEW z \in Nat, Header(s, y), Header(s, z)
  PROVE  y = z
<1>1. ASSUME NEW a \in Nat, NEW b \in Nat, Header(s, a), Header(s, b) PROVE ~ (a < b)
  <2>1. SUFFICES ASSUME a < b PROVE FALSE
    OBVIOUS
  <2>2. a + 1 \in 1 .. b
    BY <2>1
  <2>3. QED
    BY <1>1, <2>2 DEF Header
<1>2. QED
  BY <1>1

\* With one more observation, its correlation is the last, if it still counts.
LEMMA CorrelationsGrow ==
  ASSUME NEW s \in Seq(Observations), NEW o \in Observations,
         NEW z \in 1 .. Len(s), z + 2 <= Len(s)
  PROVE  /\ Correlations(s, z) \in Seq(Int)
         /\ Len(Correlations(s, z)) = Least(Len(s) - (z + 2), LqiSamples)
         /\ Correlations(Append(s, o), z) =
              IF Len(Correlations(s, z)) < LqiSamples
              THEN Append(Correlations(s, z), Chips - o[BestMatch(o)])
              ELSE Correlations(s, z)
<1>1. PICK t \in Seq(Observations) : t = Append(s, o)
  BY Grows
<1>2. /\ Len(s) \in Nat /\ Len(t) = Len(s) + 1 /\ t[Len(s) + 1] = o
      /\ \A i \in 1 .. Len(s) : t[i] = s[i]
  BY <1>1, Grows
<1>3. PICK n, k : n = Least(Len(s) - (z + 2), LqiSamples)
                   /\ k = Least(Len(t) - (z + 2), LqiSamples)
  OBVIOUS
<1>13. n \in Nat /\ k \in Nat
  BY <1>2, <1>3, SinkAssumption DEF Least
<1>4. ASSUME NEW u \in Seq(Observations), NEW i \in 1 .. Len(u)
      PROVE  Chips - u[i][BestMatch(u[i])] \in Int
  BY ElementOfSeq, BestMatchExists, SinkAssumption
<1>5. ASSUME NEW i \in 1 .. n
      PROVE  Chips - s[z + 2 + i][BestMatch(s[z + 2 + i])] \in Int
  <2>1. z + 2 + i \in 1 .. Len(s)
    BY <1>2, <1>3, SinkAssumption DEF Least
  <2>2. QED
    BY <1>4, <2>1
<1>6. PICK c \in Seq(Int) : /\ c = Correlations(s, z) /\ Len(c) = n
                            /\ \A i \in 1 .. n :
                                 c[i] = Chips - s[z + 2 + i][BestMatch(s[z + 2 + i])]
  <2>1. Correlations(s, z) =
          [i \in 1 .. n |-> Chips - s[z + 2 + i][BestMatch(s[z + 2 + i])]]
    BY <1>3 DEF Correlations
  <2>2. PICK e : e = [i \in 1 .. n |-> Chips - s[z + 2 + i][BestMatch(s[z + 2 + i])]]
    OBVIOUS
  <2>3. e \in Seq(Int)
    BY <1>5, <1>13, <2>2, IsASeq
  <2>4. \A i \in 1 .. n : e[i] = Chips - s[z + 2 + i][BestMatch(s[z + 2 + i])]
    BY <2>2
  <2>5. DOMAIN e = 1 .. n
    BY <2>2
  <2>6. Len(e) = n
    BY <1>13, <2>3, <2>5, LenProperties
  <2>7. QED
    BY <2>1, <2>2, <2>3, <2>4, <2>6, Zenon
<1>7. ASSUME NEW i \in 1 .. k
      PROVE  Chips - t[z + 2 + i][BestMatch(t[z + 2 + i])] \in Int
  <2>1. z + 2 + i \in 1 .. Len(t)
    BY <1>2, <1>3, SinkAssumption DEF Least
  <2>2. QED
    BY <1>4, <2>1
<1>8. PICK d \in Seq(Int) : /\ d = Correlations(t, z) /\ Len(d) = k
                            /\ \A i \in 1 .. k :
                                 d[i] = Chips - t[z + 2 + i][BestMatch(t[z + 2 + i])]
  <2>1. Correlations(t, z) =
          [i \in 1 .. k |-> Chips - t[z + 2 + i][BestMatch(t[z + 2 + i])]]
    BY <1>3 DEF Correlations
  <2>2. PICK e : e = [i \in 1 .. k |-> Chips - t[z + 2 + i][BestMatch(t[z + 2 + i])]]
    OBVIOUS
  <2>3. e \in Seq(Int)
    BY <1>7, <1>13, <2>2, IsASeq
  <2>4. \A i \in 1 .. k : e[i] = Chips - t[z + 2 + i][BestMatch(t[z + 2 + i])]
    BY <2>2
  <2>5. DOMAIN e = 1 .. k
    BY <2>2
  <2>6. Len(e) = k
    BY <1>13, <2>3, <2>5, LenProperties
  <2>7. QED
    BY <2>1, <2>2, <2>3, <2>4, <2>6, Zenon
<1>9. \A i \in 1 .. n : z + 2 + i \in 1 .. Len(s)
  BY <1>2, <1>3, SinkAssumption DEF Least
<1>10. CASE n < LqiSamples
  <2>1. n = Len(s) - (z + 2) /\ k = n + 1
    BY <1>2, <1>3, <1>10, SinkAssumption DEF Least
  <2>2. PICK x \in Int : x = Chips - o[BestMatch(o)]
    BY BestMatchExists, SinkAssumption
  <2>3. PICK e \in Seq(Int) : e = Append(c, x)
    <3>1. Append(c, x) \in Seq(Int)
      OBVIOUS
    <3>2. QED
      BY <3>1, Zenon
  <2>4. Len(e) = n + 1 /\ e[n + 1] = x /\ \A i \in 1 .. n : e[i] = c[i]
    BY <1>6, <2>3, AppendProperties
  <2>5. ASSUME NEW i \in 1 .. (n + 1) PROVE d[i] = e[i]
    <3>1. CASE i = n + 1
      <4>1. z + 2 + i = Len(s) + 1
        BY <2>1, <3>1
      <4>2. d[i] = Chips - o[BestMatch(o)]
        BY <1>2, <1>8, <2>1, <4>1
      <4>3. QED
        BY <2>2, <2>4, <3>1, <4>2
    <3>2. CASE i \in 1 .. n
      <4>1. t[z + 2 + i] = s[z + 2 + i]
        BY <1>2, <1>9, <3>2
      <4>2. i \in 1 .. k
        BY <2>1
      <4>3. d[i] = Chips - t[z + 2 + i][BestMatch(t[z + 2 + i])]
        BY <1>8, <4>2
      <4>4. c[i] = Chips - s[z + 2 + i][BestMatch(s[z + 2 + i])]
        BY <1>6, <3>2
      <4>5. d[i] = c[i]
        BY <4>1, <4>3, <4>4
      <4>6. QED
        BY <2>4, <3>2, <4>5
    <3>3. QED
      BY <1>13, <3>1, <3>2
  <2>6. d = e
    BY <1>8, <2>1, <2>4, <2>5, SeqEqual
  <2>7. QED
    BY <1>1, <1>3, <1>6, <1>8, <1>10, <2>2, <2>3, <2>6
<1>11. CASE ~ (n < LqiSamples)
  <2>1. k = n
    BY <1>2, <1>3, <1>11, SinkAssumption DEF Least
  <2>2. \A i \in 1 .. n : d[i] = c[i]
    BY <1>2, <1>6, <1>8, <1>9, <2>1
  <2>3. d = c
    BY <1>6, <1>8, <2>1, <2>2, SeqEqual
  <2>4. QED
    BY <1>1, <1>3, <1>6, <1>8, <1>11, <2>3
<1>12. QED
  BY <1>10, <1>11

\* A symbol that is counted adds its correlation to the sum.
LEMMA QualityGrows ==
  ASSUME NEW s \in Seq(Observations), NEW o \in Observations,
         NEW z \in 1 .. Len(s), z + 2 <= Len(s), CountLqi(o),
         lqi = Sum(Correlations(s, z)), lqiCount = Len(Correlations(s, z))
  PROVE  /\ lqi' = Sum(Correlations(Append(s, o), z))
         /\ lqiCount' = Len(Correlations(Append(s, o), z))
<1>1. PICK c \in Seq(Int) : c = Correlations(s, z)
  BY CorrelationsGrow
<1>2. PICK d : d = Correlations(Append(s, o), z)
  OBVIOUS
<1>3. PICK x \in Int : x = Chips - o[BestMatch(o)]
  BY BestMatchExists, SinkAssumption
<1>4. d = IF Len(c) < LqiSamples THEN Append(c, x) ELSE c
  BY <1>1, <1>2, <1>3, CorrelationsGrow
<1>5. lqi = Sum(c) /\ lqiCount = Len(c) /\ Sum(c) \in Int /\ Len(c) \in Nat
  BY <1>1, SumAppended, LenProperties
<1>6. CASE Len(c) < LqiSamples
  <2>1. lqi' = lqi + Chips - o[BestMatch(o)] /\ lqiCount' = lqiCount + 1
    BY <1>5, <1>6 DEF CountLqi
  <2>2. lqi + Chips - o[BestMatch(o)] = lqi + x
    BY <1>3, <1>5, BestMatchExists, SinkAssumption
  <2>3. Sum(d) = Sum(c) + x /\ Len(d) = Len(c) + 1
    <3>1. d = Append(c, x)
      BY <1>4, <1>6
    <3>2. QED
      BY <3>1, SumAppended, AppendProperties
  <2>4. QED
    BY <1>2, <1>5, <2>1, <2>2, <2>3
<1>7. CASE ~ (Len(c) < LqiSamples)
  BY <1>2, <1>4, <1>5, <1>7 DEF CountLqi
<1>8. QED
  BY <1>6, <1>7

\* While the block waits for a delimiter or collects a frame, none is complete.
LEMMA NoneComplete ==
  IInv /\ (dstate # "search" \/ locked) => \A z \in 1 .. Len(seen) : ~ IsFrame(seen, z)
<1> SUFFICES ASSUME IInv, dstate # "search" \/ locked,
                    NEW z \in 1 .. Len(seen), IsFrame(seen, z)
             PROVE  FALSE
  OBVIOUS
<1>1. /\ seen \in Seq(Observations) /\ dstate \in {"search", "sync", "header"}
      /\ packet \in Seq(Bytes) /\ packetByte \in Bytes
  BY DEF IInv, TypeOK
<1>2. Len(seen) \in Nat /\ Len(packet) \in Nat
  BY <1>1, LenProperties
<1>3. /\ Header(seen, z) /\ z + 4 < Len(seen) /\ ~ Zero(seen[z + 1])
      /\ Len(seen) = z + 4 + 2 * Announced(seen, z)
  BY DEF IsFrame, Header
<1>4. CASE dstate = "search"
  <2>1. \/ Preamble(seen, Len(seen)) \/ Preamble(seen, Len(seen) - 1)
    BY <1>4 DEF IInv, SearchInv
  <2>2. z + 1 \in 1 .. (Len(seen) - 1)
    BY <1>2, <1>3
  <2>3. QED
    BY <1>2, <1>3, <2>1, <2>2 DEF Preamble
<1>5. CASE dstate = "sync"
  <2>1. PICK y \in 1 .. Len(seen) : InLength(y)
    BY <1>5 DEF IInv, CollectInv
  <2>2. y = z
    BY <1>3, <2>1, OneHeader DEF InLength
  <2>3. QED
    BY <1>2, <1>3, <2>1, <2>2 DEF InLength
<1>6. CASE dstate = "header"
  <2>1. PICK y \in 1 .. Len(seen) : InPayload(y)
    BY <1>6 DEF IInv, CollectInv
  <2>2. y = z
    BY <1>3, <2>1, OneHeader DEF InPayload
  <2>3. PICK a : a = Announced(seen, z)
    OBVIOUS
  <2>4. a \in Nat
    <3>1. packetlen = LengthOf(seen, z) /\ packetlen \in 0 .. MaxPktLen
      BY <2>1, <2>2 DEF InPayload, IInv, TypeOK
    <3>2. QED
      BY <2>3, <3>1, SinkAssumption DEF Announced
  <2>5. /\ Len(packet) < a /\ byteIndex \in {0, 1}
        /\ Len(seen) = z + 4 + 2 * Len(packet) + byteIndex
    BY <2>1, <2>2, <2>3 DEF InPayload
  <2>6. Len(seen) = z + 4 + 2 * a
    BY <1>3, <2>3
  <2>7. QED
    BY <1>2, <2>4, <2>5, <2>6
<1>7. QED
  BY <1>1, <1>4, <1>5, <1>6

\* What the block gives up is no frame.
LEMMA GivenUp ==
  ASSUME IInv, NEW o \in Observations, Remember(o),
         SyncLost(o) \/ InvalidSymbol(o) \/ (LengthByte(o) /\ dstate' = "search")
  PROVE  \A z \in 1 .. Len(seen') : ~ IsFrame(seen', z)
<1> SUFFICES ASSUME NEW z \in 1 .. Len(seen'), IsFrame(seen', z) PROVE FALSE
  OBVIOUS
<1>1. seen \in Seq(Observations) /\ dstate \in {"search", "sync", "header"}
      /\ packetByte \in Bytes
  BY DEF IInv, TypeOK
<1>2. seen' = Append(seen, o)
  BY DEF Remember, Hunting, SyncLost, InvalidSymbol, LengthByte
<1>3. /\ Len(seen) \in Nat /\ Len(seen') = Len(seen) + 1 /\ seen'[Len(seen) + 1] = o
      /\ \A i \in 1 .. Len(seen) : seen'[i] = seen[i]
  BY <1>1, <1>2, Grows
<1>4. /\ Header(seen', z) /\ z + 4 < Len(seen')
      /\ \A i \in (z + 3) .. Len(seen') : Valid(seen'[i])
  BY DEF IsFrame
<1>5. CASE SyncLost(o)
  <2>1. dstate = "search" /\ locked
    BY <1>5 DEF SyncLost
  <2>2. \/ Preamble(seen, Len(seen)) \/ Preamble(seen, Len(seen) - 1)
    BY <2>1 DEF IInv, SearchInv
  <2>3. z + 1 \in 1 .. (Len(seen) - 1)
    BY <1>3, <1>4
  <2>4. Zero(seen[z + 1])
    BY <1>3, <2>2, <2>3 DEF Preamble
  <2>5. seen'[z + 1] = seen[z + 1]
    BY <1>3, <2>3
  <2>6. QED
    BY <1>4, <2>4, <2>5 DEF Header
<1>6. ASSUME dstate = "sync" \/ dstate = "header"
      PROVE  Header(seen, z) /\ z \in 1 .. Len(seen) /\ (dstate = "sync" => InLength(z))
  <2>1. PICK y \in 1 .. Len(seen) : /\ Header(seen, y)
                                    /\ (dstate = "sync" => InLength(y))
    BY <1>6 DEF IInv, CollectInv, InLength, InPayload
  <2>2. Header(seen', y)
    BY <1>1, <1>2, <2>1, HeaderStays
  <2>3. y = z
    BY <1>4, <2>2, OneHeader
  <2>4. QED
    BY <2>1, <2>3
<1>7. CASE InvalidSymbol(o)
  <2>1. Len(seen) + 1 \in (z + 3) .. Len(seen')
    BY <1>3, <1>4
  <2>2. Valid(o)
    BY <1>3, <1>4, <2>1
  <2>3. QED
    BY <1>7, <2>2 DEF InvalidSymbol
<1>8. CASE LengthByte(o)
  <2>1. InLength(z) /\ byteIndex = 1
    BY <1>6, <1>8 DEF LengthByte
  <2>2. QED
    BY <1>3, <1>4, <2>1 DEF InLength
<1>9. QED
  BY <1>5, <1>7, <1>8

\* The last byte of a frame publishes it.
LEMMA PublishedWithQuality ==
  ASSUME IInv, QualityInv, NEW o \in Observations, Remember(o), PayloadByte(o),
         Filled(payloadCnt'), IInv', NEW z \in 1 .. Len(seen'), IsFrame(seen', z)
  PROVE  out' = <<MessageOf(seen', z)>>
<1>1. seen \in Seq(Observations) /\ dstate = "header" /\ seen' = Append(seen, o)
  BY DEF IInv, TypeOK, PayloadByte, Remember, Hunting
<1>2. out' = <<[payload |-> packet', lqi |-> ScaledLqi(lqi')]>>
  BY DEF PayloadByte, Message
<1>3. PICK y \in 1 .. Len(seen') : IsFrame(seen', y) /\ out'[1].payload = PayloadOf(seen', y)
  BY <1>2 DEF IInv, OnlyFramesPublished
<1>4. Header(seen', z) /\ Header(seen', y)
  BY <1>3 DEF IsFrame
<1>5. PICK x \in 1 .. Len(seen) :
        /\ Header(seen, x) /\ lqi = Sum(Correlations(seen, x))
        /\ lqiCount = Len(Correlations(seen, x))
  BY <1>1 DEF QualityInv
<1>6. Header(seen', x)
  BY <1>1, <1>5, HeaderStays
<1>7. y = z /\ x = z
  <2>1. x \in Nat /\ y \in Nat /\ z \in Nat
    BY <1>3, <1>5
  <2>2. QED
    BY <1>4, <1>6, <2>1, OneHeader
<1>8. lqi' = Sum(Correlations(seen', z))
  <2>1. CountLqi(o) /\ x + 2 <= Len(seen)
    BY <1>5 DEF PayloadByte, Header
  <2>2. QED
    BY <1>1, <1>5, <1>7, <2>1, QualityGrows
<1>9. packet' = PayloadOf(seen', z)
  BY <1>2, <1>3, <1>7
<1>10. QED
  BY <1>2, <1>8, <1>9 DEF MessageOf, LqiOf

LEMMA QualityStep ==
  ASSUME IInv, QualityInv, NEW o \in Observations, Receive(o), Remember(o)
  PROVE  QualityInv'
<1>1. seen \in Seq(Observations)
  BY DEF IInv, TypeOK
<1>2. CASE NoZero(o) \/ FirstZero(o) \/ MoreZero(o) \/ FirstSfd(o) \/ SyncLost(o)
           \/ InvalidSymbol(o)
  BY <1>2 DEF NoZero, FirstZero, MoreZero, FirstSfd, SyncLost, InvalidSymbol, EnterSearch,
              QualityInv
<1>3. CASE SecondSfd(o)
  <2>1. /\ lqi' = 0 /\ lqiCount' = 0 /\ dstate' = "sync" /\ locked /\ dstate = "search"
        /\ packetByte # 0 /\ o[Sfd2] <= Threshold
    BY <1>3 DEF SecondSfd, EnterHaveSync
  <2>2. seen' = Append(seen, o)
    BY <2>1 DEF Remember, Hunting
  <2>3. /\ Len(seen) \in Nat /\ Len(seen') = Len(seen) + 1 /\ seen'[Len(seen) + 1] = o
        /\ \A i \in 1 .. Len(seen) : seen'[i] = seen[i]
    BY <1>1, <2>2, Grows
  <2>4. PICK z \in Int : z = Len(seen) - 1
    BY <2>3
  <2>5. /\ z \in 1 .. Len(seen) /\ Preamble(seen, z)
        /\ ~ Zero(seen[z + 1]) /\ seen[z + 1][Sfd1] <= Threshold /\ z + 1 = Len(seen)
    BY <2>1, <2>3, <2>4 DEF IInv, SearchInv, Preamble
  <2>6. Header(seen', z)
    <3>1. \A i \in 1 .. (z + 1) : seen'[i] = seen[i]
      BY <2>3, <2>5
    <3>2. seen'[z + 2] = o /\ z + 2 = Len(seen')
      BY <2>3, <2>5
    <3>3. 1 \in 1 .. (z + 1) /\ z + 1 \in 1 .. (z + 1) /\ \A i \in 1 .. z : i \in 1 .. (z + 1)
      BY <2>5
    <3>4. QED
      BY <2>1, <2>5, <3>1, <3>2, <3>3 DEF Preamble, Header
  <2>7. Correlations(seen', z) = << >>
    <3>1. Least(Len(seen') - (z + 2), LqiSamples) = 0
      BY <2>3, <2>5, SinkAssumption DEF Least
    <3>2. QED
      BY <3>1 DEF Correlations
  <2>8. z \in 1 .. Len(seen') /\ lqi' = Sum(Correlations(seen', z))
        /\ lqiCount' = Len(Correlations(seen', z))
    BY <2>1, <2>3, <2>5, <2>7, SumEmpty
  <2>9. QED
    BY <2>6, <2>8 DEF QualityInv
<1>4. CASE LowSymbol(o) \/ LengthByte(o) \/ PayloadByte(o)
  <2>1. dstate \in {"sync", "header"} /\ CountLqi(o)
    BY <1>4 DEF LowSymbol, LengthByte, PayloadByte
  <2>2. seen' = Append(seen, o)
    BY <2>1 DEF Remember, Hunting
  <2>3. PICK z \in 1 .. Len(seen) :
          /\ Header(seen, z) /\ lqi = Sum(Correlations(seen, z))
          /\ lqiCount = Len(Correlations(seen, z))
    BY <2>1 DEF QualityInv
  <2>4. z \in 1 .. Len(seen') /\ Header(seen', z)
    BY <1>1, <2>2, <2>3, HeaderStays
  <2>5. /\ lqi' = Sum(Correlations(seen', z))
        /\ lqiCount' = Len(Correlations(seen', z))
    <3>1. z + 2 <= Len(seen)
      BY <2>3 DEF Header
    <3>2. QED
      BY <1>1, <2>1, <2>2, <2>3, <3>1, QualityGrows
  <2>6. QED
    BY <2>4, <2>5 DEF QualityInv
<1>5. QED
  BY <1>2, <1>3, <1>4 DEF Receive, Search, Collect

LEMMA PublishedStep ==
  ASSUME IInv, QualityInv, NEW o \in Observations, Compare(o)
  PROVE  FramesPublished'
<1>1. IInv' /\ Receive(o) /\ Remember(o)
  BY CompareInv DEF Compare
<1>2. CASE dstate' # "search" \/ locked'
  <2>1. \A z \in 1 .. Len(seen') : ~ IsFrame(seen', z)
    <3>1. (IInv /\ (dstate # "search" \/ locked)
             => \A z \in 1 .. Len(seen) : ~ IsFrame(seen, z))'
      BY NoneComplete, PTL
    <3>2. QED
      BY <1>1, <1>2, <3>1
  <2>2. QED
    BY <2>1 DEF FramesPublished
<1>3. CASE dstate' = "search" /\ ~ locked'
  <2>1. CASE NoZero(o)
    <3>1. seen' = << >>
      BY <1>1, <2>1 DEF NoZero, Remember, Hunting
    <3>2. QED
      BY <3>1 DEF FramesPublished
  <2>2. CASE SyncLost(o) \/ InvalidSymbol(o) \/ LengthByte(o)
    <3>1. \A z \in 1 .. Len(seen') : ~ IsFrame(seen', z)
      BY <1>1, <1>3, <2>2, GivenUp
    <3>2. QED
      BY <3>1 DEF FramesPublished
  <2>3. CASE PayloadByte(o)
    <3>1. Filled(payloadCnt')
      BY <1>3, <2>3 DEF PayloadByte
    <3>2. QED
      BY <1>1, <2>3, <3>1, PublishedWithQuality DEF FramesPublished
  <2>4. ~ (FirstZero(o) \/ MoreZero(o) \/ FirstSfd(o) \/ SecondSfd(o) \/ LowSymbol(o))
    BY <1>3 DEF FirstZero, MoreZero, FirstSfd, SecondSfd, EnterHaveSync, LowSymbol
  <2>5. QED
    BY <1>1, <2>1, <2>2, <2>3, <2>4 DEF Receive, Search, Collect
<1>4. QED
  BY <1>2, <1>3

\* Every frame of the chip stream is published, at its last symbol, with its bytes and the
\* link quality of its own first symbols, whatever came before it (general_work, and the
\* sum and count that decode_chips keeps from symbol to symbol).
THEOREM FramesNotMissed == Spec => []FramesPublished
<1>1. Init => QualityInv /\ FramesPublished
  BY DEF Init, SinkInit, QualityInv, FramesPublished
<1>2. IInv /\ QualityInv /\ FramesPublished /\ [Next]_vars => (QualityInv /\ FramesPublished)'
  <2> SUFFICES ASSUME IInv, QualityInv, FramesPublished, [Next]_vars
               PROVE  (QualityInv /\ FramesPublished)'
    OBVIOUS
  <2>1. CASE UNCHANGED vars
    BY <2>1 DEF vars, sinkVars, QualityInv, FramesPublished
  <2>2. ASSUME NEW o \in Observations, Compare(o) PROVE QualityInv' /\ FramesPublished'
    BY <2>2, QualityStep, PublishedStep DEF Compare
  <2>3. QED
    BY <2>1, <2>2 DEF Next
<1>3. QED
  BY <1>1, <1>2, SinkInvariance, PTL DEF Spec

-----------------------------------------------------------------------------
(***************************************************************************)
(* The link. A frame as symbols, and what the sink makes of a symbol that  *)
(* is not disturbed.                                                       *)
(***************************************************************************)

\* Two symbols hold a byte.
LEMMA TwoHalves ==
  ASSUME NEW b \in Bytes
  PROVE  /\ b % Radix \in Symbols /\ b \div Radix \in Symbols
         /\ (b % Radix) + Radix * (b \div Radix) = b
<1>1. Radix \in Nat /\ Radix >= 2 /\ b \in Nat /\ b <= Radix * Radix - 1
  BY RadixAssumption DEF Bytes
<1>2. PICK q : q = b \div Radix
  OBVIOUS
<1>3. PICK r : r = b % Radix
  OBVIOUS
<1>4. q \in Int /\ r \in 0 .. (Radix - 1) /\ b = Radix * q + r
  BY <1>1, <1>2, <1>3
<1>5. q >= 0
  BY <1>1, <1>2
<1>6. ~ (q >= Radix)
  <2>1. SUFFICES ASSUME q >= Radix PROVE FALSE
    OBVIOUS
  <2>2. Radix * q >= Radix * Radix
    BY <1>1, <1>4, <2>1
  <2>3. QED
    BY <1>1, <1>4, <2>2
<1>7. QED
  BY <1>1, <1>2, <1>3, <1>4, <1>5, <1>6 DEF Symbols

\* The body of a frame that fits is its length and its payload.
LEMMA BodyOf ==
  ASSUME NEW p \in Payloads, FramesFit
  PROVE  /\ Len(p) \in Nat \ {0} /\ Len(p) \in Bytes /\ Len(p) <= MaxPktLen
         /\ Body(p)[1] = Len(p)
         /\ \A k \in 1 .. Len(p) : Body(p)[k + 1] = p[k] /\ p[k] \in Bytes
<1>1. p \in Seq(Bytes) /\ p # << >> /\ Len(p) <= MaxPktLen
  BY PayloadsAssumption DEF FramesFit
<1>2. Len(p) \in Nat \ {0}
  BY <1>1, EmptySeq, LenProperties
<1>3. Len(p) \in Bytes
  BY <1>1, <1>2, AirAssumption, SinkAssumption, RadixAssumption DEF Bytes
<1>4. PICK b : b = <<Len(p)>>
  OBVIOUS
<1>5. b \in Seq(Bytes) /\ Len(b) = 1 /\ b[1] = Len(p)
  BY <1>3, <1>4
<1>6. PICK c : c = Body(p)
  OBVIOUS
<1>7. c = b \o p
  BY <1>4, <1>6 DEF Body, LengthField
<1>8. \A i \in 1 .. (Len(p) + 1) : c[i] = IF i <= 1 THEN b[i] ELSE p[i - 1]
  <2>1. \A i \in 1 .. (Len(b) + Len(p)) :
          c[i] = IF i <= Len(b) THEN b[i] ELSE p[i - Len(b)]
    BY <1>1, <1>5, <1>7, ConcatProperties, Zenon
  <2>2. QED
    BY <1>2, <1>5, <2>1
<1>11. c[1] = b[1] /\ \A i \in 2 .. (Len(p) + 1) : c[i] = p[i - 1]
  BY <1>2, <1>8
<1>9. ASSUME NEW k \in 1 .. Len(p) PROVE c[k + 1] = p[k] /\ p[k] \in Bytes
  <2>1. k + 1 \in 2 .. (Len(p) + 1) /\ (k + 1) - 1 = k
    BY <1>2
  <2>2. c[k + 1] = p[(k + 1) - 1]
    BY <1>11, <2>1
  <2>3. QED
    BY <1>1, <2>1, <2>2, ElementOfSeq
<1>10. QED
  BY <1>1, <1>2, <1>3, <1>5, <1>6, <1>11, <1>9

\* The symbols of the length and of byte k of the payload.
LEMMA BodySymbols ==
  ASSUME NEW p \in Payloads, FramesFit
  PROVE  /\ SymbolOf(p, NumZeros + 3) = Len(p) % Radix
         /\ SymbolOf(p, NumZeros + 4) = Len(p) \div Radix
         /\ \A k \in 1 .. Len(p) :
              /\ SymbolOf(p, NumZeros + 3 + 2 * k) = p[k] % Radix
              /\ SymbolOf(p, NumZeros + 4 + 2 * k) = p[k] \div Radix
<1>1. NumZeros \in Nat /\ Len(p) \in Nat
  BY LinkAssumption, BodyOf
<1>2. ASSUME NEW k \in 0 .. Len(p)
      PROVE  /\ SymbolOf(p, NumZeros + 3 + 2 * k) = Body(p)[k + 1] % Radix
             /\ SymbolOf(p, NumZeros + 4 + 2 * k) = Body(p)[k + 1] \div Radix
  <2>1. PICK i : i = NumZeros + 3 + 2 * k
    OBVIOUS
  <2>2. i \in Nat /\ i > NumZeros + 2 /\ i - NumZeros - 3 = 2 * k
        /\ (i + 1) - NumZeros - 3 = 2 * k + 1 /\ NumZeros + 4 + 2 * k = i + 1
    BY <1>1, <2>1
  <2>3. (2 * k) \div 2 = k /\ (2 * k) % 2 = 0
        /\ (2 * k + 1) \div 2 = k /\ (2 * k + 1) % 2 = 1
    OBVIOUS
  <2>4. SymbolOf(p, i) = Body(p)[k + 1] % Radix
    BY <1>1, <2>2, <2>3 DEF SymbolOf
  <2>5. SymbolOf(p, i + 1) = Body(p)[k + 1] \div Radix
    BY <1>1, <2>2, <2>3 DEF SymbolOf
  <2>6. QED
    BY <2>1, <2>2, <2>4, <2>5
<1>3. 0 \in 0 .. Len(p) /\ NumZeros + 3 + 2 * 0 = NumZeros + 3
      /\ NumZeros + 4 + 2 * 0 = NumZeros + 4 /\ 0 + 1 = 1
  BY <1>1
<1>4. SymbolOf(p, NumZeros + 3) = Len(p) % Radix /\ SymbolOf(p, NumZeros + 4) = Len(p) \div Radix
  BY <1>2, <1>3, BodyOf
<1>5. ASSUME NEW k \in 1 .. Len(p)
      PROVE  /\ SymbolOf(p, NumZeros + 3 + 2 * k) = p[k] % Radix
             /\ SymbolOf(p, NumZeros + 4 + 2 * k) = p[k] \div Radix
  <2>1. k \in 0 .. Len(p)
    BY <1>1
  <2>2. QED
    BY <1>2, <2>1, BodyOf
<1>6. QED
  BY <1>4, <1>5

LEMMA SymbolTypes ==
  ASSUME NEW p \in Payloads, FramesFit, NEW i \in 1 .. SymbolsOf(p)
  PROVE  SymbolOf(p, i) \in Symbols
<1>1. NumZeros \in Nat /\ Len(p) \in Nat /\ Len(p) \in Bytes
  BY LinkAssumption, BodyOf
<1>2. CASE i <= NumZeros + 2
  BY <1>1, <1>2, ZeroByte, SfdAssumption DEF SymbolOf
<1>3. CASE i > NumZeros + 2
  <2>1. PICK k \in 0 .. Len(p) : i = NumZeros + 3 + 2 * k \/ i = NumZeros + 4 + 2 * k
    <3>1. PICK k : k = (i - NumZeros - 3) \div 2
      OBVIOUS
    <3>2. k \in 0 .. Len(p) /\ (i = NumZeros + 3 + 2 * k \/ i = NumZeros + 4 + 2 * k)
      BY <1>1, <1>3, <3>1 DEF SymbolsOf
    <3>3. QED
      BY <3>2
  <2>2. CASE k = 0
    <3>1. SymbolOf(p, i) \in {Len(p) % Radix, Len(p) \div Radix}
      BY <1>1, <2>1, <2>2, BodySymbols
    <3>2. QED
      BY <1>1, <3>1, TwoHalves
  <2>3. CASE k # 0
    <3>1. k \in 1 .. Len(p)
      BY <1>1, <2>3
    <3>2. p[k] \in Bytes
      BY <3>1, BodyOf
    <3>3. SymbolOf(p, i) \in {p[k] % Radix, p[k] \div Radix}
      BY <2>1, <3>1, BodySymbols
    <3>4. QED
      BY <3>2, <3>3, TwoHalves
  <2>4. QED
    BY <2>2, <2>3
<1>4. QED
  BY <1>1, <1>2, <1>3

\* An undisturbed symbol is told from any other.
LEMMA CleanMatch ==
  ASSUME NEW s \in Symbols
  PROVE  /\ BestMatch(Clean(s)) = s /\ Valid(Clean(s))
         /\ \A r \in Symbols : Clean(s)[r] = IF r = s THEN 0 ELSE Chips
<1>1. /\ \A r \in Symbols : Clean(s)[r] = IF r = s THEN 0 ELSE Chips
      /\ Chips \in Nat /\ 0 < Chips /\ 0 < Threshold /\ Symbols \subseteq Nat
  BY AirAssumption, SinkAssumption, RadixAssumption DEF Clean, Symbols
<1>2. Nearest(Clean(s), s)
  BY <1>1 DEF Nearest
<1>3. ASSUME NEW t \in Symbols, Nearest(Clean(s), t) PROVE t = s
  BY <1>1, <1>3 DEF Nearest
<1>4. BestMatch(Clean(s)) = s
  BY <1>2, <1>3 DEF BestMatch, Nearest
<1>5. QED
  BY <1>1, <1>4 DEF Valid

LEMMA SilenceMatch ==
  /\ BestMatch(Silence) \in Symbols /\ ~ Valid(Silence)
  /\ \A r \in Symbols : Silence[r] = Chips
<1>1. /\ \A r \in Symbols : Silence[r] = Chips
      /\ Chips \in Nat /\ Threshold < Chips /\ Symbols \subseteq Nat /\ 0 \in Symbols
  BY AirAssumption, SinkAssumption, RadixAssumption DEF Silence, Symbols
<1>2. Nearest(Silence, 0)
  BY <1>1 DEF Nearest, Symbols
<1>3. BestMatch(Silence) \in Symbols
  BY <1>1, <1>2 DEF BestMatch, Nearest
<1>4. Silence[BestMatch(Silence)] = Chips
  BY <1>1, <1>3
<1>5. ~ Valid(Silence)
  BY <1>1, <1>4, SinkAssumption DEF Valid
<1>6. QED
  BY <1>1, <1>3, <1>5

-----------------------------------------------------------------------------
(***************************************************************************)
(* A step of the sink on the link.                                         *)
(***************************************************************************)

\* What a searching sink makes of an undisturbed symbol.
LEMMA SearchStep ==
  ASSUME SinkTypes, dstate = "search", NEW s \in Symbols, Receive(Clean(s))
  PROVE  /\ out' = << >>
         /\ ~locked /\ s = 0 => dstate' = "search" /\ locked' /\ packetByte' = 0
         /\ ~locked /\ s # 0 => dstate' = "search" /\ ~locked' /\ packetByte' = 0
         /\ locked /\ packetByte = 0 /\ s = 0 =>
              dstate' = "search" /\ locked' /\ packetByte' = 0
         /\ locked /\ packetByte = 0 /\ s = Sfd1 =>
              dstate' = "search" /\ locked' /\ packetByte' = Sfd1 * Radix
         /\ locked /\ packetByte = 0 /\ s \notin {0, Sfd1} =>
              dstate' = "search" /\ ~locked' /\ packetByte' = 0
         /\ locked /\ packetByte # 0 /\ s = Sfd2 =>
              dstate' = "sync" /\ locked' /\ byteIndex' = 0 /\ packet' = << >>
         /\ locked /\ packetByte # 0 /\ s # Sfd2 =>
              dstate' = "search" /\ ~locked' /\ packetByte' = 0
<1>1. PICK o : o = Clean(s)
  OBVIOUS
<1>2. /\ 0 \in Symbols /\ Sfd1 \in Symbols /\ Sfd2 \in Symbols /\ Sfd1 # 0
      /\ Threshold \in Nat /\ Chips \in Nat /\ 0 < Threshold /\ Threshold < Chips
  BY ZeroByte, SfdAssumption, SinkAssumption, AirAssumption
<1>3. \A r \in Symbols : o[r] = IF r = s THEN 0 ELSE Chips
  BY <1>1, CleanMatch
<1>4. o[0] = (IF s = 0 THEN 0 ELSE Chips) /\ o[Sfd1] = (IF s = Sfd1 THEN 0 ELSE Chips)
      /\ o[Sfd2] = (IF s = Sfd2 THEN 0 ELSE Chips)
  BY <1>2, <1>3
<1>5. Search(o)
  BY <1>1 DEF Receive, Collect, InvalidSymbol, LowSymbol, LengthByte, PayloadByte
<1>6. (locked = FALSE \/ locked = TRUE) /\ (~locked => packetByte = 0)
  BY DEF SinkTypes
<1>7. CASE NoZero(o)
  BY <1>2, <1>4, <1>6, <1>7 DEF NoZero
<1>8. CASE FirstZero(o)
  BY <1>2, <1>4, <1>6, <1>8 DEF FirstZero
<1>9. CASE MoreZero(o)
  BY <1>2, <1>4, <1>6, <1>9 DEF MoreZero
<1>10. CASE FirstSfd(o)
  BY <1>2, <1>4, <1>6, <1>10 DEF FirstSfd
<1>11. CASE SecondSfd(o)
  BY <1>2, <1>4, <1>6, <1>11 DEF SecondSfd, EnterHaveSync
<1>12. CASE SyncLost(o)
  BY <1>2, <1>4, <1>6, <1>12 DEF SyncLost, EnterSearch
<1>13. QED
  BY <1>5, <1>7, <1>8, <1>9, <1>10, <1>11, <1>12 DEF Search

\* What a collecting sink makes of an undisturbed symbol.
LEMMA CollectStep ==
  ASSUME SinkTypes, dstate # "search", NEW s \in Symbols, Receive(Clean(s)),
         NEW v, v = packetByte + Radix * s
  PROVE  /\ byteIndex = 0 =>
              /\ dstate' = dstate /\ byteIndex' = 1 /\ packetByte' = s
              /\ packet' = packet /\ packetlen' = packetlen
              /\ payloadCnt' = payloadCnt /\ out' = << >>
         /\ byteIndex = 1 /\ dstate = "sync" =>
              /\ v <= MaxPktLen =>
                   /\ dstate' = "header" /\ byteIndex' = 0 /\ packetlen' = v
                   /\ payloadCnt' = 0 /\ packet' = packet
              /\ ~ (v <= MaxPktLen) => dstate' = "search" /\ ~locked' /\ packetByte' = 0
              /\ out' = << >>
         /\ byteIndex = 1 /\ dstate = "header" =>
              /\ packet' = Append(packet, v) /\ payloadCnt' = payloadCnt + 1
              /\ packetlen' = packetlen /\ byteIndex' = 0
              /\ payloadCnt + 1 >= packetlen =>
                   /\ dstate' = "search" /\ ~locked' /\ packetByte' = 0
                   /\ out' = <<Message(packet', lqi')>>
              /\ ~ (payloadCnt + 1 >= packetlen) => dstate' = "header" /\ out' = << >>
<1>1. PICK o : o = Clean(s)
  OBVIOUS
<1>2. BestMatch(o) = s /\ Valid(o)
  BY <1>1, CleanMatch
<1>3. /\ byteIndex \in {0, 1} /\ dstate \in {"sync", "header"}
      /\ byteIndex = 1 => Assemble(o) = v
      /\ byteIndex = 0 => Assemble(o) = s
  BY <1>2 DEF SinkTypes, Assemble
<1>4. LowSymbol(o) \/ LengthByte(o) \/ PayloadByte(o)
  BY <1>1, <1>2, <1>3 DEF Receive, Search, NoZero, FirstZero, MoreZero, FirstSfd,
     SecondSfd, SyncLost, Collect, InvalidSymbol
<1>5. CASE LowSymbol(o)
  BY <1>3, <1>5 DEF LowSymbol
<1>6. CASE LengthByte(o)
  BY <1>3, <1>6 DEF LengthByte, EnterHaveHeader, EnterSearch, LengthAccepted
<1>7. CASE PayloadByte(o)
  BY <1>3, <1>7 DEF PayloadByte, EnterSearch, Filled
<1>8. QED
  BY <1>4, <1>5, <1>6, <1>7

\* Silence sends the sink back to its search.
LEMMA SilentStep ==
  ASSUME SinkTypes, Receive(Silence)
  PROVE  dstate' = "search" /\ ~locked' /\ packetByte' = 0 /\ out' = << >>
<1>1. PICK o : o = Silence
  OBVIOUS
<1>2. /\ 0 \in Symbols /\ Sfd1 \in Symbols /\ Sfd2 \in Symbols
      /\ Threshold \in Nat /\ Chips \in Nat /\ Threshold < Chips
  BY ZeroByte, SfdAssumption, SinkAssumption, AirAssumption
<1>3. ~ Valid(o) /\ o[0] = Chips /\ o[Sfd1] = Chips /\ o[Sfd2] = Chips
  BY <1>1, <1>2, SilenceMatch
<1>4. NoZero(o) \/ SyncLost(o) \/ InvalidSymbol(o)
  BY <1>1, <1>2, <1>3 DEF Receive, Search, Collect, FirstZero, MoreZero, FirstSfd,
     SecondSfd, LowSymbol, LengthByte, PayloadByte
<1>5. QED
  BY <1>4 DEF NoZero, SyncLost, InvalidSymbol, EnterSearch, SinkTypes

\* Whatever the sink receives.
LEMMA SinkTypesStep ==
  ASSUME SinkTypes, NEW o, BestMatch(o) \in Symbols, Receive(o)
  PROVE  SinkTypes'
<1> USE DEF SinkTypes
<1>1. /\ MaxPktLen \in Nat \ {0} /\ Symbols \subseteq Nat /\ Radix \in Nat
      /\ packetByte \in Nat => packetByte + Radix * BestMatch(o) \in Nat
  BY SinkAssumption, RadixAssumption DEF Symbols
<1>2. CASE NoZero(o)
  BY <1>2 DEF NoZero
<1>3. CASE FirstZero(o)
  BY <1>3 DEF FirstZero
<1>4. CASE MoreZero(o)
  BY <1>4 DEF MoreZero
<1>5. CASE FirstSfd(o)
  BY <1>5 DEF FirstSfd
<1>6. CASE SecondSfd(o)
  BY <1>6 DEF SecondSfd, EnterHaveSync
<1>7. CASE SyncLost(o)
  BY <1>7 DEF SyncLost, EnterSearch
<1>8. CASE InvalidSymbol(o)
  BY <1>8 DEF InvalidSymbol, EnterSearch
<1>9. CASE LowSymbol(o)
  BY <1>9 DEF LowSymbol, Assemble
<1>10. CASE LengthByte(o)
  <2>1. dstate = "sync" /\ byteIndex = 1 /\ packetByte \in Symbols
    BY <1>10 DEF LengthByte
  <2>2. PICK v \in Nat : v = Assemble(o)
    BY <1>1, <2>1 DEF Assemble
  <2>3. CASE v <= MaxPktLen
    <3>1. /\ dstate' = "header" /\ byteIndex' = 0 /\ packetlen' = v /\ payloadCnt' = 0
          /\ locked' = locked
      BY <1>10, <2>2, <2>3 DEF LengthByte, LengthAccepted, EnterHaveHeader
    <3>2. packetlen' \in 0 .. MaxPktLen
      BY <1>1, <2>2, <2>3, <3>1
    <3>3. QED
      BY <3>1, <3>2
  <2>4. CASE ~ (v <= MaxPktLen)
    BY <1>10, <2>2, <2>4 DEF LengthByte, LengthAccepted, EnterSearch
  <2>5. QED
    BY <2>3, <2>4
<1>11. CASE PayloadByte(o)
  <2>1. dstate = "header" /\ payloadCnt' = payloadCnt + 1 /\ byteIndex' = 0
        /\ packetlen' = packetlen
    BY <1>11 DEF PayloadByte
  <2>2. CASE Filled(payloadCnt')
    <3>1. dstate' = "search" /\ ~locked' /\ locked' \in BOOLEAN /\ packetByte' = 0
      BY <1>11, <2>2 DEF PayloadByte, EnterSearch
    <3>2. payloadCnt' \in Nat
      BY <2>1
    <3>3. QED
      BY <2>1, <3>1, <3>2
  <2>3. CASE ~ Filled(payloadCnt')
    <3>1. dstate' = dstate /\ locked' = locked
      BY <1>11, <2>3 DEF PayloadByte
    <3>2. payloadCnt + 1 < packetlen
      BY <1>1, <2>1, <2>3 DEF Filled
    <3>3. QED
      BY <1>1, <2>1, <3>1, <3>2
  <2>4. QED
    BY <2>2, <2>3
<1>12. QED
  BY <1>2, <1>3, <1>4, <1>5, <1>6, <1>7, <1>8, <1>9, <1>10, <1>11
     DEF Receive, Search, Collect

LEMMA CleanTypesStep ==
  ASSUME SinkTypes, NEW s \in Symbols, Receive(Clean(s))
  PROVE  SinkTypes'
BY CleanMatch, SinkTypesStep

\* A sink in step reads the next symbol of the frame, and publishes the frame with
\* the last one.
LEMMA InStepStep ==
  ASSUME SinkTypes, FramesFit, frame \in Payloads, pos \in Nat,
         pos < SymbolsOf(frame), InStep,
         Receive(Clean(SymbolOf(frame, pos + 1))), pos' = pos + 1, frame' = frame
  PROVE  /\ InStep'
         /\ pos' = SymbolsOf(frame) => Delivered
         /\ pos' # SymbolsOf(frame) => out' = << >>
<1>1. PICK p \in Payloads : p = frame /\ p = frame'
  OBVIOUS
<1>2. PICK n : n = NumZeros
  OBVIOUS
<1>3. PICK l : l = Len(p)
  OBVIOUS
<1>4. /\ n \in Nat /\ n >= 2 /\ l \in Nat \ {0} /\ l <= MaxPktLen /\ MaxPktLen \in Nat
      /\ SymbolsOf(p) = n + 4 + 2 * l
      /\ Sfd1 # 0 /\ Sfd1 * Radix # 0
  BY <1>2, <1>3, LinkAssumption, AirAssumption, SinkAssumption, BodyOf, SfdAssumption,
     DelimiterIsNoZero DEF SymbolsOf
<1>5. PICK s \in Symbols : s = SymbolOf(p, pos + 1)
  BY <1>1, <1>4, SymbolTypes
<1>6. Receive(Clean(s))
  BY <1>1, <1>5
<1>7. /\ SymbolsOf(frame) = n + 4 + 2 * l /\ SymbolsOf(frame') = n + 4 + 2 * l
      /\ Len(frame) = l /\ Len(frame') = l /\ SymbolOf(frame', pos') = s
  BY <1>1, <1>3, <1>4, <1>5
<1>8. CASE pos < n
  <2>1. s = 0 /\ dstate = "search" /\ (pos > 0 => packetByte = 0)
    BY <1>1, <1>2, <1>4, <1>5, <1>8 DEF InStep, SymbolOf
  <2>2. /\ out' = << >> /\ dstate' = "search"
        /\ locked /\ packetByte # 0 => packetByte' = 0
        /\ ~ (locked /\ packetByte # 0) => locked' /\ packetByte' = 0
    <3>1. s # Sfd2
      BY <2>1, AirAssumption
    <3>2. locked = TRUE \/ locked = FALSE
      BY DEF SinkTypes
    <3>3. QED
      BY <1>6, <2>1, <3>1, <3>2, SearchStep
  <2>3. InStep'
    BY <1>2, <1>4, <1>7, <1>8, <2>1, <2>2 DEF InStep
  <2>4. QED
    BY <1>4, <1>7, <1>8, <2>2, <2>3
<1>9. CASE pos = n
  <2>1. s = Sfd1 /\ dstate = "search" /\ locked /\ packetByte = 0
    BY <1>1, <1>2, <1>4, <1>5, <1>9 DEF InStep, SymbolOf
  <2>2. out' = << >> /\ dstate' = "search" /\ locked' /\ packetByte' = Sfd1 * Radix
    BY <1>6, <2>1, SearchStep
  <2>3. InStep'
    BY <1>2, <1>4, <1>7, <1>9, <2>2 DEF InStep
  <2>4. QED
    BY <1>4, <1>7, <1>9, <2>2, <2>3
<1>10. CASE pos = n + 1
  <2>1. s = Sfd2 /\ dstate = "search" /\ locked /\ packetByte # 0
    BY <1>1, <1>2, <1>4, <1>5, <1>10 DEF InStep, SymbolOf
  <2>2. out' = << >> /\ dstate' = "sync" /\ byteIndex' = 0 /\ packet' = << >>
    BY <1>6, <2>1, SearchStep
  <2>3. InStep'
    BY <1>2, <1>4, <1>7, <1>10, <2>2 DEF InStep
  <2>4. QED
    BY <1>4, <1>7, <1>10, <2>2, <2>3
<1>11. CASE pos = n + 2
  <2>1. dstate = "sync" /\ dstate # "search" /\ byteIndex = 0 /\ packet = << >>
    BY <1>2, <1>4, <1>11 DEF InStep
  <2>2. /\ out' = << >> /\ dstate' = "sync" /\ byteIndex' = 1 /\ packet' = << >>
        /\ packetByte' = s
    BY <1>6, <2>1, CollectStep
  <2>3. InStep'
    BY <1>2, <1>4, <1>7, <1>11, <2>2 DEF InStep
  <2>4. QED
    BY <1>4, <1>7, <1>11, <2>2, <2>3
<1>12. CASE pos = n + 3
  <2>1. dstate = "sync" /\ dstate # "search" /\ byteIndex = 1 /\ packet = << >>
        /\ packetByte = SymbolOf(p, n + 3)
    BY <1>1, <1>2, <1>4, <1>12 DEF InStep
  <2>2. packetByte = l % Radix /\ s = l \div Radix
    BY <1>1, <1>2, <1>3, <1>4, <1>5, <1>12, <2>1, BodySymbols
  <2>3. packetByte + Radix * s = l
    BY <1>3, <2>2, BodyOf, TwoHalves
  <2>4. /\ out' = << >> /\ dstate' = "header" /\ byteIndex' = 0 /\ packet' = << >>
        /\ packetlen' = l /\ payloadCnt' = 0
    BY <1>4, <1>6, <2>1, <2>3, CollectStep
  <2>5. packet' \in Seq(Bytes) /\ Len(packet') = 0
    BY <2>4, EmptySeq
  <2>6. InStep'
    BY <1>2, <1>4, <1>7, <1>12, <2>4, <2>5 DEF InStep
  <2>7. QED
    BY <1>4, <1>7, <1>12, <2>4, <2>6
<1>13. CASE pos >= n + 4
  <2>1. /\ dstate = "header" /\ dstate # "search" /\ packetlen = l
        /\ packet \in Seq(Bytes) /\ payloadCnt = Len(packet) /\ byteIndex \in {0, 1}
        /\ pos = n + 4 + 2 * Len(packet) + byteIndex
        /\ \A i \in 1 .. Len(packet) : packet[i] = p[i]
        /\ byteIndex = 1 => packetByte = SymbolOf(p, pos)
    BY <1>1, <1>2, <1>7, <1>13 DEF InStep
  <2>2. PICK k \in Nat : k = Len(packet)
    BY <2>1, LenProperties
  <2>3. k < l /\ k + 1 \in 1 .. l
    BY <1>4, <1>7, <2>1, <2>2
  <2>4. PICK b \in Bytes : b = p[k + 1]
    BY <1>3, <2>3, BodyOf
  <2>5. CASE byteIndex = 0
    <3>1. /\ out' = << >> /\ dstate' = "header" /\ byteIndex' = 1 /\ packet' = packet
          /\ packetByte' = s /\ packetlen' = l /\ payloadCnt' = payloadCnt
      BY <1>6, <2>1, <2>5, CollectStep
    <3>2. pos' = n + 4 + 2 * k + 1 /\ pos' < n + 4 + 2 * l
      BY <2>1, <2>2, <2>3, <2>5, <1>4
    <3>3. InStep'
      BY <1>1, <1>2, <1>4, <1>7, <2>1, <2>2, <3>1, <3>2 DEF InStep
    <3>4. QED
      BY <1>4, <1>7, <3>1, <3>2, <3>3
  <2>6. CASE byteIndex = 1
    <3>1. pos = n + 5 + 2 * k /\ pos = n + 3 + 2 * (k + 1) /\ pos + 1 = n + 4 + 2 * (k + 1)
      BY <1>4, <2>1, <2>2, <2>6
    <3>2. packetByte = b % Radix /\ s = b \div Radix
      BY <1>2, <1>3, <1>5, <2>1, <2>3, <2>4, <2>6, <3>1, BodySymbols
    <3>3. packetByte + Radix * s = b
      BY <3>2, TwoHalves
    <3>4. /\ packet' = Append(packet, b) /\ payloadCnt' = k + 1
          /\ packetlen' = l /\ byteIndex' = 0
          /\ k + 1 >= l => dstate' = "search" /\ out' = <<Message(packet', lqi')>>
          /\ ~ (k + 1 >= l) => dstate' = "header" /\ out' = << >>
      BY <1>6, <2>1, <2>2, <2>6, <3>3, CollectStep
    <3>5. /\ packet' \in Seq(Bytes) /\ Len(packet') = k + 1
          /\ \A i \in 1 .. (k + 1) : packet'[i] = p[i]
      <4>1. PICK c \in Seq(Bytes) : c = packet
        BY <2>1
      <4>2. PICK e \in Seq(Bytes) : e = Append(c, b)
        <5>1. Append(c, b) \in Seq(Bytes)
          BY AppendProperties
        <5>2. QED
          BY <5>1, Zenon
      <4>3. Len(e) = k + 1 /\ e[k + 1] = b /\ \A i \in 1 .. k : e[i] = c[i]
        BY <2>2, <4>1, <4>2, AppendProperties
      <4>4. \A i \in 1 .. (k + 1) : e[i] = p[i]
        BY <2>1, <2>2, <2>4, <4>1, <4>3
      <4>5. QED
        BY <3>4, <4>1, <4>2, <4>3, <4>4
    <3>6. CASE k + 1 >= l
      <4>1. k + 1 = l /\ pos' = n + 4 + 2 * l
        BY <1>4, <2>3, <3>1, <3>6
      <4>2. packet' = p
        <5>1. p \in Seq(Bytes)
          BY PayloadsAssumption
        <5>2. PICK e \in Seq(Bytes) : e = packet'
          BY <3>5
        <5>3. QED
          BY <1>3, <3>5, <4>1, <5>1, <5>2, SeqEqual
      <4>3. out' = <<Message(p, lqi')>>
        BY <3>4, <3>6, <4>2
      <4>4. Delivered
        BY <1>1, <4>3 DEF Delivered, Message
      <4>5. InStep'
        BY <1>2, <1>4, <1>7, <3>4, <3>6, <4>1 DEF InStep
      <4>6. QED
        BY <1>7, <4>1, <4>4, <4>5
    <3>7. CASE ~ (k + 1 >= l)
      <4>1. pos' = n + 4 + 2 * (k + 1) /\ pos' < n + 4 + 2 * l
        BY <1>4, <2>3, <3>1, <3>7
      <4>2. InStep'
        BY <1>1, <1>2, <1>4, <1>7, <3>4, <3>5, <3>7, <4>1 DEF InStep
      <4>3. QED
        BY <1>4, <1>7, <3>4, <3>7, <4>1, <4>2
    <3>8. QED
      BY <3>6, <3>7
  <2>7. QED
    BY <2>1, <2>5, <2>6
<1>14. QED
  BY <1>4, <1>8, <1>9, <1>10, <1>11, <1>12, <1>13

-----------------------------------------------------------------------------
(***************************************************************************)
(* Undisturbed frames arrive.                                              *)
(***************************************************************************)
LinkBase == SinkTypes /\ AirTypes /\ Followed

\* A frame has symbols behind its zeros.
LEMMA FrameLength ==
  ASSUME NEW p \in Payloads, FramesFit
  PROVE  SymbolsOf(p) \in Nat /\ SymbolsOf(p) >= NumZeros + 6 /\ NumZeros \in Nat /\ NumZeros >= 2
BY BodyOf, LinkAssumption, AirAssumption DEF SymbolsOf

\* A searching sink is in step with a frame that has not begun.
LEMMA InStepAtStart ==
  ASSUME FramesFit, frame \in Payloads, pos = 0, dstate = "search"
  PROVE  InStep
BY FrameLength DEF InStep

LEMMA LinkBaseInit == FramesFit /\ LinkInit => LinkBase
<1> SUFFICES ASSUME FramesFit, LinkInit PROVE LinkBase
  OBVIOUS
<1>1. SinkTypes
  <2>1. packetlen \in 0 .. MaxPktLen /\ packetByte \in {0, Sfd1 * Radix}
    BY SinkAssumption DEF LinkInit, SinkInit
  <2>2. QED
    BY <2>1 DEF LinkInit, SinkInit, SinkTypes
<1>2. AirTypes
  BY FrameLength, LinkAssumption DEF LinkInit, AirTypes
<1>3. Followed
  BY DEF LinkInit, Followed
<1>4. QED
  BY <1>1, <1>2, <1>3 DEF LinkBase

\* A symbol that goes out undisturbed.
SentClean ==
  /\ Receive(Clean(SymbolOf(frame, pos + 1)))
  /\ spoilt' = spoilt /\ clean' = clean

LEMMA SinkTypesOfSend ==
  ASSUME FramesFit, SinkTypes, AirTypes, SendSymbol
  PROVE  /\ SinkTypes'
         /\ \/ SentClean
            \/ clean' = FALSE /\ spoilt' = spoilt + 1
<1>1. CASE SentClean
  <2>1. frame \in Payloads /\ pos + 1 \in 1 .. SymbolsOf(frame)
    BY FrameLength DEF AirTypes, SendSymbol
  <2>2. SymbolOf(frame, pos + 1) \in Symbols
    BY <2>1, SymbolTypes
  <2>3. QED
    BY <1>1, <2>2, CleanTypesStep DEF SentClean
<1>2. CASE spoilt' = spoilt + 1 /\ clean' = FALSE /\ \E o \in Observations : Receive(o)
  BY <1>2, BestMatchExists, SinkTypesStep
<1>3. QED
  BY <1>1, <1>2 DEF SendSymbol, SentClean

LEMMA AirTypesStep ==
  ASSUME FramesFit, AirTypes, LinkNext
  PROVE  AirTypes'
<1> USE DEF AirTypes
<1>1. CASE SendSymbol
  <2>1. pos' = pos + 1 /\ pos < SymbolsOf(frame) /\ frame' = frame
    BY <1>1 DEF SendSymbol
  <2>2. pos' \in 0 .. SymbolsOf(frame')
    BY <2>1, FrameLength
  <2>3. spoilt' \in Nat /\ clean' \in BOOLEAN
    <3>1. \/ spoilt' = spoilt /\ clean' = clean
          \/ spoilt' = spoilt + 1 /\ clean' = FALSE
      BY <1>1 DEF SendSymbol
    <3>2. spoilt' \in Nat
      BY <3>1
    <3>3. clean' \in BOOLEAN
      BY <3>1, Zenon
    <3>4. QED
      BY <3>2, <3>3
  <2>4. lost' \in 0 .. MaxLost
    BY <1>1, LinkAssumption DEF SendSymbol, Least
  <2>5. ready' \in BOOLEAN
    BY <1>1 DEF SendSymbol
  <2>6. QED
    BY <2>1, <2>2, <2>3, <2>4, <2>5
<1>2. CASE Pause
  BY <1>2 DEF Pause, airVars
<1>3. CASE NextFrame
  <2>1. 0 \in 0 .. SymbolsOf(frame')
    BY <1>3, FrameLength DEF NextFrame
  <2>2. QED
    BY <1>3, <2>1 DEF NextFrame
<1>4. QED
  BY <1>1, <1>2, <1>3 DEF LinkNext

\* The sink was in step before a clean symbol of a frame it followed.
LEMMA InStepBefore ==
  ASSUME FramesFit, LinkBase, SendSymbol, clean', ready'
  PROVE  InStep /\ SentClean
<1>1. frame \in Payloads /\ pos \in Nat /\ clean \in BOOLEAN
  BY FrameLength DEF LinkBase, AirTypes
<1>2. SentClean
  BY SinkTypesOfSend DEF LinkBase
<1>3. clean /\ (IF pos = 0 THEN dstate = "search" /\ packetByte = 0 ELSE ready)
  BY <1>2 DEF SentClean, SendSymbol
<1>4. ASSUME pos = 0 PROVE InStep
  <2>1. dstate = "search"
    BY <1>3, <1>4
  <2>2. QED
    BY <1>1, <1>4, <2>1, InStepAtStart
<1>5. ASSUME pos # 0 PROVE InStep
  <2>1. pos > 0 /\ ready
    BY <1>1, <1>3, <1>5
  <2>2. QED
    BY <1>3, <2>1 DEF LinkBase, Followed
<1>6. QED
  BY <1>2, <1>4, <1>5, Zenon

LEMMA CleanSymbolSent ==
  ASSUME FramesFit, LinkBase, SendSymbol, InStep, SentClean
  PROVE  /\ InStep'
         /\ pos' = SymbolsOf(frame) => Delivered
         /\ pos' # SymbolsOf(frame) => out' = << >>
<1>1. /\ SinkTypes /\ frame \in Payloads /\ pos \in Nat /\ pos < SymbolsOf(frame)
      /\ pos' = pos + 1 /\ frame' = frame
  BY FrameLength DEF LinkBase, AirTypes, SendSymbol
<1>2. QED
  BY <1>1, InStepStep DEF SentClean

LEMMA LinkBaseStep ==
  FramesFit /\ LinkBase /\ [LinkNext]_linkVars => LinkBase'
<1> SUFFICES ASSUME FramesFit, LinkBase, [LinkNext]_linkVars PROVE LinkBase'
  OBVIOUS
<1>1. CASE SendSymbol
  <2>1. SinkTypes' /\ AirTypes'
    BY <1>1, SinkTypesOfSend, AirTypesStep DEF LinkBase, LinkNext
  <2>2. Followed'
    <3>1. SUFFICES ASSUME clean', ready' PROVE InStep'
      BY DEF Followed
    <3>2. QED
      BY <1>1, <3>1, InStepBefore, CleanSymbolSent
  <2>3. QED
    BY <2>1, <2>2 DEF LinkBase
<1>2. CASE Pause
  <2>1. AirTypes'
    BY <1>2, AirTypesStep DEF LinkBase, LinkNext
  <2>2. BestMatch(Silence) \in Symbols
    BY SilenceMatch
  <2>3. SinkTypes'
    BY <1>2, <2>2, SinkTypesStep DEF LinkBase, Pause
  <2>4. Followed'
    <3>1. dstate' = "search" /\ ~locked' /\ packetByte' = 0
      BY <1>2, SilentStep DEF LinkBase, Pause
    <3>2. pos' = SymbolsOf(frame') /\ frame' \in Payloads
      BY <1>2, <2>1 DEF Pause, airVars, AirTypes
    <3>3. InStep'
      BY <3>1, <3>2, FrameLength DEF InStep
    <3>4. QED
      BY <3>3 DEF Followed
  <2>5. QED
    BY <2>1, <2>3, <2>4 DEF LinkBase
<1>3. CASE NextFrame
  <2>1. AirTypes'
    BY <1>3, AirTypesStep DEF LinkBase, LinkNext
  <2>2. SinkTypes'
    BY <1>3 DEF LinkBase, NextFrame, SinkTypes
  <2>3. Followed'
    BY <1>3 DEF NextFrame, Followed
  <2>4. QED
    BY <2>1, <2>2, <2>3 DEF LinkBase
<1>4. CASE UNCHANGED linkVars
  <2> USE <1>4 DEF linkVars, sinkVars, airVars
  <2>1. SinkTypes' /\ AirTypes'
    BY DEF LinkBase, SinkTypes, AirTypes
  <2>2. InStep => InStep'
    BY DEF InStep
  <2>3. Followed'
    BY <2>2 DEF LinkBase, Followed
  <2>4. QED
    BY <2>1, <2>3 DEF LinkBase
<1>5. QED
  BY <1>1, <1>2, <1>3, <1>4 DEF LinkNext

\* Prefixer and sink agree: an undisturbed frame that finds the sink searching is
\* published with its last symbol, unchanged and alone.
THEOREM CleanFramesAreDelivered ==
  ASSUME FramesFit PROVE LinkSpec => CleanFramesArrive
<1>1. LinkInit => LinkBase
  BY LinkBaseInit
<1>2. LinkBase /\ [LinkNext]_linkVars => LinkBase'
  BY LinkBaseStep
<1> DEFINE Arrives ==
      clean' /\ ready' /\ pos # pos' => IF FrameEnds THEN Delivered ELSE out' = << >>
<1>3. LinkBase /\ [LinkNext]_linkVars => [Arrives]_linkVars
  <2> SUFFICES ASSUME LinkBase, [LinkNext]_linkVars, clean', ready', pos # pos'
               PROVE  IF FrameEnds THEN Delivered ELSE out' = << >>
    OBVIOUS
  <2>1. CASE SendSymbol
    BY <2>1, InStepBefore, CleanSymbolSent DEF FrameEnds
  <2>2. CASE NextFrame
    <3>1. frame \in Payloads /\ pos' = 0 /\ out' = << >>
      BY <2>2 DEF LinkBase, AirTypes, NextFrame
    <3>2. pos' # SymbolsOf(frame)
      BY <3>1, FrameLength
    <3>3. QED
      BY <3>1, <3>2 DEF FrameEnds
  <2>3. ~ Pause /\ ~ UNCHANGED linkVars
    BY DEF Pause, linkVars, airVars
  <2>4. QED
    BY <2>1, <2>2, <2>3 DEF LinkNext
<1>4. QED
  BY <1>1, <1>2, <1>3, PTL DEF LinkSpec, CleanFramesArrive

-----------------------------------------------------------------------------
(***************************************************************************)
(* A spoilt frame costs a bounded number of its successors. m is the       *)
(* length of the shortest frame.                                           *)
(***************************************************************************)
Limit == 2 * (MaxPktLen + 1)

Shortest(m) == m \in Nat /\ \A q \in Payloads : m <= SymbolsOf(q)

\* The sink collects no more symbols than the longest frame has.
LEMMA CollectedBound ==
  ASSUME SinkTypes, dstate # "search"
  PROVE  Collected \in 0 .. (Limit - 1)
BY SinkAssumption DEF SinkTypes, Collected, Limit

\* At most one more frame is lost, and only with the last symbol of one.
LEMMA LostGrows ==
  ASSUME LinkBase, SendSymbol, SentClean, clean
  PROVE  /\ lost \in Nat /\ lost' \in {lost, lost + 1}
         /\ pos' # SymbolsOf(frame) \/ out' # << >> => lost' = lost
<1>1. lost \in 0 .. MaxLost /\ MaxLost \in Nat
  BY LinkAssumption DEF LinkBase, AirTypes
<1>2. lost' = IF pos' = SymbolsOf(frame) /\ out' = << >> THEN Least(lost + 1, MaxLost) ELSE lost
  BY DEF SendSymbol, SentClean
<1>3. Least(lost + 1, MaxLost) \in {lost, lost + 1}
  BY <1>1 DEF Least
<1>4. QED
  BY <1>1, <1>2, <1>3

LEMMA Products ==
  ASSUME NEW n \in Nat, NEW k \in {n, n + 1}, NEW m \in Nat
  PROVE  /\ n * m \in Nat /\ (n - 1) * m = n * m - m
         /\ k * m <= n * m + m /\ (k - 1) * m <= n * m
         /\ k = n => k * m = n * m
<1>1. n * m \in Nat /\ (n - 1) * m = n * m - m /\ (n + 1) * m = n * m + m
  OBVIOUS
<1>2. CASE k = n
  BY <1>1, <1>2
<1>3. CASE k = n + 1
  <2>1. k - 1 = n
    BY <1>3
  <2>2. QED
    BY <1>1, <1>3, <2>1
<1>4. QED
  BY <1>2, <1>3

\* The sink has finished with what it took for an older frame, in this one.
LEMMA Released ==
  ASSUME NEW m, FramesFit, Shortest(m), LinkBase, LinkBase', SendSymbol, SentClean, clean,
         dstate' = "search", ~ locked', packetByte' = 0, lost * m + pos < Limit
  PROVE  LossInv(m)'
<1>1. PICK S : S = SymbolsOf(frame)
  OBVIOUS
<1>2. /\ S \in Nat /\ S >= NumZeros + 6 /\ NumZeros \in Nat /\ NumZeros >= 2
      /\ pos \in Nat /\ pos' = pos + 1 /\ pos < S /\ SymbolsOf(frame') = S /\ clean'
  BY <1>1, FrameLength DEF LinkBase, AirTypes, SendSymbol, SentClean
<1>3. /\ lost * m \in Nat /\ (lost' - 1) * m <= lost * m
      /\ pos' # S => lost' * m = lost * m
  BY <1>1, LostGrows, Products DEF Shortest
<1>4. Limit = 2 * (MaxPktLen + 1) /\ Limit \in Nat
  BY SinkAssumption DEF Limit
<1>5. PICK x \in Nat : x = lost * m
  BY <1>3
<1>6. PICK y : y = (lost' - 1) * m
  OBVIOUS
<1>7. x + pos < Limit /\ y <= x
  BY <1>3, <1>5, <1>6
<1>8. y <= Limit
  <2>1. lost' \in Nat /\ m \in Nat
    BY <1>2, LostGrows DEF Shortest
  <2>2. y \in Int
    BY <1>6, <2>1
  <2>3. QED
    BY <1>2, <1>4, <1>7, <2>2
<1>9. CASE pos' < NumZeros \/ pos' = S
  <2>1. InStep'
    BY <1>2, <1>9 DEF InStep
  <2>2. InStep' /\ (lost' - 1) * m <= 2 * (MaxPktLen + 1)
    BY <1>4, <1>6, <1>8, <2>1
  <2>3. QED
    BY <1>2, <2>2 DEF LossInv
<1>10. CASE NumZeros <= pos' /\ pos' < S
  <2>1. lost' * m <= Limit
    BY <1>2, <1>3, <1>4, <1>5, <1>7, <1>10
  <2>2. Missed(m)'
    BY <1>2, <1>4, <1>10, <2>1 DEF Missed
  <2>3. QED
    BY <1>2, <2>2 DEF LossInv
<1>11. QED
  BY <1>2, <1>9, <1>10

LEMMA ForeignStep ==
  ASSUME NEW m, FramesFit, Shortest(m), LinkBase, LinkBase', SendSymbol, SentClean, clean,
         Foreign(m)
  PROVE  LossInv(m)'
<1>1. PICK S : S = SymbolsOf(frame)
  OBVIOUS
<1>2. /\ S \in Nat /\ m \in Nat /\ m <= S
      /\ pos \in Nat /\ pos' = pos + 1 /\ pos < S /\ SymbolsOf(frame') = S /\ clean'
      /\ frame \in Payloads /\ SinkTypes /\ dstate # "search"
  BY <1>1, FrameLength DEF LinkBase, AirTypes, SendSymbol, SentClean, Shortest, Foreign
<1>3. PICK x \in Nat : x = lost * m
  BY <1>2, LostGrows, Products
<1>4. PICK c \in 0 .. (Limit - 1) : c = Collected
  BY <1>2, CollectedBound
<1>5. x + pos <= c
  BY <1>1, <1>2, <1>3, <1>4 DEF Foreign
<1>6. PICK y : y = lost' * m
  OBVIOUS
<1>7. y \in Nat /\ y <= x + m /\ (pos' # S => y = x)
  BY <1>1, <1>2, <1>3, <1>6, LostGrows, Products
<1>8. PICK s \in Symbols : s = SymbolOf(frame, pos + 1)
  BY <1>1, <1>2, SymbolTypes
<1>9. Receive(Clean(s))
  BY <1>8 DEF SentClean
<1>10. PICK v : v = packetByte + Radix * s
  OBVIOUS
<1>11. \/ dstate' # "search" /\ Collected' = c + 1
       \/ dstate' = "search" /\ ~ locked' /\ packetByte' = 0
  <2>1. /\ dstate \in {"sync", "header"} /\ byteIndex \in {0, 1} /\ payloadCnt \in Nat
    BY <1>2 DEF SinkTypes
  <2>2. CASE byteIndex = 0
    <3>1. dstate' = dstate /\ byteIndex' = 1 /\ payloadCnt' = payloadCnt
      BY <1>2, <1>9, <1>10, <2>2, CollectStep
    <3>2. QED
      BY <1>2, <1>4, <2>1, <2>2, <3>1 DEF Collected
  <2>3. CASE byteIndex = 1 /\ dstate = "sync"
    <3>1. \/ dstate' = "header" /\ byteIndex' = 0 /\ payloadCnt' = 0
          \/ dstate' = "search" /\ ~ locked' /\ packetByte' = 0
      BY <1>2, <1>9, <1>10, <2>3, CollectStep
    <3>2. QED
      BY <1>2, <1>4, <2>1, <2>3, <3>1 DEF Collected
  <2>4. CASE byteIndex = 1 /\ dstate = "header"
    <3>1. \/ dstate' = "header" /\ byteIndex' = 0 /\ payloadCnt' = payloadCnt + 1
          \/ dstate' = "search" /\ ~ locked' /\ packetByte' = 0
      BY <1>2, <1>9, <1>10, <2>4, CollectStep
    <3>2. QED
      BY <1>2, <1>4, <2>1, <2>4, <3>1 DEF Collected
  <2>5. QED
    BY <2>1, <2>2, <2>3, <2>4
<1>12. CASE dstate' # "search" /\ Collected' = c + 1
  <2>1. y + (IF pos' < S THEN pos' ELSE 0) <= c + 1
    BY <1>2, <1>4, <1>5, <1>7, SinkAssumption DEF Limit
  <2>2. Foreign(m)'
    BY <1>2, <1>6, <1>12, <2>1 DEF Foreign
  <2>3. QED
    BY <1>2, <2>2 DEF LossInv
<1>13. CASE dstate' = "search" /\ ~ locked' /\ packetByte' = 0
  <2>1. lost * m + pos < Limit
    BY <1>2, <1>3, <1>4, <1>5, SinkAssumption DEF Limit
  <2>2. QED
    BY <1>13, <2>1, Released
<1>14. QED
  BY <1>11, <1>12, <1>13

LEMMA MissedStep ==
  ASSUME NEW m, FramesFit, HeaderFree, Shortest(m), LinkBase, SendSymbol, SentClean, clean,
         Missed(m)
  PROVE  LossInv(m)'
<1>1. PICK S : S = SymbolsOf(frame)
  OBVIOUS
<1>2. PICK p \in Payloads : p = frame
  BY DEF LinkBase, AirTypes
<1>3. PICK n : n = NumZeros
  OBVIOUS
<1>4. /\ S \in Nat /\ S >= n + 6 /\ n \in Nat /\ n >= 2 /\ S = SymbolsOf(p)
      /\ pos \in Nat /\ pos' = pos + 1 /\ pos < S /\ frame' = p /\ clean'
      /\ SinkTypes /\ dstate = "search" /\ n <= pos
  BY <1>1, <1>2, <1>3, FrameLength DEF LinkBase, AirTypes, SendSymbol, SentClean, Missed
<1>5. /\ lost * m <= Limit /\ (lost' - 1) * m <= lost * m
      /\ lost * m \in Nat /\ Limit \in Nat /\ Limit = 2 * (MaxPktLen + 1)
      /\ pos' # S => lost' * m = lost * m
  BY <1>1, LostGrows, Products, SinkAssumption DEF Shortest, Missed, Limit
<1>6. /\ locked /\ packetByte = 0 => pos > n + 2 /\ SymbolOf(p, pos) = 0
      /\ packetByte # 0 => /\ pos > n + 3 /\ SymbolOf(p, pos) = Sfd1
                           /\ SymbolOf(p, pos - 1) = 0
  BY <1>2, <1>3 DEF Missed
<1>7. PICK s \in Symbols : s = SymbolOf(p, pos + 1)
  BY <1>4, SymbolTypes
<1>8. Receive(Clean(s))
  BY <1>2, <1>7 DEF SentClean
<1>9. /\ Sfd1 # 0 /\ Sfd2 # 0 /\ Sfd1 * Radix # 0
      /\ locked \in BOOLEAN /\ (~ locked => packetByte = 0)
  BY <1>4, SfdAssumption, AirAssumption, DelimiterIsNoZero DEF SinkTypes
<1>10. ~ (locked /\ packetByte # 0 /\ s = Sfd2)
  <2>1. SUFFICES ASSUME locked, packetByte # 0, s = Sfd2 PROVE FALSE
    OBVIOUS
  <2>2. PICK i : i = pos - 1
    OBVIOUS
  <2>3. i \in (NumZeros + 3) .. (SymbolsOf(p) - 2) /\ i + 1 = pos /\ i + 2 = pos + 1
    BY <1>3, <1>4, <1>6, <2>1, <2>2
  <2>4. SymbolOf(p, i) = 0 /\ SymbolOf(p, i + 1) = Sfd1 /\ SymbolOf(p, i + 2) = Sfd2
    BY <1>6, <1>7, <2>1, <2>2, <2>3
  <2>5. QED
    BY <2>3, <2>4 DEF HeaderFree
<1>11. /\ dstate' = "search"
       /\ locked' /\ packetByte' = 0 => s = 0
       /\ packetByte' # 0 => locked /\ packetByte = 0 /\ s = Sfd1
  <2>1. CASE ~ locked
    BY <1>4, <1>8, <2>1, SearchStep
  <2>2. CASE locked /\ packetByte = 0
    BY <1>4, <1>8, <1>9, <2>2, SearchStep
  <2>3. CASE locked /\ packetByte # 0
    BY <1>4, <1>8, <1>10, <2>3, SearchStep
  <2>4. QED
    BY <2>1, <2>2, <2>3
<1>12. CASE pos' = S
  <2>1. InStep'
    BY <1>1, <1>2, <1>3, <1>4, <1>11, <1>12 DEF InStep
  <2>2. PICK y : y = (lost' - 1) * m
    OBVIOUS
  <2>3. y \in Int
    BY <2>2, LostGrows DEF Shortest
  <2>4. y <= 2 * (MaxPktLen + 1)
    BY <1>5, <2>2, <2>3
  <2>5. QED
    BY <1>4, <2>1, <2>2, <2>4 DEF LossInv
<1>13. CASE pos' # S
  <2>1. /\ pos' > n /\ pos' < S /\ SymbolOf(frame', pos') = s
        /\ SymbolsOf(frame') = S /\ pos' - 1 = pos
    BY <1>1, <1>2, <1>4, <1>7, <1>13
  <2>2. s = 0 => pos' > n + 2
    <3>1. SymbolOf(p, n + 1) = Sfd1 /\ SymbolOf(p, n + 2) = Sfd2
      BY <1>3, <1>4 DEF SymbolOf
    <3>2. QED
      BY <1>4, <1>7, <1>9, <2>1, <3>1
  <2>3. packetByte' # 0 => /\ pos' > n + 3 /\ SymbolOf(frame', pos') = Sfd1
                           /\ SymbolOf(frame', pos' - 1) = 0
    BY <1>4, <1>6, <1>11, <2>1
  <2>4. lost' * m <= 2 * (MaxPktLen + 1)
    BY <1>5, <1>13
  <2>5. Missed(m)'
    BY <1>3, <1>4, <1>11, <2>1, <2>2, <2>3, <2>4 DEF Missed
  <2>6. QED
    BY <1>4, <2>5 DEF LossInv
<1>14. QED
  BY <1>12, <1>13

LEMMA KeptInStep ==
  ASSUME NEW m, FramesFit, LinkBase, SendSymbol, SentClean, clean,
         InStep, (lost - 1) * m <= Limit
  PROVE  LossInv(m)'
<1>1. InStep' /\ (pos' # SymbolsOf(frame) \/ Delivered)
  BY CleanSymbolSent
<1>2. lost' = lost
  <2>1. Delivered => out' # << >>
    BY DEF Delivered
  <2>2. QED
    BY <1>1, <2>1, LostGrows
<1>3. clean'
  BY DEF SentClean
<1>4. QED
  BY <1>1, <1>2, <1>3 DEF LossInv, Limit

LEMMA LossStep ==
  ASSUME NEW m, FramesFit, HeaderFree, Shortest(m),
         LinkBase, LossInv(m), [LinkNext]_linkVars
  PROVE  LossInv(m)'
<1>1. LinkBase'
  BY LinkBaseStep
<1>2. /\ clean \in BOOLEAN /\ lost \in Nat /\ m \in Nat /\ lost * m \in Nat
      /\ (lost - 1) * m <= lost * m /\ Limit = 2 * (MaxPktLen + 1)
      /\ lost = 0 => lost * m = 0 /\ (lost - 1) * m <= Limit
  <2>1. clean \in BOOLEAN /\ lost \in Nat /\ m \in Nat /\ MaxPktLen \in Nat
    BY LinkAssumption, SinkAssumption DEF LinkBase, AirTypes, Shortest
  <2>2. lost * m \in Nat /\ (lost - 1) * m = lost * m - m
    BY <2>1, Products
  <2>3. lost = 0 => lost * m = 0
    BY <2>1
  <2>4. QED
    BY <2>1, <2>2, <2>3 DEF Limit
<1>3. CASE SendSymbol
  <2>1. CASE SentClean /\ clean
    BY <1>1, <1>2, <1>3, <2>1, ForeignStep, MissedStep, KeptInStep DEF LossInv
  <2>2. CASE SentClean /\ ~ clean
    <3>1. ~ clean' /\ lost = 0 /\ lost' = lost
      BY <1>3, <2>2 DEF SendSymbol, SentClean, LossInv
    <3>2. QED
      BY <3>1 DEF LossInv
  <2>3. CASE clean' = FALSE /\ spoilt' = spoilt + 1
    <3>1. spoilt' # spoilt
      BY <2>3 DEF LinkBase, AirTypes
    <3>2. lost' = 0
      BY <1>3, <3>1 DEF SendSymbol
    <3>3. QED
      BY <2>3, <3>2 DEF LossInv
  <2>4. QED
    BY <1>3, <2>1, <2>2, <2>3, SinkTypesOfSend DEF LinkBase
<1>4. CASE Pause
  <2>1. /\ dstate' = "search" /\ UNCHANGED airVars /\ pos = SymbolsOf(frame)
    BY <1>4, SilentStep DEF LinkBase, Pause
  <2>2. CASE ~ clean
    BY <2>1, <2>2 DEF LossInv, airVars
  <2>3. CASE clean
    <3>1. (lost - 1) * m <= Limit
      <4>1. CASE Foreign(m)
        <5>1. Collected \in 0 .. (Limit - 1)
          BY <4>1, CollectedBound DEF LinkBase, Foreign
        <5>2. PICK x \in Nat : x = lost * m
          BY <1>2
        <5>3. x <= Collected
          BY <2>1, <4>1, <5>2, FrameLength DEF Foreign, LinkBase, AirTypes
        <5>4. PICK y \in Int : y = (lost - 1) * m
          BY <1>2
        <5>5. y <= x
          BY <1>2, <5>2, <5>4
        <5>6. QED
          BY <5>1, <5>3, <5>4, <5>5, SinkAssumption DEF Limit
      <4>2. ~ Missed(m)
        BY <2>1, FrameLength DEF Missed, LinkBase, AirTypes
      <4>3. QED
        BY <2>3, <4>1, <4>2 DEF LossInv, Limit
    <3>2. frame \in Payloads
      BY DEF LinkBase, AirTypes
    <3>3. InStep'
      BY <2>1, <3>2, FrameLength DEF InStep, airVars
    <3>4. QED
      BY <2>1, <2>3, <3>1, <3>3 DEF LossInv, airVars, Limit
  <2>4. QED
    BY <1>2, <2>2, <2>3
<1>5. CASE NextFrame
  <2>1. /\ pos = SymbolsOf(frame) /\ frame \in Payloads /\ frame' \in Payloads
        /\ pos' = 0 /\ clean' /\ lost' = lost /\ dstate' = dstate
        /\ Collected' = Collected
    BY <1>5 DEF NextFrame, LinkBase, AirTypes, Collected
  <2>2. CASE dstate # "search"
    <3>1. Collected \in 0 .. (Limit - 1)
      BY <2>2, CollectedBound DEF LinkBase
    <3>2. lost * m <= Collected
      <4>1. CASE ~ clean
        BY <1>2, <3>1, <4>1, SinkAssumption DEF LossInv, Limit
      <4>2. CASE clean
        <5>1. ~ Missed(m) /\ ~ InStep
          BY <2>1, <2>2, FrameLength DEF Missed, InStep
        <5>2. QED
          BY <1>2, <2>1, <4>2, <5>1, FrameLength DEF LossInv, Foreign
      <4>3. QED
        BY <1>2, <4>1, <4>2
    <3>3. lost' * m + (IF pos' < SymbolsOf(frame') THEN pos' ELSE 0) <= Collected'
      BY <1>2, <2>1, <3>2
    <3>4. Foreign(m)'
      BY <2>1, <2>2, <3>3 DEF Foreign
    <3>5. QED
      BY <2>1, <3>4 DEF LossInv
  <2>3. CASE dstate = "search"
    <3>1. (lost - 1) * m <= Limit
      <4>1. CASE ~ clean
        BY <1>2, <4>1 DEF LossInv
      <4>2. CASE clean
        <5>1. ~ Missed(m) /\ ~ Foreign(m)
          BY <2>1, <2>3, FrameLength DEF Missed, Foreign
        <5>2. QED
          BY <4>2, <5>1 DEF LossInv, Limit
      <4>3. QED
        BY <1>2, <4>1, <4>2
    <3>2. InStep'
      BY <2>1, <2>3, FrameLength DEF InStep
    <3>3. QED
      BY <2>1, <3>1, <3>2 DEF LossInv, Limit
  <2>4. QED
    BY <2>2, <2>3
<1>6. CASE UNCHANGED linkVars
  <2> USE <1>6 DEF linkVars, sinkVars, airVars
  <2>1. InStep => InStep'
    BY DEF InStep
  <2>2. Foreign(m) => Foreign(m)'
    BY DEF Foreign, Collected
  <2>3. Missed(m) => Missed(m)'
    BY DEF Missed
  <2>4. QED
    BY <2>1, <2>2, <2>3 DEF LossInv
<1>7. QED
  BY <1>3, <1>4, <1>5, <1>6 DEF LinkNext

LEMMA LossInit ==
  ASSUME NEW m, FramesFit, Shortest(m), LinkInit
  PROVE  LossInv(m)
<1>1. clean /\ lost = 0 /\ pos = 0 /\ dstate = "search" /\ frame \in Payloads
  BY DEF LinkInit, SinkInit
<1>2. (lost - 1) * m <= 2 * (MaxPktLen + 1)
  <2>1. (0 - 1) * m = - m
    BY DEF Shortest
  <2>2. QED
    BY <1>1, <2>1, SinkAssumption DEF Shortest
<1>3. QED
  BY <1>1, <1>2, InStepAtStart DEF LossInv

\* What the invariant says of the frames lost.
LEMMA LossBound ==
  ASSUME NEW m, FramesFit, Shortest(m), LinkBase, LossInv(m)
  PROVE  (lost - 1) * m <= 2 * (MaxPktLen + 1)
<1>1. /\ lost \in Nat /\ m \in Nat /\ lost * m \in Nat /\ (lost - 1) * m = lost * m - m
      /\ pos \in Nat /\ MaxPktLen \in Nat /\ Limit = 2 * (MaxPktLen + 1)
  BY Products, SinkAssumption, LinkAssumption, FrameLength
     DEF LinkBase, AirTypes, Shortest, Limit
<1>2. CASE lost = 0
  <2>1. lost * m = 0
    BY <1>1, <1>2
  <2>2. QED
    BY <1>1, <2>1
<1>3. CASE Foreign(m)
  <2>1. Collected \in 0 .. (Limit - 1)
    BY <1>3, CollectedBound DEF LinkBase, Foreign
  <2>2. PICK x \in Nat : x = lost * m
    BY <1>1
  <2>3. x <= Collected
    BY <1>1, <1>3, <2>1, <2>2 DEF Foreign
  <2>4. QED
    BY <1>1, <2>1, <2>2, <2>3
<1>4. CASE Missed(m)
  <2>1. lost * m <= 2 * (MaxPktLen + 1)
    BY <1>4 DEF Missed
  <2>2. QED
    BY <1>1, <2>1
<1>5. QED
  BY <1>2, <1>3, <1>4 DEF LossInv

\* However interference falls, no more clean frames in a row are lost than begin in the
\* symbols of one longest frame: provided that frames contain no header themselves.
THEOREM FewFramesAreLost ==
  ASSUME FramesFit, HeaderFree PROVE LinkSpec => []LossBounded
<1> DEFINE LinkInv == LinkBase /\ LossInvs
<1>1. ASSUME NEW p \in Payloads, \A q \in Payloads : SymbolsOf(p) <= SymbolsOf(q)
      PROVE  Shortest(SymbolsOf(p))
  BY <1>1, FrameLength DEF Shortest
<1>2. LinkInit => LinkInv
  BY <1>1, LinkBaseInit, LossInit DEF LossInvs
<1>3. LinkInv /\ [LinkNext]_linkVars => LinkInv'
  <2> SUFFICES ASSUME LinkInv, [LinkNext]_linkVars PROVE LinkInv'
    OBVIOUS
  <2>1. LinkBase'
    BY LinkBaseStep
  <2>2. ASSUME NEW p \in Payloads, \A q \in Payloads : SymbolsOf(p) <= SymbolsOf(q)
        PROVE  LossInv(SymbolsOf(p))'
    <3>1. PICK m : m = SymbolsOf(p)
      OBVIOUS
    <3>2. Shortest(m) /\ LossInv(m)
      BY <1>1, <2>2, <3>1 DEF LossInvs
    <3>3. LossInv(m)'
      BY <3>2, LossStep
    <3>4. QED
      BY <3>1, <3>3
  <2>3. QED
    BY <2>1, <2>2 DEF LossInvs
<1>4. LinkInv => LossBounded
  BY <1>1, LossBound DEF LossBounded, LossInvs
<1>5. QED
  BY <1>2, <1>3, <1>4, PTL DEF LinkSpec
=============================================================================
