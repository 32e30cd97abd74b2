---------------------------- MODULE RfDnaProofs ----------------------------
(***************************************************************************)
(* Theorems about RfDna, for every bound and every length, about the       *)
(* phases of the detector, for all angles, and about FileHandles, the      *)
(* files that the detector reads and writes.                               *)
(***************************************************************************)
EXTENDS RfDna, FileHandles, Lemmas, SequenceTheorems, FiniteSetTheorems

-----------------------------------------------------------------------------
(***************************************************************************)
(* Lengths in samples.                                                     *)
(***************************************************************************)

LEMMA RoundNat ==
  ASSUME NEW n \in Nat, NEW d \in Nat \ {0}
  PROVE  Round(n, d) \in Nat
<1>1. 2 * n + d \in Nat /\ 2 * d \in Nat \ {0}
  OBVIOUS
<1>2. \A x \in Nat, y \in Nat \ {0} : x \div y \in Nat
  OBVIOUS
<1> QED BY <1>1, <1>2 DEF Round

\* Whatever the sample rate, the preamble of the standard packet has a length in samples.
LEMMA PreambleLenNat ==
  ASSUME NEW r \in Nat \ {0}
  PROVE  PreambleLenSamples(StandardPacket(r)) \in Nat
<1>1. /\ ShrPreambleLen + ShrSfdLen \in Nat /\ Byte2Sym \in Nat /\ Sym2Chip \in Nat
      /\ ChipRate \in Nat \ {0}
  BY SizesAssumption
<1>2. PICK p : p = StandardPacket(r)
  OBVIOUS
<1>3. /\ p.preamble_len = ShrPreambleLen + ShrSfdLen
      /\ p.byte2sym.times[1] = Byte2Sym /\ p.byte2sym.times[2] = 1
      /\ p.sym2chip.times[1] = Sym2Chip /\ p.sym2chip.times[2] = 1
      /\ p.chip.period[1] = 1 /\ p.chip.period[2] = ChipRate
      /\ p.sample.rate[1] = r /\ p.sample.rate[2] = 1
  BY <1>2 DEF StandardPacket, NewPacket, SetMultiplier, SetRate, Reciprocal
<1>4. PICK b \in Nat : b = (ShrPreambleLen + ShrSfdLen) * Byte2Sym * Sym2Chip
  BY <1>1
<1>5. PreambleLenChips(p) = Round(b, 1)
  BY <1>1, <1>3, <1>4 DEF PreambleLenChips, InChips
<1>6. PICK c \in Nat : c = PreambleLenChips(p)
  BY <1>5, RoundNat
<1>7. PreambleLenSamples(p) = Round(c * r, ChipRate)
  BY <1>1, <1>3, <1>6 DEF PreambleLenSamples, InSamples
<1>8. c * r \in Nat
  OBVIOUS
<1> QED BY <1>1, <1>2, <1>7, <1>8, RoundNat

\* Another sample rate makes the standard packet of that rate.
LEMMA RateSet ==
  ASSUME NEW r, NEW q
  PROVE  SetSampleRate(StandardPacket(r), q) = StandardPacket(q)
BY DEF SetSampleRate, StandardPacket, NewPacket

-----------------------------------------------------------------------------
(***************************************************************************)
(* The collector between and during calls.                                 *)
(***************************************************************************)
PhyInv == \E r \in Nat \ {0} : phy = StandardPacket(r)

\* A packet that is being received is one more, for which there is room.
Receiving == dstate # "search" \/ found # "nothing"

ReceiverInv ==
  /\ rx \in RxSizes \cup {0}
  /\ dstate \in {"search", "sync", "header"} /\ found \in {"nothing", "zero", "seven"}
  /\ found # "nothing" => dstate = "search"
  /\ frame \in [len : 0 .. MaxPktLen, cnt : 0 .. MaxPktLen]
  /\ Receiving => Len(packets) < MaxPackets

\* The most samples that a call brings.
Most == CHOOSE m \in RxSizes : \A n \in RxSizes : n <= m

Bursts == [on : BOOLEAN, sizes : Seq(RxSizes), samples : Nat]

WindowInv ==
  /\ bufferSize \in Nat \ {0} /\ largest \in Nat /\ bufferSize <= largest
  /\ prev \in Bursts /\ prev.on = (prev.sizes # << >>)
  /\ prev.samples = Sum(prev.sizes)
  /\ Len(prev.sizes) <= largest + 1
  /\ rx # 0 => Len(prev.sizes) <= largest
  /\ current \in [samples : Nat, prevUsed : BOOLEAN]
  /\ current.samples = 0 <=> dstate = "search"
  /\ current.samples <= (largest + 1) * Most

Packets == [raw : BOOLEAN, cut : BOOLEAN, undefined : BOOLEAN, held : BOOLEAN,
            out : BOOLEAN, last : BOOLEAN, over : BOOLEAN]

CountInv ==
  /\ packets \in Seq(Packets) /\ Len(packets) <= MaxPackets
  /\ counts \in [short : Nat, bad : Nat, good : Nat, sent : Nat, removed : Nat]
  /\ PacketsCounted

LEMMA MostSamples ==
  Most \in RxSizes /\ Most \in Nat \ {0} /\ \A n \in RxSizes : n \in Nat \ {0} /\ n <= Most
BY CollectorAssumption DEF Most

\* The sizes of past calls have a sum of at most Most for each.
LEMMA SizesBounded ==
  ASSUME NEW s \in Seq(RxSizes)
  PROVE  s \in Seq(Int) /\ Sum(s) \in 0 .. Len(s) * Most
<1>1. RxSizes \subseteq Int
  BY CollectorAssumption
<1>2. s \in Seq(Int)
  BY <1>1, SeqOfMore
<1>3. ASSUME NEW k \in 1 .. Len(s) PROVE s[k] \in 0 .. Most
  <2>1. s[k] \in RxSizes
    BY LenProperties
  <2>2. s[k] \in Nat /\ s[k] <= Most
    BY <2>1, MostSamples
  <2> QED BY <2>2, MostSamples
<1> QED BY <1>2, <1>3, MostSamples, SumBounded

\* The end of a call changes what became of the packets, not their number.
LEMMA PacketsAtEnd ==
  ASSUME packets \in Seq(Packets), EndCall
  PROVE  /\ packets' \in Seq(Packets) /\ Len(packets') = Len(packets)
         /\ \A k \in DOMAIN packets :
              /\ packets'[k] = [packets[k] EXCEPT !.over = TRUE,
                                                  !.out = packets[k].out \/ k = Owner(out')]
              /\ packets'[k] \in Packets
<1>1. ASSUME NEW k \in DOMAIN packets
      PROVE  /\ packets'[k] = [packets[k] EXCEPT !.over = TRUE,
                                                 !.out = packets[k].out \/ k = Owner(out')]
             /\ packets'[k] \in Packets
  <2>1. packets'[k] = [packets[k] EXCEPT !.over = TRUE,
                                         !.out = packets[k].out \/ k = Owner(out')]
    BY DEF EndCall
  <2>4. packets[k] \in Packets
    OBVIOUS
  <2>2. packets[k] \in Packets /\ packets[k].out \in BOOLEAN
    BY <2>4 DEF Packets
  <2>3. (packets[k].out \/ k = Owner(out')) \in BOOLEAN
    BY Zenon
  <2> QED BY <2>1, <2>2, <2>3 DEF Packets
<1>2. DOMAIN packets = 1 .. Len(packets) /\ Len(packets) \in Nat
  OBVIOUS
<1>3. packets' = [k \in 1 .. Len(packets) |-> packets'[k]]
  BY <1>2 DEF EndCall
<1>4. [k \in 1 .. Len(packets) |-> packets'[k]] \in Seq(Packets)
  <2>1. \A k \in 1 .. Len(packets) : packets'[k] \in Packets
    BY <1>1, <1>2
  <2>2. [k \in 1 .. Len(packets) |-> packets'[k]] \in [1 .. Len(packets) -> Packets]
    BY <2>1
  <2> QED BY <1>2, <2>2, SeqDef
<1>5. packets' \in Seq(Packets)
  BY <1>3, <1>4
<1>6. Len(packets') = Len(packets)
  BY <1>2, <1>3, <1>5
<1> QED BY <1>1, <1>5, <1>6

LEMMA PhyStep == PhyInv /\ [Next]_vars => PhyInv'
<1> SUFFICES ASSUME PhyInv, [Next]_vars PROVE PhyInv'
  OBVIOUS
<1>1. ASSUME NEW q \in SampRates, SetSampRate(q) PROVE PhyInv'
  BY <1>1, RateSet, CollectorAssumption DEF PhyInv, SetSampRate
<1>2. CASE phy' = phy
  BY <1>2 DEF PhyInv
<1> QED
  BY <1>1, <1>2
  DEF Next, Collector, Detector, CollectorNext, BeginCall, FirstZero, FirstSfd, SecondSfd,
      SyncLost, InvalidSymbol, LengthByte, PayloadByte, Complete, EndCall, SetBufferSize,
      vars, collectorVars, settings

\* The collector takes a step of its own, or none.
LEMMA CollectorSteps == [Next]_vars => CollectorNext \/ UNCHANGED collectorVars
BY DEF Next, Collector, Detector, vars

LEMMA ReceiverStep ==
  ReceiverInv /\ CountInv /\ (CollectorNext \/ UNCHANGED collectorVars) => ReceiverInv'
<1> SUFFICES ASSUME ReceiverInv, CountInv, CollectorNext \/ UNCHANGED collectorVars
             PROVE  ReceiverInv'
  OBVIOUS
<1>1. MaxPktLen \in Nat /\ 0 \in 0 .. MaxPktLen /\ Lengths \subseteq Nat
  BY CollectorAssumption
<1>2. NoFrame \in [len : 0 .. MaxPktLen, cnt : 0 .. MaxPktLen]
  BY <1>1 DEF NoFrame
<1>3. ASSUME NEW n \in RxSizes, BeginCall(n) PROVE ReceiverInv'
  BY <1>3 DEF BeginCall, ReceiverInv, Receiving, receiver
<1>4. CASE FirstZero \/ FirstSfd
  BY <1>4 DEF FirstZero, FirstSfd, InSearch, ReceiverInv, Receiving
<1>5. CASE SecondSfd
  BY <1>5 DEF SecondSfd, InSearch, EnterHaveSync, ReceiverInv, Receiving
<1>6. CASE SyncLost \/ InvalidSymbol
  BY <1>2, <1>6 DEF SyncLost, InvalidSymbol, EnterSearch, ReceiverInv, Receiving
<1>7. ASSUME NEW len \in Lengths, LengthByte(len) PROVE ReceiverInv'
  <2>1. CASE len <= MaxPktLen
    <3>1. [len |-> len, cnt |-> 0] \in [len : 0 .. MaxPktLen, cnt : 0 .. MaxPktLen]
      BY <1>1, <2>1
    <3> QED BY <1>7, <2>1, <3>1 DEF LengthByte, EnterHaveHeader, ReceiverInv, Receiving
  <2>2. CASE ~ (len <= MaxPktLen)
    BY <1>2, <1>7, <2>2 DEF LengthByte, EnterSearch, ReceiverInv, Receiving
  <2> QED BY <2>1, <2>2
<1>8. CASE PayloadByte
  <2>1. frame.cnt + 1 < frame.len /\ frame.len \in 0 .. MaxPktLen /\ frame.cnt \in 0 .. MaxPktLen
    BY <1>8 DEF PayloadByte, Filled, ReceiverInv
  <2>2. frame.cnt + 1 \in 0 .. MaxPktLen
    BY <1>1, <2>1
  <2> QED BY <1>8, <2>2 DEF PayloadByte, ReceiverInv, Receiving
<1>9. ASSUME NEW t \in 0 .. (current.samples - 1), NEW good \in BOOLEAN, Complete(t, good)
      PROVE  ReceiverInv'
  BY <1>2, <1>9 DEF Complete, EnterSearch, ReceiverInv, Receiving
<1>10. CASE EndCall
  <2>1. Len(packets') = Len(packets)
    BY <1>10, PacketsAtEnd DEF CountInv
  <2> QED BY <1>10, <2>1 DEF EndCall, ReceiverInv, Receiving, receiver
<1>11. ASSUME NEW n, SetBufferSize(n) \/ SetSampRate(n) PROVE ReceiverInv'
  BY <1>11 DEF SetBufferSize, SetSampRate, ReceiverInv, Receiving, receiver
<1>12. CASE UNCHANGED collectorVars
  BY <1>12 DEF collectorVars, ReceiverInv, Receiving, receiver
<1> QED
  BY <1>3, <1>4, <1>5, <1>6, <1>7, <1>8, <1>9, <1>10, <1>11, <1>12 DEF CollectorNext

LEMMA WindowStep ==
  ReceiverInv /\ WindowInv /\ (CollectorNext \/ UNCHANGED collectorVars) => WindowInv'
<1> SUFFICES ASSUME ReceiverInv, WindowInv, CollectorNext \/ UNCHANGED collectorVars
             PROVE  WindowInv'
  OBVIOUS
<1>1. /\ bufferSize \in Nat \ {0} /\ largest \in Nat /\ Most \in Nat \ {0}
      /\ Len(prev.sizes) \in Nat /\ prev.samples \in Nat /\ prev.sizes \in Seq(RxSizes)
      /\ current.samples \in Nat
  BY MostSamples DEF WindowInv, Bursts
<1>2. /\ NothingSet \in [samples : Nat, prevUsed : BOOLEAN] /\ NothingSet.samples = 0
      /\ 0 <= (largest + 1) * Most
  BY <1>1 DEF NothingSet
<1>4. prev.sizes \in Seq(Int)
  BY <1>1, SizesBounded
<1>5. ASSUME NEW n \in RxSizes, BeginCall(n) PROVE WindowInv'
  <2>1. CASE Len(prev.sizes) > bufferSize
    <3>1. prev.sizes # << >> /\ Len(prev.sizes) >= 2
      BY <1>1, <2>1
    <3>2. prev' = [prev EXCEPT !.sizes = Tail(prev.sizes),
                               !.samples = prev.samples - prev.sizes[1]]
      BY <1>5, <2>1 DEF BeginCall, PopFrontBurst
    <3>3. /\ prev'.sizes = Tail(prev.sizes) /\ prev'.samples = prev.samples - prev.sizes[1]
          /\ prev'.on = prev.on /\ prev' \in [on : BOOLEAN, sizes : {prev'.sizes}, samples : {prev'.samples}]
      BY <3>2 DEF WindowInv, Bursts
    <3>4. prev'.sizes \in Seq(RxSizes) /\ Len(prev'.sizes) = Len(prev.sizes) - 1
      BY <1>1, <3>1, <3>3
    <3>5. prev'.samples = Sum(prev'.sizes)
      BY <1>4, <3>1, <3>3, SumOfTail DEF WindowInv
    <3>6. prev'.samples \in Nat
      <4>1. PICK s \in Seq(RxSizes) : s = prev'.sizes
        BY <3>4
      <4>2. Sum(s) \in 0 .. Len(s) * Most
        BY SizesBounded
      <4> QED BY <3>5, <4>1, <4>2
    <3>7. prev' \in Bursts /\ prev'.on = (prev'.sizes # << >>)
      <4>2. prev'.sizes # << >>
        BY <1>1, <3>1, <3>4, EmptySeq
      <4>1. prev'.sizes # << >> /\ prev.on = TRUE
        BY <3>1, <4>2 DEF WindowInv
      <4> QED BY <3>3, <3>4, <3>6, <4>1 DEF Bursts
    <3>8. Len(prev'.sizes) <= largest
      BY <1>1, <3>4 DEF WindowInv
    <3> QED BY <1>1, <1>5, <3>5, <3>7, <3>8
            DEF BeginCall, WindowInv, settings, receiver
  <2>2. CASE ~ (Len(prev.sizes) > bufferSize)
    <3>1. prev' = prev /\ Len(prev.sizes) <= largest
      BY <1>1, <1>5, <2>2 DEF BeginCall, WindowInv
    <3> QED BY <1>5, <3>1 DEF BeginCall, WindowInv, settings, receiver
  <2> QED BY <2>1, <2>2
<1>6. CASE FirstZero \/ FirstSfd \/ PayloadByte
  BY <1>6 DEF FirstZero, FirstSfd, PayloadByte, buffers, settings, WindowInv
<1>7. CASE SecondSfd
  <2>1. /\ rx \in RxSizes /\ rx \in Nat \ {0} /\ rx <= Most
        /\ dstate = "search" /\ current.samples = 0
        /\ Len(prev.sizes) <= largest
    BY <1>7, MostSamples DEF SecondSfd, InSearch, ReceiverInv, WindowInv
  <2>2. prev.samples \in 0 .. Len(prev.sizes) * Most
    <3>1. PICK s \in Seq(RxSizes) : s = prev.sizes
      BY <1>1
    <3>2. Sum(s) \in 0 .. Len(s) * Most
      BY SizesBounded
    <3> QED BY <3>1, <3>2 DEF WindowInv
  <2>3. Len(prev.sizes) * Most <= largest * Most
    <3>1. \A a, b, c \in Nat : a <= b => a * c <= b * c
      OBVIOUS
    <3> QED BY <1>1, <2>1, <3>1
  <2>4. /\ current' \in [samples : Nat, prevUsed : BOOLEAN]
        /\ current'.samples = (IF prev.on THEN prev.samples + rx ELSE rx)
    BY <1>1, <1>7, <2>1 DEF SecondSfd, WindowInv, Bursts
  <2>5. current'.samples # 0 /\ current'.samples <= (largest + 1) * Most
    <3>1. (largest + 1) * Most = largest * Most + Most
      BY <1>1
    <3>2. largest * Most \in Nat /\ Len(prev.sizes) * Most \in Nat
      BY <1>1
    <3> HIDE DEF Most
    <3>3. prev.samples <= largest * Most
      BY <1>1, <2>2, <2>3, <3>2
    <3> QED BY <1>1, <2>1, <2>4, <3>1, <3>2, <3>3
  <2> QED BY <1>7, <2>4, <2>5 DEF SecondSfd, EnterHaveSync, WindowInv, settings
<1>8. CASE SyncLost \/ InvalidSymbol
  BY <1>2, <1>8 DEF SyncLost, InvalidSymbol, EnterSearch, WindowInv, settings
<1>9. ASSUME NEW len \in Lengths, LengthByte(len) PROVE WindowInv'
  BY <1>2, <1>9 DEF LengthByte, EnterHaveHeader, EnterSearch, WindowInv, settings
<1>10. ASSUME NEW t \in 0 .. (current.samples - 1), NEW good \in BOOLEAN, Complete(t, good)
       PROVE  WindowInv'
  BY <1>2, <1>10 DEF Complete, EnterSearch, WindowInv, settings
<1>11. CASE EndCall
  <2>1. /\ rx \in RxSizes /\ rx \in Nat /\ rx' = 0 /\ Len(prev.sizes) <= largest
        /\ prev'.sizes = Append(prev.sizes, rx) /\ prev'.samples = prev.samples + rx
        /\ prev'.on = TRUE
        /\ prev' = [on |-> TRUE, sizes |-> prev'.sizes, samples |-> prev'.samples]
        /\ UNCHANGED <<bufferSize, largest, current, dstate>>
    BY <1>11, MostSamples
    DEF EndCall, AppendBurst, ReceiverInv, WindowInv, settings, receiver
  <2>2. prev'.sizes \in Seq(RxSizes) /\ Len(prev'.sizes) = Len(prev.sizes) + 1
    BY <1>1, <2>1
  <2>3. prev'.samples = Sum(prev'.sizes)
    BY <1>4, <2>1, SumAppended DEF WindowInv
  <2>4. prev' \in Bursts /\ prev'.on = (prev'.sizes # << >>)
    <3>2. prev'.sizes # << >>
      BY <1>1, <2>2, EmptySeq
    <3>1. prev'.sizes # << >> /\ prev'.samples \in Nat
      BY <1>1, <2>1, <3>2
    <3> QED BY <2>1, <2>2, <3>1 DEF Bursts
  <2> QED BY <1>1, <2>1, <2>2, <2>3, <2>4 DEF WindowInv
<1>12. ASSUME NEW n \in BufferSizes, SetBufferSize(n) PROVE WindowInv'
  <2>1. /\ bufferSize' \in Nat \ {0} /\ largest' \in Nat /\ bufferSize' <= largest'
        /\ largest <= largest'
    <3>1. n \in Nat
      BY CollectorAssumption
    <3> QED BY <1>1, <1>12, <3>1 DEF SetBufferSize, AtLeastOne
  <2>2. (largest + 1) * Most <= (largest' + 1) * Most
    <3>1. \A a, b, c \in Nat : a <= b => (a + 1) * c <= (b + 1) * c
      OBVIOUS
    <3> QED BY <1>1, <2>1, <3>1
  <2>3. (largest + 1) * Most \in Nat /\ (largest' + 1) * Most \in Nat
    <3>1. \A a, c \in Nat : (a + 1) * c \in Nat
      OBVIOUS
    <3> QED BY <1>1, <2>1, <3>1
  <2>4. UNCHANGED <<prev, current, rx, dstate>>
    BY <1>12 DEF SetBufferSize, buffers, receiver
  <2>5. current.samples <= (largest' + 1) * Most
    BY <1>1, <2>2, <2>3 DEF WindowInv
  <2> QED BY <1>1, <2>1, <2>4, <2>5 DEF WindowInv
<1>13. ASSUME NEW r \in SampRates, SetSampRate(r) PROVE WindowInv'
  BY <1>13 DEF SetSampRate, buffers, receiver, WindowInv
<1>14. CASE UNCHANGED collectorVars
  BY <1>14 DEF collectorVars, settings, buffers, receiver, WindowInv
<1> QED
  BY <1>5, <1>6, <1>7, <1>8, <1>9, <1>10, <1>11, <1>12, <1>13, <1>14 DEF CollectorNext

-----------------------------------------------------------------------------
(***************************************************************************)
(* What became of the packets.                                             *)
(***************************************************************************)
Cuts(ps) == {k \in DOMAIN ps : ps[k].cut}

\* A packet more, of which nothing is known but whether its preamble was cut.
LEMMA CutsAppended ==
  ASSUME NEW ps \in Seq(Packets), NEW p \in Packets
  PROVE  /\ Cardinality(Cuts(ps)) \in Nat
         /\ Cardinality(Cuts(Append(ps, p))) = Cardinality(Cuts(ps)) + (IF p.cut THEN 1 ELSE 0)
<1>1. IsFiniteSet(Cuts(ps)) /\ Len(ps) + 1 \notin Cuts(ps)
  <2>1. IsFiniteSet(1 .. Len(ps))
    BY FS_Interval
  <2>2. Cuts(ps) \subseteq 1 .. Len(ps)
    BY DEF Cuts
  <2> QED BY <2>1, <2>2, FS_Subset
<1>2. /\ DOMAIN Append(ps, p) = DOMAIN ps \cup {Len(ps) + 1}
      /\ \A k \in DOMAIN ps : Append(ps, p)[k] = ps[k]
      /\ Append(ps, p)[Len(ps) + 1] = p
      /\ Len(ps) + 1 \notin DOMAIN ps
  OBVIOUS
<1>3. CASE p.cut
  <2>1. Cuts(Append(ps, p)) = Cuts(ps) \cup {Len(ps) + 1}
    BY <1>2, <1>3 DEF Cuts
  <2> QED BY <1>1, <1>3, <2>1, FS_AddElement, FS_CardinalityType
<1>4. CASE ~ p.cut
  <2>1. Cuts(Append(ps, p)) = Cuts(ps)
    BY <1>2, <1>4 DEF Cuts
  <2> QED BY <1>1, <1>4, <2>1, FS_CardinalityType
<1> QED BY <1>3, <1>4

\* Where another packet takes over, only the flag that says so changes.
LEMMA PacketsFollowed ==
  ASSUME NEW ps \in Seq(Packets)
  PROVE  /\ Followed(ps) \in Seq(Packets) /\ Len(Followed(ps)) = Len(ps)
         /\ \A k \in DOMAIN ps :
              Followed(ps)[k] = [ps[k] EXCEPT !.last = ps[k].last /\ ps[k].over]
<1>1. DOMAIN ps = 1 .. Len(ps) /\ Len(ps) \in Nat /\ \A k \in 1 .. Len(ps) : ps[k] \in Packets
  BY LenProperties
<1>2. \A k \in DOMAIN ps : Followed(ps)[k] = [ps[k] EXCEPT !.last = ps[k].last /\ ps[k].over]
  BY DEF Followed
<1>3. \A k \in 1 .. Len(ps) : Followed(ps)[k] \in Packets
  <2> TAKE k \in 1 .. Len(ps)
  <2>1. ps[k] \in Packets
    BY <1>1
  <2>2. (ps[k].last /\ ps[k].over) \in BOOLEAN
    BY Zenon
  <2> QED BY <1>1, <1>2, <2>1, <2>2 DEF Packets
<1>4. Followed(ps) = [k \in 1 .. Len(ps) |-> Followed(ps)[k]]
  BY <1>1 DEF Followed
<1>5. [k \in 1 .. Len(ps) |-> Followed(ps)[k]] \in [1 .. Len(ps) -> Packets]
  BY <1>3
<1>6. Followed(ps) \in Seq(Packets)
  BY <1>1, <1>4, <1>5, SeqDef
<1> QED BY <1>1, <1>2, <1>4, <1>6

\* The record of a packet that is filled now, and what the others then are.
Entry(t, good) ==
  LET cut  == current.prevUsed /\ Available(current.samples, t)
      held == HeldBack(frame.cnt + 1 < ShortLen, good)
  IN  [raw |-> ~current.prevUsed, cut |-> cut, undefined |-> cut /\ t = 0,
       held |-> held, out |-> FALSE, last |-> TRUE, over |-> FALSE]

Others(held) == IF held THEN packets ELSE Followed(packets)

LEMMA Filed ==
  ASSUME NEW t, NEW good \in BOOLEAN, Complete(t, good), packets \in Seq(Packets)
  PROVE  /\ Entry(t, good) \in Packets
         /\ Entry(t, good).held = HeldBack(frame.cnt + 1 < ShortLen, good)
         /\ Others(Entry(t, good).held) \in Seq(Packets)
         /\ Len(Others(Entry(t, good).held)) = Len(packets)
         /\ packets' = Append(Others(Entry(t, good).held), Entry(t, good))
<1>1. /\ (~current.prevUsed) \in BOOLEAN
      /\ (current.prevUsed /\ Available(current.samples, t)) \in BOOLEAN
      /\ ((current.prevUsed /\ Available(current.samples, t)) /\ t = 0) \in BOOLEAN
      /\ HeldBack(frame.cnt + 1 < ShortLen, good) \in BOOLEAN
  <2>1. (CrcSet /\ frame.cnt + 1 < ShortLen /\ good) \in BOOLEAN
    BY Zenon
  <2> QED BY <2>1, Zenon DEF HeldBack
<1>2. Entry(t, good) \in Packets
  BY <1>1 DEF Entry, Packets
<1>3. Entry(t, good).held = HeldBack(frame.cnt + 1 < ShortLen, good)
  BY DEF Entry
<1>4. packets' = Append(Others(Entry(t, good).held), Entry(t, good))
  BY <1>3, Zenon DEF Complete, Entry, Others
<1> QED BY <1>2, <1>3, <1>4, PacketsFollowed DEF Others

LEMMA CountStep ==
  ReceiverInv /\ CountInv /\ (CollectorNext \/ UNCHANGED collectorVars) => CountInv'
<1> SUFFICES ASSUME ReceiverInv, CountInv, CollectorNext \/ UNCHANGED collectorVars
             PROVE  CountInv'
  OBVIOUS
<1>1. CASE UNCHANGED <<counts, packets>>
  BY <1>1 DEF CountInv, PacketsCounted
<1>2. CASE EndCall
  <2>1. packets' \in Seq(Packets) /\ Len(packets') = Len(packets)
    BY <1>2, PacketsAtEnd DEF CountInv
  <2>2. \A k \in DOMAIN packets : packets'[k].cut = packets[k].cut
    <3> TAKE k \in DOMAIN packets
    <3>1. packets[k] \in Packets
      BY DEF CountInv
    <3>2. packets'[k] = [packets[k] EXCEPT !.over = TRUE,
                                           !.out = packets[k].out \/ k = Owner(out')]
      BY <1>2, PacketsAtEnd DEF CountInv
    <3> QED BY <3>1, <3>2 DEF Packets
  <2>3. DOMAIN packets' = DOMAIN packets
    BY <2>1 DEF CountInv
  <2>4. {k \in DOMAIN packets' : packets'[k].cut} = {k \in DOMAIN packets : packets[k].cut}
    BY <2>2, <2>3
  <2>5. counts' = counts
    BY <1>2 DEF EndCall
  <2> QED BY <2>1, <2>4, <2>5 DEF CountInv, PacketsCounted
<1>3. ASSUME NEW t, NEW good \in BOOLEAN, Complete(t, good) PROVE CountInv'
  <2> DEFINE e == Entry(t, good)
             ps == Others(e.held)
             tiny == frame.cnt + 1 < ShortLen
  <2>1. /\ e \in Packets /\ ps \in Seq(Packets) /\ Len(ps) = Len(packets)
        /\ packets' = Append(ps, e)
    BY <1>3, Filed DEF CountInv
  <2>2. packets' \in Seq(Packets) /\ Len(packets') = Len(packets) + 1
    BY <2>1
  <2>3. Len(packets) < MaxPackets /\ MaxPackets \in Nat
    BY <1>3, CollectorAssumption DEF Complete, ReceiverInv, Receiving
  <2>4. Cuts(ps) = Cuts(packets)
    <3>1. DOMAIN ps = DOMAIN packets
      BY <2>1 DEF CountInv
    <3>2. ASSUME NEW k \in DOMAIN packets PROVE ps[k].cut = packets[k].cut
      <4>1. packets[k] \in Packets
        BY DEF CountInv
      <4>2. CASE e.held
        BY <4>2 DEF Others
      <4>3. CASE ~ e.held
        <5>1. ps[k] = [packets[k] EXCEPT !.last = packets[k].last /\ packets[k].over]
          BY <4>3, PacketsFollowed DEF Others, CountInv
        <5> QED BY <4>1, <5>1 DEF Packets
      <4> QED BY <4>2, <4>3
    <3> HIDE DEF ps
    <3> QED BY <3>1, <3>2 DEF Cuts
  <2>5. /\ Cardinality(Cuts(packets)) \in Nat
        /\ Cardinality(Cuts(packets')) = Cardinality(Cuts(packets)) + (IF e.cut THEN 1 ELSE 0)
    BY <2>1, <2>4, CutsAppended
  <2>6. counts' = Counted(tiny, good, e.cut)
    BY <1>3 DEF Complete, Entry
  <2>7. e.cut \in BOOLEAN /\ tiny \in BOOLEAN
    <3>1. e.cut \in BOOLEAN
      BY <2>1 DEF Packets
    <3> QED BY <3>1
  <2>8. /\ counts \in [short : Nat, bad : Nat, good : Nat, sent : Nat, removed : Nat]
        /\ counts.short + counts.bad + counts.good = Len(packets)
        /\ counts.sent + counts.removed = Len(packets)
        /\ counts.sent = Cardinality(Cuts(packets))
    BY DEF CountInv, PacketsCounted, Cuts
  <2> HIDE DEF e, ps, tiny
  <2>9. /\ counts'.short   = counts.short   + (IF tiny THEN 1 ELSE 0)
        /\ counts'.good    = counts.good    + (IF ~tiny /\ good THEN 1 ELSE 0)
        /\ counts'.bad     = counts.bad     + (IF ~tiny /\ ~good THEN 1 ELSE 0)
        /\ counts'.sent    = counts.sent    + (IF e.cut THEN 1 ELSE 0)
        /\ counts'.removed = counts.removed + (IF e.cut THEN 0 ELSE 1)
        /\ counts' = [short |-> counts'.short, bad |-> counts'.bad, good |-> counts'.good,
                      sent |-> counts'.sent, removed |-> counts'.removed]
    BY <2>6, <2>8 DEF Counted
  <2>10. counts' \in [short : Nat, bad : Nat, good : Nat, sent : Nat, removed : Nat]
    <3>1. /\ counts'.short \in Nat /\ counts'.bad \in Nat /\ counts'.good \in Nat
          /\ counts'.sent \in Nat /\ counts'.removed \in Nat
      <4>1. /\ counts.short \in Nat /\ counts.bad \in Nat /\ counts.good \in Nat
            /\ counts.sent \in Nat /\ counts.removed \in Nat
        BY <2>8
      <4>2. \A n \in Nat : n + 0 \in Nat /\ n + 1 \in Nat
        OBVIOUS
      <4> QED BY <2>9, <4>1, <4>2, Zenon
    <3> QED BY <2>9, <3>1
  <2>11. /\ counts'.short + counts'.bad + counts'.good = Len(packets) + 1
         /\ counts'.sent + counts'.removed = Len(packets) + 1
         /\ counts'.sent = Cardinality(Cuts(packets'))
    BY <2>5, <2>7, <2>8, <2>9
  <2>12. PacketsCounted'
    BY <2>2, <2>11 DEF PacketsCounted, Cuts
  <2> QED BY <2>2, <2>3, <2>8, <2>10, <2>12 DEF CountInv
<1> QED
  BY <1>1, <1>2, <1>3
  DEF CollectorNext, BeginCall, FirstZero, FirstSfd, SecondSfd, SyncLost, InvalidSymbol,
      LengthByte, PayloadByte, SetBufferSize, SetSampRate, collectorVars

-----------------------------------------------------------------------------
(***************************************************************************)
(* What goes to the output.                                                *)
(***************************************************************************)

\* The samples that packet k may put out, those from nowhere with it.
SamplesOf(k) == {Zero} \cup {-k, k} \X Int

\* Erasing a range leaves what is before it and what is behind it.
LEMMA Erased ==
  ASSUME NEW S, NEW b \in Seq(S), NEW front \in 0 .. Len(b), NEW back \in 0 .. Len(b)
  PROVE  /\ EraseBufferRange(b, front, back) \in Seq(S)
         /\ Len(EraseBufferRange(b, front, back)) = front + (Len(b) - back)
         /\ \A j \in 1 .. front : EraseBufferRange(b, front, back)[j] = b[j]
         /\ \A j \in 1 .. Len(b) - back :
              EraseBufferRange(b, front, back)[front + j] = b[back + j]
<1>1. SubSeq(b, 1, front) \in Seq(S) /\ Len(SubSeq(b, 1, front)) = front
  OBVIOUS
<1>2. \A j \in 1 .. front : SubSeq(b, 1, front)[j] = b[j]
  OBVIOUS
<1>3. SubSeq(b, back + 1, Len(b)) \in Seq(S) /\ Len(SubSeq(b, back + 1, Len(b))) = Len(b) - back
  OBVIOUS
<1>4. \A j \in 1 .. Len(b) - back : SubSeq(b, back + 1, Len(b))[j] = b[back + j]
  OBVIOUS
<1>5. PICK s \in Seq(S) : s = SubSeq(b, 1, front)
  BY <1>1
<1>6. PICK r \in Seq(S) : r = SubSeq(b, back + 1, Len(b))
  BY <1>3
<1>7. EraseBufferRange(b, front, back) = s \o r
  BY <1>5, <1>6 DEF EraseBufferRange
<1>8. /\ s \o r \in Seq(S) /\ Len(s \o r) = Len(s) + Len(r)
      /\ \A j \in 1 .. Len(s) : (s \o r)[j] = s[j]
      /\ \A j \in 1 .. Len(r) : (s \o r)[Len(s) + j] = r[j]
  OBVIOUS
<1>9. Len(s) = front /\ Len(r) = Len(b) - back
  BY <1>1, <1>3, <1>5, <1>6
<1> QED BY <1>2, <1>4, <1>5, <1>6, <1>7, <1>8, <1>9

\* What is listed by a function is a sequence.
LEMMA Listed ==
  ASSUME NEW S, NEW n \in Nat, NEW f \in [1 .. n -> S]
  PROVE  f \in Seq(S) /\ Len(f) = n
BY SeqDef

LEMMA SamplesTaken ==
  ASSUME NEW k \in Nat, NEW n \in Nat, NEW t \in Nat, PreambleLen \in Nat
  PROVE  Samples(k, n, t) \in Seq({k} \X Int) /\ Len(Samples(k, n, t)) = n
<1>1. \A i \in Int : Place(i) \in Int
  BY DEF Place
<1>2. \A j \in 1 .. n : <<k, Place(j - 1 - t)>> \in {k} \X Int
  BY <1>1
<1>3. Samples(k, n, t) \in [1 .. n -> {k} \X Int]
  BY <1>2 DEF Samples
<1>5. PICK f \in [1 .. n -> {k} \X Int] : f = Samples(k, n, t)
  BY <1>3
<1>6. f \in Seq({k} \X Int) /\ Len(f) = n
  BY Listed
<1> QED BY <1>5, <1>6

\* The buffer is cut behind the preamble first, and before the sample in front of the
\* trigger then.
Consecutive(k, s) == \A j \in 1 .. Len(s) : s[j] = <<k, j - 2>>

CutBehind(k, n, t) == EraseBufferRange(Samples(k, n, t), PreambleLen + t, n - 1)
CutBefore(k, n, t) == EraseBufferRange(CutBehind(k, n, t), 0, t - 1)

LEMMA PreambleCut ==
  ASSUME NEW k \in Nat, NEW n \in Nat, NEW t \in Nat, PreambleLen \in Nat, Available(n, t)
  PROVE  /\ CutBehind(k, n, t) \in Seq({k} \X Int)
         /\ Len(CutBehind(k, n, t)) = PreambleLen + t + 1
         /\ t # 0 => /\ CutBefore(k, n, t) \in Seq({k} \X Int)
                     /\ Len(CutBefore(k, n, t)) = PreambleLen + 2
                     /\ Consecutive(k, CutBefore(k, n, t))
<1> DEFINE b == Samples(k, n, t)
           before == EraseBufferRange(b, PreambleLen + t, n - 1)
           after == EraseBufferRange(before, 0, t - 1)
<1>1. PICK p \in Nat : p = PreambleLen
  OBVIOUS
<1>2. p + t + 1 <= n
  BY <1>1 DEF Available
<1>3. /\ b \in Seq({k} \X Int) /\ Len(b) = n
      /\ \A j \in 1 .. n : b[j] = <<k, Place(j - 1 - t)>>
  <2>1. \A j \in 1 .. n : b[j] = <<k, Place(j - 1 - t)>>
    BY DEF Samples
  <2> HIDE DEF b
  <2>2. b \in Seq({k} \X Int) /\ Len(b) = n
    BY SamplesTaken DEF b
  <2> QED BY <2>1, <2>2
<1>4. PICK c \in Seq({k} \X Int) : c = b
  BY <1>3
<1>5. p + t \in 0 .. Len(c) /\ n - 1 \in 0 .. Len(c)
  BY <1>2, <1>3, <1>4
<1> HIDE DEF b
<1>6. PICK f \in 0 .. Len(c) : f = p + t
  BY <1>5
<1>7. PICK l \in 0 .. Len(c) : l = n - 1
  BY <1>5
<1>13. before = EraseBufferRange(c, f, l)
  BY <1>1, <1>4, <1>6, <1>7
<1> HIDE DEF before
<1>14. PICK S : S = {k} \X Int
  OBVIOUS
<1>15. c \in Seq(S)
  BY <1>14
<1>8. /\ before \in Seq(S)
      /\ Len(before) = f + (Len(c) - l)
      /\ \A j \in 1 .. f : before[j] = c[j]
      /\ \A j \in 1 .. Len(c) - l : before[f + j] = c[l + j]
  BY <1>13, <1>15, Erased, Zenon
<1>9. Len(before) = p + t + 1 /\ Len(c) = n
  BY <1>3, <1>4, <1>6, <1>7, <1>8
<1>10. \A j \in 1 .. p + t : before[j] = <<k, Place(j - 1 - t)>>
  <2> TAKE j \in 1 .. p + t
  <2>1. j \in 1 .. f /\ j \in 1 .. n
    BY <1>2, <1>6
  <2>2. before[j] = c[j] /\ b[j] = <<k, Place(j - 1 - t)>>
    BY <1>3, <1>8, <2>1, Zenon
  <2> QED BY <1>4, <2>2, Zenon
<1>11. before[p + t + 1] = <<k, Place(n - 1 - t)>>
  <2>1. 1 \in 1 .. Len(c) - l /\ f + 1 = p + t + 1 /\ l + 1 = n
    BY <1>6, <1>7, <1>9
  <2>2. before[f + 1] = c[l + 1] /\ n \in 1 .. n
    BY <1>2, <1>8, <2>1
  <2> QED BY <1>3, <1>4, <2>1, <2>2
<1>12. ASSUME t # 0
       PROVE  /\ after \in Seq({k} \X Int) /\ Len(after) = p + 2
              /\ \A j \in 1 .. Len(after) : after[j] = <<k, j - 2>>
  <2>1. PICK d \in Seq(S) : d = before
    BY <1>8
  <2>2. 0 \in 0 .. Len(d) /\ t - 1 \in 0 .. Len(d)
    BY <1>9, <1>12, <2>1
  <2>3. PICK m \in 0 .. Len(d) : m = t - 1
    BY <2>2
  <2>7. after = EraseBufferRange(d, 0, m)
    BY <2>1, <2>3
  <2> HIDE DEF after
  <2>4. /\ after \in Seq(S)
        /\ Len(after) = 0 + (Len(d) - m)
        /\ \A j \in 1 .. Len(d) - m : after[0 + j] = d[m + j]
    BY <2>2, <2>7, Erased, Zenon
  <2>8. Len(d) = p + t + 1
    BY <1>9, <2>1, Zenon
  <2>5. Len(after) = p + 2 /\ Len(d) - m = p + 2
    <3>1. Len(d) - m = p + 2
      BY <2>3, <2>8
    <3>2. 0 + (Len(d) - m) = p + 2
      BY <3>1
    <3> QED BY <2>4, <3>1, <3>2, Zenon
  <2>6. ASSUME NEW j \in 1 .. p + 2 PROVE after[j] = <<k, j - 2>>
    <3>1. after[j] = before[m + j] /\ m + j = t - 1 + j
      <4>1. after[0 + j] = d[m + j]
        BY <2>4, <2>5, Zenon
      <4>2. 0 + j = j /\ m + j = t - 1 + j
        BY <2>3
      <4> QED BY <2>1, <4>1, <4>2, Zenon
    <3>2. CASE j <= p + 1
      <4>1. t - 1 + j \in 1 .. p + t /\ (t - 1 + j) - 1 - t = j - 2
        BY <1>12, <3>2
      <4>2. Place(j - 2) = j - 2
        BY <1>1, <3>2 DEF Place
      <4> QED BY <1>10, <3>1, <4>1, <4>2
    <3>3. CASE j = p + 2
      <4>1. Place(n - 1 - t) = p
        BY <1>1, <1>2 DEF Place
      <4>2. m + j = p + t + 1
        BY <3>1, <3>3
      <4>3. p = j - 2
        BY <3>3
      <4> QED BY <1>11, <3>1, <4>1, <4>2, <4>3, Zenon
    <3> QED BY <3>2, <3>3
  <2> QED BY <1>14, <2>4, <2>5, <2>6
<1>16. before \in Seq({k} \X Int)
  BY <1>8, <1>14
<1> QED BY <1>1, <1>9, <1>12, <1>16 DEF before, b, after, CutBehind, CutBefore, Consecutive

LEMMA PreambleLeft ==
  ASSUME NEW k \in Nat, NEW n \in Nat, NEW t \in Nat, t # 0, PreambleLen \in Nat,
         Available(n, t)
  PROVE  /\ CutBefore(k, n, t) \in Seq({k} \X Int)
         /\ Len(CutBefore(k, n, t)) = PreambleLen + 2
         /\ Consecutive(k, CutBefore(k, n, t))
BY PreambleCut

\* What is filled up with zeros begins as before.
LEMMA Spaced ==
  ASSUME NEW T, Zero \in T, NEW s \in Seq(T), NEW m \in Int
  PROVE  /\ InsertRearSpacing(s, m) \in Seq(T)
         /\ Len(InsertRearSpacing(s, m)) >= Len(s) + m
         /\ Len(InsertRearSpacing(s, m)) >= Len(s)
         /\ \A j \in 1 .. Len(s) : InsertRearSpacing(s, m)[j] = s[j]
         /\ \A j \in DOMAIN InsertRearSpacing(s, m) :
              j > Len(s) => InsertRearSpacing(s, m)[j] = Zero
<1>1. PICK n \in Nat : 1 .. m = 1 .. n /\ n >= m
  <2>1. CASE m >= 0
    BY <2>1
  <2>2. CASE m < 0
    <3>1. 1 .. m = 1 .. 0 /\ 0 >= m
      BY <2>2
    <3> QED BY <3>1
  <2> QED BY <2>1, <2>2
<1>2. Zeros(m) \in [1 .. n -> T] /\ \A j \in 1 .. n : Zeros(m)[j] = Zero
  BY <1>1 DEF Zeros
<1>3. PICK z \in [1 .. n -> T] : z = Zeros(m)
  BY <1>2
<1>4. z \in Seq(T) /\ Len(z) = n
  BY Listed
<1>5. InsertRearSpacing(s, m) = s \o z
  BY <1>3 DEF InsertRearSpacing
<1>6. /\ s \o z \in Seq(T) /\ Len(s \o z) = Len(s) + n
      /\ \A j \in 1 .. Len(s) : (s \o z)[j] = s[j]
      /\ \A j \in DOMAIN (s \o z) : j > Len(s) => (s \o z)[j] = z[j - Len(s)]
                                                  /\ j - Len(s) \in 1 .. n
  BY <1>4
<1>7. Len(s) + n >= Len(s) + m /\ Len(s) + n >= Len(s)
  BY <1>1
<1>8. \A j \in DOMAIN (s \o z) : j > Len(s) => (s \o z)[j] = Zero
  BY <1>2, <1>3, <1>6, Zenon
<1> QED BY <1>5, <1>6, <1>7, <1>8

Cut(t) == current.prevUsed /\ Available(current.samples, t)

LEMMA RawEmitted ==
  ASSUME NEW k \in Nat \ {0}, PreambleLen \in Nat, current.samples \in Nat \ {0},
         ~ current.prevUsed, NEW t, NEW b \in ToEmit(k, t)
  PROVE  /\ b = [on |-> TRUE, samples |-> b.samples]
         /\ b.samples \in Seq({k} \X Int) /\ b.samples # << >>
         /\ b.samples[1] \in {k} \X Int
<1> DEFINE s == Samples(k, current.samples, 0)
<1>1. b = [on |-> TRUE, samples |-> s] /\ b.samples = s
  BY DEF ToEmit
<1>2. PICK n \in Nat \ {0} : n = current.samples
  OBVIOUS
<1>3. s \in Seq({k} \X Int) /\ Len(s) = n
  <2>1. PICK c \in Nat, m \in Nat, z \in Nat : c = k /\ m = n /\ z = 0
    OBVIOUS
  <2>2. Samples(c, m, z) \in Seq({c} \X Int) /\ Len(Samples(c, m, z)) = m
    BY SamplesTaken
  <2> QED BY <1>2, <2>1, <2>2
<1> HIDE DEF s
<1>4. s # << >> /\ 1 \in 1 .. Len(s)
  BY <1>3, EmptySeq
<1>5. s[1] \in {k} \X Int
  BY <1>3, <1>4
<1> QED BY <1>1, <1>3, <1>4, <1>5

\* With a trigger behind the first sample, the output holds the preamble from the sample
\* before the trigger on, and the one behind it.
LEMMA CutEmitted ==
  ASSUME NEW k \in Nat \ {0}, PreambleLen \in Nat, current.samples \in Nat, rx \in Nat,
         NEW t \in Nat \ {0}, Cut(t), NEW b \in ToEmit(k, t)
  PROVE  /\ b = [on |-> TRUE, samples |-> b.samples]
         /\ b.samples \in Seq({Zero} \cup {k} \X Int)
         /\ Len(b.samples) >= rx /\ Len(b.samples) >= PreambleLen + 2
         /\ \A j \in DOMAIN b.samples :
              b.samples[j] = IF j <= PreambleLen + 2 THEN <<k, j - 2>> ELSE Zero
<1> DEFINE p == CutBefore(k, current.samples, t)
           s == InsertRearSpacing(p, rx - Len(p))
<1>1. b = [on |-> TRUE, samples |-> s] /\ b.samples = s
  BY DEF ToEmit, Cut, Normalized, Preambles, CutBefore, CutBehind
<1>2. PICK n \in Nat : n = current.samples
  OBVIOUS
<1>3. /\ p \in Seq({k} \X Int) /\ Len(p) = PreambleLen + 2
      /\ \A j \in 1 .. Len(p) : p[j] = <<k, j - 2>>
  <2>1. PICK c \in Nat, m \in Nat, z \in Nat :
          c = k /\ m = n /\ z = t /\ z # 0 /\ Available(m, z)
    BY <1>2 DEF Cut
  <2>2. /\ CutBefore(c, m, z) \in Seq({c} \X Int)
        /\ Len(CutBefore(c, m, z)) = PreambleLen + 2
        /\ Consecutive(c, CutBefore(c, m, z))
    BY <2>1, PreambleLeft
  <2>3. CutBefore(c, m, z) = p
    BY <1>2, <2>1
  <2> HIDE DEF p
  <2> QED BY <2>1, <2>2, <2>3, Zenon DEF Consecutive
<1>4. PICK T : T = {Zero} \cup {k} \X Int
  OBVIOUS
<1>5. PICK q \in Seq(T) : q = p
  <2>1. {k} \X Int \subseteq T
    BY <1>4
  <2>2. PICK q \in Seq({k} \X Int) : q = p
    BY <1>3
  <2>3. q \in Seq(T)
    BY <2>1, SeqOfMore
  <2> QED BY <2>2, <2>3
<1>6. PICK l \in Nat : l = PreambleLen
  OBVIOUS
<1> HIDE DEF p
<1>7. Len(q) = l + 2
  BY <1>3, <1>5, <1>6
<1>14. rx - Len(q) \in Int
  BY <1>7
<1>8. PICK m \in Int : m = rx - Len(q)
  BY <1>14
<1>9. s = InsertRearSpacing(q, m)
  BY <1>5, <1>8
<1> HIDE DEF s
<1>15. Zero \in T
  BY <1>4
<1>10. /\ s \in Seq(T)
       /\ Len(s) >= Len(q) + m /\ Len(s) >= Len(q)
       /\ \A j \in 1 .. Len(q) : s[j] = q[j]
       /\ \A j \in DOMAIN s : j > Len(q) => s[j] = Zero
  BY <1>9, <1>15, Spaced, Zenon
<1>11. PICK h \in Nat : h = Len(s) /\ DOMAIN s = 1 .. h
  BY <1>10
<1>12. h >= rx /\ h >= l + 2
  BY <1>7, <1>8, <1>10, <1>11
<1>13. \A j \in 1 .. h : s[j] = IF j <= l + 2 THEN <<k, j - 2>> ELSE Zero
  <2> TAKE j \in 1 .. h
  <2>1. CASE j <= l + 2
    <3>1. j \in 1 .. Len(q)
      BY <1>7, <2>1
    <3>2. s[j] = q[j] /\ p[j] = <<k, j - 2>>
      BY <1>3, <1>5, <1>10, <3>1, Zenon
    <3> QED BY <1>5, <2>1, <3>2, Zenon
  <2>2. CASE ~ (j <= l + 2)
    <3>1. j > Len(q)
      BY <1>7, <2>2
    <3> QED BY <1>10, <1>11, <2>2, <3>1, Zenon
  <2> QED BY <2>1, <2>2
<1> QED BY <1>1, <1>4, <1>6, <1>10, <1>11, <1>12, <1>13

\* With a trigger in front, a sample from nowhere comes first.
LEMMA UndefinedEmitted ==
  ASSUME NEW k \in Nat \ {0}, PreambleLen \in Nat, current.samples \in Nat, rx \in Nat,
         Cut(0), NEW b \in ToEmit(k, 0)
  PROVE  /\ b = [on |-> TRUE, samples |-> b.samples]
         /\ b.samples \in Seq(SamplesOf(k))
         /\ Len(b.samples) >= rx /\ Len(b.samples) >= 1 /\ b.samples[1] = Stray(k)
<1> DEFINE before == CutBehind(k, current.samples, 0)
<1>1. PICK p \in EraseBackwards(before, k) :
        b = [on |-> TRUE, samples |-> InsertRearSpacing(p, rx - Len(p))]
  BY DEF ToEmit, Cut, Normalized, Preambles, CutBehind
<1>2. PICK n \in Nat : n = current.samples
  OBVIOUS
<1>3. before \in Seq({k} \X Int) /\ Len(before) = PreambleLen + 0 + 1
  <2>1. k \in Nat /\ 0 \in Nat
    OBVIOUS
  <2> QED BY <1>2, <2>1, PreambleCut DEF Cut
<1>4. PICK T : T = SamplesOf(k)
  OBVIOUS
<1>5. {k} \X Int \subseteq T /\ Stray(k) \in T /\ Zero \in T
  BY <1>4 DEF SamplesOf, Stray
<1>6. PICK q \in Seq({k} \X Int) : q = before
  BY <1>3
<1>7. q \in Seq(T)
  BY <1>5, SeqOfMore
<1>8. Len(q) \in Nat
  OBVIOUS
<1> HIDE DEF before
<1>9. /\ p \in Seq(T) /\ Len(p) >= 1 /\ p[1] = Stray(k)
  <2>1. CASE p = <<Stray(k)>> \o q
    <3>1. <<Stray(k)>> \in Seq(T) /\ Len(<<Stray(k)>>) = 1 /\ <<Stray(k)>>[1] = Stray(k)
      BY <1>5
    <3>2. PICK a \in Seq(T) : a = <<Stray(k)>>
      BY <3>1
    <3>3. a \o q \in Seq(T) /\ Len(a \o q) = Len(a) + Len(q) /\ Len(a) = 1
      BY <1>7, <3>1, <3>2
    <3>4. (a \o q)[1] = a[1]
      BY <1>7, <3>3
    <3> QED BY <2>1, <3>1, <3>2, <3>3, <3>4
  <2>2. CASE p = [i \in 1 .. Len(q) + 1 |-> Stray(k)]
    <3>1. p \in [1 .. Len(q) + 1 -> T]
      BY <1>5, <2>2
    <3>2. PICK c \in Nat : c = Len(q) + 1
      OBVIOUS
    <3>3. p \in Seq(T) /\ Len(p) = c
      BY <3>1, <3>2, Listed
    <3>4. 1 \in 1 .. Len(q) + 1
      OBVIOUS
    <3> QED BY <2>2, <3>2, <3>3, <3>4
  <2> QED BY <1>1, <1>6, <2>1, <2>2 DEF EraseBackwards
<1>16. rx - Len(p) \in Int
  <2>1. Len(p) \in Nat
    BY <1>9
  <2> QED BY <2>1
<1>10. PICK m \in Int : m = rx - Len(p)
  BY <1>16
<1>11. PICK s : s = InsertRearSpacing(p, m)
  OBVIOUS
<1>12. /\ s \in Seq(T)
       /\ Len(s) >= Len(p) + m /\ Len(s) >= Len(p)
       /\ \A j \in 1 .. Len(p) : s[j] = p[j]
  BY <1>5, <1>9, <1>11, Spaced, Zenon
<1>13. Len(s) >= rx /\ Len(s) >= 1 /\ 1 \in 1 .. Len(p)
  BY <1>9, <1>10, <1>12
<1>14. s[1] = Stray(k)
  BY <1>9, <1>12, <1>13
<1>15. b = [on |-> TRUE, samples |-> s] /\ b.samples = s
  BY <1>1, <1>10, <1>11
<1> QED BY <1>4, <1>12, <1>13, <1>14, <1>15

\* What was left too late is not put out.
LEMMA NotEmitted ==
  ASSUME NEW k \in Nat, rx \in Nat, current.prevUsed, NEW t, ~ Cut(t), NEW b \in ToEmit(k, t)
  PROVE  /\ b = [on |-> FALSE, samples |-> b.samples]
         /\ b.samples \in Seq({Zero})
<1>1. b = [on |-> FALSE, samples |-> InsertRearSpacing(<< >>, rx)]
  BY DEF ToEmit, Cut, Normalized
<1>2. << >> \in Seq({Zero}) /\ Zero \in {Zero} /\ rx \in Int
  OBVIOUS
<1>3. InsertRearSpacing(<< >>, rx) \in Seq({Zero})
  BY <1>2, Spaced, Zenon
<1> QED BY <1>1, <1>3

LEMMA OwnerIs ==
  ASSUME NEW k \in Nat \ {0}, NEW b, b # << >>, b[1] \in {-k, k} \X Int
  PROVE  Owner(b) = k
<1>1. PICK c \in {-k, k}, i \in Int : b[1] = <<c, i>>
  OBVIOUS
<1>2. c # 0 /\ (c < 0 => -c = k) /\ (~ (c < 0) => c = k)
  OBVIOUS
<1>3. b[1] # Zero /\ b[1][1] = c
  BY <1>1, <1>2 DEF Zero
<1> QED BY <1>2, <1>3 DEF Owner

\* What may go to the output for packet k, all cases together.
LEMMA Emitted ==
  ASSUME NEW k \in Nat \ {0}, PreambleLen \in Nat, current.samples \in Nat \ {0},
         current.prevUsed \in BOOLEAN, rx \in Nat, NEW t \in Nat, NEW b \in ToEmit(k, t)
  PROVE  /\ b = [on |-> b.on, samples |-> b.samples]
         /\ b.on \in BOOLEAN /\ (b.on <=> ~current.prevUsed \/ Cut(t))
         /\ b.on => /\ b.samples # << >> /\ Owner(b.samples) = k
                    /\ current.prevUsed => Len(b.samples) >= rx
         /\ \/ b.samples \in Seq({Zero} \cup {k} \X Int)
            \/ Cut(t) /\ t = 0 /\ b.samples \in Seq(SamplesOf(k))
<1>1. CASE ~ current.prevUsed
  <2>1. /\ b = [on |-> TRUE, samples |-> b.samples]
        /\ b.samples \in Seq({k} \X Int) /\ b.samples # << >> /\ b.samples[1] \in {k} \X Int
    BY <1>1, RawEmitted
  <2>2. PICK s \in Seq({k} \X Int) : s = b.samples
    BY <2>1
  <2>3. s \in Seq({Zero} \cup {k} \X Int)
    BY SeqOfMore
  <2>4. Owner(s) = k
    BY <2>1, <2>2, OwnerIs
  <2>5. b.on = TRUE
    BY <2>1
  <2> QED BY <1>1, <2>1, <2>2, <2>3, <2>4, <2>5
<1>2. CASE Cut(t) /\ t # 0
  <2>1. /\ b = [on |-> TRUE, samples |-> b.samples]
        /\ b.samples \in Seq({Zero} \cup {k} \X Int)
        /\ Len(b.samples) >= rx /\ Len(b.samples) >= PreambleLen + 2
        /\ \A j \in DOMAIN b.samples :
             b.samples[j] = IF j <= PreambleLen + 2 THEN <<k, j - 2>> ELSE Zero
    BY <1>2, CutEmitted
  <2>2. PICK s \in Seq({Zero} \cup {k} \X Int) : s = b.samples
    BY <2>1
  <2>3. PICK l \in Nat : l = PreambleLen
    OBVIOUS
  <2>4. 1 \in DOMAIN s /\ 1 <= l + 2
    BY <2>1, <2>2, <2>3
  <2>5. s[1] = <<k, 1 - 2>> /\ s # << >>
    BY <2>1, <2>2, <2>3, <2>4, EmptySeq
  <2>6. Owner(s) = k
    <3>1. s[1] \in {-k, k} \X Int
      BY <2>5
    <3> QED BY <2>5, <3>1, OwnerIs
  <2>7. b.on = TRUE /\ current.prevUsed
    BY <1>2, <2>1 DEF Cut
  <2> QED BY <1>2, <2>1, <2>2, <2>5, <2>6, <2>7
<1>3. CASE Cut(t) /\ t = 0
  <2>1. /\ b = [on |-> TRUE, samples |-> b.samples]
        /\ b.samples \in Seq(SamplesOf(k))
        /\ Len(b.samples) >= rx /\ Len(b.samples) >= 1 /\ b.samples[1] = Stray(k)
    BY <1>3, UndefinedEmitted
  <2>2. PICK s \in Seq(SamplesOf(k)) : s = b.samples
    BY <2>1
  <2>3. s # << >> /\ s[1] \in {-k, k} \X Int
    <3>1. Stray(k) \in {-k, k} \X Int
      BY DEF Stray
    <3>2. Len(s) # 0
      BY <2>1, <2>2
    <3> QED BY <2>1, <2>2, <3>1, <3>2, EmptySeq
  <2>4. Owner(s) = k
    BY <2>3, OwnerIs
  <2>5. b.on = TRUE /\ current.prevUsed
    BY <1>3, <2>1 DEF Cut
  <2> QED BY <1>3, <2>1, <2>2, <2>3, <2>4, <2>5
<1>4. CASE current.prevUsed /\ ~ Cut(t)
  <2>1. b = [on |-> FALSE, samples |-> b.samples] /\ b.samples \in Seq({Zero})
    BY <1>4, NotEmitted
  <2>2. PICK s \in Seq({Zero}) : s = b.samples
    BY <2>1
  <2>3. s \in Seq({Zero} \cup {k} \X Int)
    BY SeqOfMore
  <2>4. b.on = FALSE
    BY <2>1
  <2> QED BY <1>4, <2>1, <2>2, <2>3, <2>4
<1> QED BY <1>1, <1>2, <1>3, <1>4 DEF Cut

\* Whether a packet's samples are to go out when its call ends.
Goes(p) == (p.cut \/ p.raw) /\ p.last /\ ~p.held

\* The samples there may be: of the packets received, and from nowhere only if one was
\* raw or undefined.
Wild(ps) == {h \in DOMAIN ps : ps[h].raw \/ ps[h].undefined}
Possible(ps) == {Zero} \cup (DOMAIN ps \cup {-h : h \in Wild(ps)}) \X Int

Kept(b, ps) ==
  b.on => /\ b.samples # << >> /\ Owner(b.samples) \in DOMAIN ps
          /\ ~ps[Owner(b.samples)].over
          /\ ~ps[Owner(b.samples)].raw => Len(b.samples) >= rx

\* A packet of past calls went out or not; one of this call will if it owns the buffer.
Settled(p, mine) ==
  IF p.over THEN p.out <=> Goes(p) ELSE ~p.out /\ (Goes(p) <=> mine)

EmitInv ==
  /\ crcBuffer.on \in BOOLEAN
  /\ crcBuffer.on => rx # 0
  /\ crcBuffer.samples \in Seq(Possible(packets)) /\ out \in Seq(Possible(packets))
  /\ Kept(crcBuffer, packets)
  /\ \A k \in DOMAIN packets :
       Settled(packets[k], crcBuffer.on /\ k = Owner(crcBuffer.samples))

LEMMA PreambleNat == PhyInv => PreambleLen \in Nat
BY PreambleLenNat DEF PhyInv, PreambleLen

\* What was possible for some packets is for more of them, if none of theirs was raw or
\* undefined and is not now.
LEMMA PossibleOfMore ==
  ASSUME NEW ps, NEW qs, DOMAIN ps \subseteq DOMAIN qs,
         \A k \in DOMAIN ps : /\ ps[k].raw => qs[k].raw
                              /\ ps[k].undefined => qs[k].undefined
  PROVE  Possible(ps) \subseteq Possible(qs)
<1>1. Wild(ps) \subseteq Wild(qs)
  BY DEF Wild
<1> QED BY <1>1 DEF Possible

\* The output of a call is that of the packet that has the buffer.
LEMMA OwnerAtEnd ==
  ReceiverInv /\ EmitInv /\ EndCall
  => Owner(out') = IF crcBuffer.on THEN Owner(crcBuffer.samples) ELSE 0
<1> SUFFICES ASSUME ReceiverInv, EmitInv, EndCall
             PROVE  Owner(out') = IF crcBuffer.on THEN Owner(crcBuffer.samples) ELSE 0
  OBVIOUS
<1> DEFINE b == crcBuffer.samples
<1>1. PICK n \in Nat \ {0} : n = rx
  BY MostSamples DEF EndCall, ReceiverInv
<1>2. 1 \in 1 .. n /\ out'[1] = Written[1] /\ out' # << >>
  <2>1. out' = Written
    BY DEF EndCall
  <2>2. DOMAIN Written = 1 .. n /\ 1 \in 1 .. n
    BY <1>1 DEF Written
  <2>3. Written # << >>
    BY <2>2
  <2> QED BY <2>1, <2>2, <2>3, Zenon
<1>3. CASE ~ crcBuffer.on
  <2>1. out'[1] = Zero
    BY <1>1, <1>2, <1>3 DEF Written
  <2> QED BY <1>2, <1>3, <2>1 DEF Owner
<1>4. CASE crcBuffer.on
  <2>1. b # << >> /\ b \in Seq(Possible(packets))
    BY <1>4 DEF EmitInv, Kept
  <2>2. Len(b) \in Nat \ {0}
    BY <2>1, EmptySeq
  <2>3. 1 <= Len(b)
    BY <2>2
  <2>4. out'[1] = b[1]
    BY <1>1, <1>2, <1>4, <2>3 DEF Written
  <2> QED BY <1>2, <1>4, <2>1, <2>4 DEF Owner
<1> QED BY <1>3, <1>4

LEMMA EmitAtEnd ==
  ReceiverInv /\ CountInv /\ EmitInv /\ EndCall => EmitInv'
<1> SUFFICES ASSUME ReceiverInv, CountInv, EmitInv, EndCall PROVE EmitInv'
  OBVIOUS
<1> DEFINE b == crcBuffer.samples
<1>1. PICK n \in Nat \ {0} : n = rx
  BY MostSamples DEF EndCall, ReceiverInv
<1>2. /\ packets' \in Seq(Packets) /\ Len(packets') = Len(packets)
      /\ \A k \in DOMAIN packets :
           packets'[k] = [packets[k] EXCEPT !.over = TRUE,
                                            !.out = packets[k].out \/ k = Owner(out')]
  BY PacketsAtEnd DEF CountInv
<1>3. DOMAIN packets' = DOMAIN packets /\ DOMAIN packets = 1 .. Len(packets)
  <2>1. packets \in Seq(Packets) /\ packets' \in Seq(Packets) /\ Len(packets') = Len(packets)
    BY <1>2 DEF CountInv
  <2>2. DOMAIN packets = 1 .. Len(packets) /\ DOMAIN packets' = 1 .. Len(packets')
    BY <2>1, LenProperties
  <2> QED BY <2>1, <2>2
<1>4. ASSUME NEW k \in DOMAIN packets
      PROVE  /\ packets[k] \in Packets
             /\ packets'[k].raw = packets[k].raw /\ packets'[k].undefined = packets[k].undefined
             /\ Goes(packets'[k]) = Goes(packets[k])
             /\ packets'[k].over = TRUE
             /\ packets'[k].out = (packets[k].out \/ k = Owner(out'))
  <2>1. packets[k] \in Packets
    BY DEF CountInv
  <2> QED BY <1>2, <2>1 DEF Packets, Goes
<1>5. Possible(packets) \subseteq Possible(packets')
  BY <1>3, <1>4, PossibleOfMore
<1>6. ASSUME NEW c \in 1 .. n PROVE Written[c] \in Possible(packets)
  <2>1. Written[c] = IF ~crcBuffer.on THEN Zero ELSE IF c <= Len(b) THEN b[c] ELSE Stray(Owner(b))
    BY <1>1 DEF Written
  <2>2. CASE ~ crcBuffer.on
    BY <2>1, <2>2 DEF Possible
  <2>3. CASE crcBuffer.on /\ c <= Len(b)
    <3>1. b \in Seq(Possible(packets)) /\ c \in 1 .. Len(b)
      BY <2>3 DEF EmitInv
    <3>2. b[c] \in Possible(packets)
      BY <3>1, ElementOfSeq
    <3> QED BY <2>1, <2>3, <3>2
  <2>4. CASE crcBuffer.on /\ ~ (c <= Len(b))
    <3>1. Owner(b) \in DOMAIN packets /\ (~packets[Owner(b)].raw => Len(b) >= n)
      BY <1>1, <2>4 DEF EmitInv, Kept
    <3>2. b \in Seq(Possible(packets))
      BY DEF EmitInv
    <3>3. Len(b) \in Nat
      BY <3>2
    <3>4. packets[Owner(b)].raw
      BY <2>4, <3>1, <3>3
    <3>5. Owner(b) \in Wild(packets)
      BY <3>1, <3>4 DEF Wild
    <3>6. Stray(Owner(b)) \in Possible(packets)
      BY <3>5 DEF Stray, Possible
    <3> QED BY <2>1, <2>4, <3>6
  <2> QED BY <2>2, <2>3, <2>4
<1>7. out' \in Seq(Possible(packets')) /\ Len(out') = n
  <2>1. out' \in [1 .. n -> Possible(packets)]
    <3>1. out' = Written
      BY DEF EndCall
    <3>2. Written = [c \in 1 .. n |-> Written[c]]
      BY <1>1 DEF Written
    <3> HIDE DEF Written
    <3> QED BY <1>6, <3>1, <3>2
  <2>2. out' \in Seq(Possible(packets)) /\ Len(out') = n
    BY <2>1, Listed
  <2>3. PICK o \in Seq(Possible(packets)) : o = out'
    BY <2>2
  <2>4. o \in Seq(Possible(packets'))
    BY <1>5, SeqOfMore
  <2> QED BY <2>2, <2>3, <2>4
<1>8. Owner(out') = IF crcBuffer.on THEN Owner(b) ELSE 0
  BY OwnerAtEnd
<1>9. ASSUME NEW k \in DOMAIN packets
      PROVE  Settled(packets'[k], crcBuffer'.on /\ k = Owner(crcBuffer'.samples))
  <2>1. Settled(packets[k], crcBuffer.on /\ k = Owner(b))
    BY DEF EmitInv
  <2>2. k # 0
    BY <1>3
  <2>3. CASE packets[k].over
    <3>1. k # Owner(out')
      BY <1>8, <2>2, <2>3 DEF EmitInv, Kept
    <3> QED BY <1>4, <2>1, <2>3, <3>1 DEF Settled
  <2>4. CASE ~ packets[k].over
    <3>1. k = Owner(out') <=> crcBuffer.on /\ k = Owner(b)
      BY <1>8, <2>2
    <3> QED BY <1>4, <2>1, <2>4, <3>1 DEF Settled
  <2> QED BY <2>3, <2>4
<1>10. crcBuffer' = [on |-> FALSE, samples |-> << >>]
  BY DEF EndCall, UnsetBuffer
<1>11. << >> \in Seq(Possible(packets'))
  OBVIOUS
<1> QED BY <1>3, <1>7, <1>9, <1>10, <1>11 DEF EmitInv, Kept

\* With a packet filled there is one more; of the others only the flag that they are the
\* last may change.
LEMMA Completed ==
  ASSUME CountInv, NEW t, NEW good \in BOOLEAN, Complete(t, good)
  PROVE  /\ DOMAIN packets = 1 .. Len(packets) /\ Len(packets) \in Nat
         /\ DOMAIN packets' = DOMAIN packets \cup {Len(packets) + 1}
         /\ packets'[Len(packets) + 1] = Entry(t, good)
         /\ \A h \in DOMAIN packets :
              /\ packets[h] \in Packets
              /\ packets'[h] = IF Entry(t, good).held THEN packets[h]
                               ELSE [packets[h] EXCEPT !.last = packets[h].last /\ packets[h].over]
              /\ packets'[h].raw = packets[h].raw /\ packets'[h].undefined = packets[h].undefined
              /\ packets'[h].over = packets[h].over /\ packets'[h].out = packets[h].out
<1> DEFINE k == Len(packets) + 1
           e == Entry(t, good)
           ps == Others(e.held)
<1>1. /\ e \in Packets /\ ps \in Seq(Packets) /\ Len(ps) = Len(packets)
      /\ packets' = Append(ps, e)
  BY Filed DEF CountInv
<1>2. Len(packets) \in Nat /\ DOMAIN packets = 1 .. Len(packets)
  BY DEF CountInv
<1>3. /\ DOMAIN packets' = DOMAIN packets \cup {k} /\ packets'[k] = e
      /\ \A h \in DOMAIN packets : packets'[h] = ps[h]
  <2>1. DOMAIN ps = DOMAIN packets /\ Len(ps) + 1 = k
    BY <1>1, <1>2
  <2> HIDE DEF ps, e
  <2>2. /\ DOMAIN Append(ps, e) = DOMAIN ps \cup {Len(ps) + 1}
        /\ Append(ps, e)[Len(ps) + 1] = e
        /\ \A h \in DOMAIN ps : Append(ps, e)[h] = ps[h]
    BY <1>1
  <2> QED BY <1>1, <2>1, <2>2
<1>4. ASSUME NEW h \in DOMAIN packets
      PROVE  /\ packets[h] \in Packets
             /\ packets'[h] = IF e.held THEN packets[h]
                              ELSE [packets[h] EXCEPT !.last = packets[h].last /\ packets[h].over]
  <2>1. packets[h] \in Packets
    BY DEF CountInv
  <2>2. ps[h] = IF e.held THEN packets[h]
                ELSE [packets[h] EXCEPT !.last = packets[h].last /\ packets[h].over]
    BY PacketsFollowed DEF Others, CountInv
  <2> QED BY <1>3, <2>1, <2>2
<1>5. ASSUME NEW h \in DOMAIN packets
      PROVE  /\ packets'[h].raw = packets[h].raw /\ packets'[h].undefined = packets[h].undefined
             /\ packets'[h].over = packets[h].over /\ packets'[h].out = packets[h].out
  BY <1>4 DEF Packets
<1> QED BY <1>2, <1>3, <1>4, <1>5

LEMMA EmitAtComplete ==
  ASSUME ReceiverInv, WindowInv, CountInv, EmitInv, PreambleLen \in Nat,
         NEW t \in Nat, NEW good \in BOOLEAN, Complete(t, good)
  PROVE  EmitInv'
<1> DEFINE k == Len(packets) + 1
           e == Entry(t, good)
<1>2. /\ Len(packets) \in Nat /\ k \in Nat \ {0} /\ k \notin DOMAIN packets
      /\ DOMAIN packets = 1 .. Len(packets)
  BY DEF CountInv
<1>3. DOMAIN packets' = DOMAIN packets \cup {k} /\ packets'[k] = e
  BY Completed
<1>4. /\ e.raw = ~current.prevUsed /\ e.cut = Cut(t) /\ e.undefined = (Cut(t) /\ t = 0)
      /\ e.out = FALSE /\ e.last = TRUE /\ e.over = FALSE
      /\ e.held = HeldBack(frame.cnt + 1 < ShortLen, good)
  BY DEF Entry, Cut
<1>5. ASSUME NEW h \in DOMAIN packets
      PROVE  /\ packets[h] \in Packets
             /\ packets'[h] = IF e.held THEN packets[h]
                              ELSE [packets[h] EXCEPT !.last = packets[h].last /\ packets[h].over]
  BY Completed
<1>6. ASSUME NEW h \in DOMAIN packets
      PROVE  /\ packets'[h].raw = packets[h].raw /\ packets'[h].undefined = packets[h].undefined
             /\ packets'[h].over = packets[h].over
  BY Completed
<1>7. Possible(packets) \subseteq Possible(packets')
  BY <1>3, <1>6, PossibleOfMore
<1>8. rx' = rx /\ out' = out /\ rx # 0
  BY DEF Complete
<1>9. out' \in Seq(Possible(packets'))
  <2>1. PICK o \in Seq(Possible(packets)) : o = out
    BY DEF EmitInv
  <2>2. o \in Seq(Possible(packets'))
    BY <1>7, SeqOfMore
  <2> QED BY <1>8, <2>1, <2>2
<1> HIDE DEF e
<1>10. CASE e.held
  <2>1. crcBuffer' = crcBuffer
    BY <1>4, <1>10 DEF Complete
  <2>2. crcBuffer.samples \in Seq(Possible(packets'))
    <3>1. PICK o \in Seq(Possible(packets)) : o = crcBuffer.samples
      BY DEF EmitInv
    <3>2. o \in Seq(Possible(packets'))
      BY <1>7, SeqOfMore
    <3> QED BY <3>1, <3>2
  <2>3. \A h \in DOMAIN packets : packets'[h] = packets[h]
    BY <1>5, <1>10
  <2>4. Kept(crcBuffer, packets)'
    BY <1>3, <1>8, <2>1, <2>3 DEF EmitInv, Kept
  <2>5. crcBuffer.on => Owner(crcBuffer.samples) # k
    BY <1>2 DEF EmitInv, Kept
  <2>6. Settled(e, crcBuffer.on /\ k = Owner(crcBuffer.samples))
    BY <1>4, <1>10, <2>5 DEF Settled, Goes
  <2>7. \A h \in DOMAIN packets' :
          Settled(packets'[h], crcBuffer'.on /\ h = Owner(crcBuffer'.samples))
    BY <1>3, <2>1, <2>3, <2>6 DEF EmitInv
  <2> QED BY <1>8, <1>9, <2>1, <2>2, <2>4, <2>7 DEF EmitInv
<1>11. CASE ~ e.held
  <2>1. PICK b \in ToEmit(k, t) : b = crcBuffer'
    BY <1>4, <1>11 DEF Complete
  <2>2. /\ current.samples \in Nat \ {0} /\ current.prevUsed \in BOOLEAN /\ rx \in Nat
    BY MostSamples DEF WindowInv, Complete, ReceiverInv
  <2>3. /\ b.on \in BOOLEAN /\ (b.on <=> ~current.prevUsed \/ Cut(t))
        /\ b.on => /\ b.samples # << >> /\ Owner(b.samples) = k
                   /\ current.prevUsed => Len(b.samples) >= rx
        /\ \/ b.samples \in Seq({Zero} \cup {k} \X Int)
           \/ Cut(t) /\ t = 0 /\ b.samples \in Seq(SamplesOf(k))
    BY <1>2, <2>2, Emitted
  <2>4. b.samples \in Seq(Possible(packets'))
    <3>1. CASE b.samples \in Seq({Zero} \cup {k} \X Int)
      <4>1. {Zero} \cup {k} \X Int \subseteq Possible(packets')
        BY <1>3 DEF Possible
      <4>2. PICK s \in Seq({Zero} \cup {k} \X Int) : s = b.samples
        BY <3>1
      <4>3. s \in Seq(Possible(packets'))
        BY <4>1, SeqOfMore
      <4> QED BY <4>2, <4>3
    <3>2. CASE Cut(t) /\ t = 0 /\ b.samples \in Seq(SamplesOf(k))
      <4>1. k \in Wild(packets')
        BY <1>3, <1>4, <3>2 DEF Wild
      <4>2. SamplesOf(k) \subseteq Possible(packets')
        BY <1>3, <4>1 DEF Possible, SamplesOf
      <4>3. PICK s \in Seq(SamplesOf(k)) : s = b.samples
        BY <3>2
      <4>4. s \in Seq(Possible(packets'))
        BY <4>2, SeqOfMore
      <4> QED BY <4>3, <4>4
    <3> QED BY <2>3, <3>1, <3>2
  <2>5. b.on => /\ b.samples # << >> /\ Owner(b.samples) \in DOMAIN packets'
                /\ ~packets'[Owner(b.samples)].over
                /\ ~packets'[Owner(b.samples)].raw => Len(b.samples) >= rx'
    BY <1>3, <1>4, <1>8, <2>3
  <2>6. ASSUME NEW h \in DOMAIN packets
        PROVE  Settled(packets'[h], b.on /\ h = Owner(b.samples))
    <3>1. Settled(packets[h], crcBuffer.on /\ h = Owner(crcBuffer.samples)) /\ h # k
      BY <1>2 DEF EmitInv
    <3>2. ~ (b.on /\ h = Owner(b.samples))
      BY <2>3, <3>1
    <3>3. packets'[h] = [packets[h] EXCEPT !.last = packets[h].last /\ packets[h].over]
      BY <1>5, <1>11
    <3>4. CASE packets[h].over
      BY <1>5, <3>1, <3>3, <3>4 DEF Settled, Goes, Packets
    <3>5. CASE ~ packets[h].over
      BY <1>5, <3>1, <3>2, <3>3, <3>5 DEF Settled, Goes, Packets
    <3> QED BY <3>4, <3>5
  <2>7. Settled(e, b.on /\ k = Owner(b.samples))
    BY <1>4, <1>11, <2>3 DEF Settled, Goes
  <2>8. \A h \in DOMAIN packets' : Settled(packets'[h], b.on /\ h = Owner(b.samples))
    BY <1>3, <2>6, <2>7
  <2>9. Kept(crcBuffer, packets)'
    BY <2>1, <2>5 DEF Kept
  <2>10. crcBuffer'.on \in BOOLEAN /\ crcBuffer'.samples \in Seq(Possible(packets'))
    BY <2>1, <2>3, <2>4
  <2>11. \A h \in DOMAIN packets' :
           Settled(packets'[h], crcBuffer'.on /\ h = Owner(crcBuffer'.samples))
    BY <2>1, <2>8
  <2> QED BY <1>8, <1>9, <2>9, <2>10, <2>11 DEF EmitInv
<1> QED BY <1>4, <1>10, <1>11

LEMMA EmitStep ==
  /\ PhyInv /\ ReceiverInv /\ WindowInv /\ CountInv /\ EmitInv
  /\ CollectorNext \/ UNCHANGED collectorVars
  => EmitInv'
<1> SUFFICES ASSUME PhyInv, ReceiverInv, WindowInv, CountInv, EmitInv,
                    CollectorNext \/ UNCHANGED collectorVars
             PROVE  EmitInv'
  OBVIOUS
<1>1. CASE UNCHANGED <<crcBuffer, packets, out, rx>>
  BY <1>1 DEF EmitInv, Kept, Settled, Goes, Possible, Wild
<1>2. ASSUME NEW n \in RxSizes, BeginCall(n) PROVE EmitInv'
  <2>1. /\ crcBuffer' = crcBuffer /\ packets' = packets /\ out' = << >>
        /\ crcBuffer.on = FALSE
    BY <1>2 DEF BeginCall, EmitInv
  <2>2. << >> \in Seq(Possible(packets'))
    OBVIOUS
  <2> QED BY <2>1, <2>2 DEF EmitInv, Kept
<1>3. ASSUME NEW t \in 0 .. (current.samples - 1), NEW good \in BOOLEAN, Complete(t, good)
      PROVE  EmitInv'
  BY <1>3, PreambleNat, EmitAtComplete
<1>4. CASE EndCall
  BY <1>4, EmitAtEnd
<1> QED
  BY <1>1, <1>2, <1>3, <1>4
  DEF CollectorNext, FirstZero, FirstSfd, SecondSfd, SyncLost, InvalidSymbol,
      LengthByte, PayloadByte, SetBufferSize, SetSampRate, collectorVars, buffers

CollectorInv == PhyInv /\ ReceiverInv /\ WindowInv /\ CountInv /\ EmitInv

LEMMA CollectorStart == Init => CollectorInv
<1> SUFFICES ASSUME Init PROVE CollectorInv
  OBVIOUS
<1>1. CollectorInit
  BY DEF Init
<1>2. PhyInv
  BY <1>1, CollectorAssumption DEF PhyInv, CollectorInit
<1>3. /\ packets = << >> /\ out = << >> /\ Len(packets) = 0 /\ DOMAIN packets = {}
      /\ crcBuffer = [on |-> FALSE, samples |-> << >>] /\ rx = 0
  BY <1>1 DEF CollectorInit, UnsetBuffer
<1>4. ReceiverInv
  <2>1. 0 \in 0 .. MaxPktLen
    BY CollectorAssumption
  <2> QED BY <1>1, <2>1 DEF CollectorInit, ReceiverInv, Receiving, NoFrame
<1>5. WindowInv
  <2>1. /\ prev = [on |-> FALSE, sizes |-> << >>, samples |-> 0]
        /\ current = [samples |-> 0, prevUsed |-> FALSE] /\ dstate = "search"
    BY <1>1 DEF CollectorInit, NothingSet
  <2>2. bufferSize \in Nat \ {0} /\ largest = bufferSize
    BY <1>1, CollectorAssumption DEF CollectorInit, AtLeastOne
  <2>3. Sum(<< >>) = 0 /\ << >> \in Seq(RxSizes) /\ Len(<< >>) = 0
    BY SumEmpty
  <2>4. 0 <= (largest + 1) * Most
    BY <2>2, MostSamples
  <2>5. prev \in Bursts /\ prev.on = (prev.sizes # << >>)
    BY <2>1, <2>3 DEF Bursts
  <2>6. prev.samples = Sum(prev.sizes) /\ Len(prev.sizes) = 0
    BY <2>1, <2>3
  <2>7. /\ current \in [samples : Nat, prevUsed : BOOLEAN]
        /\ current.samples = 0 /\ current.samples <= (largest + 1) * Most
    BY <2>1, <2>4
  <2>8. bufferSize <= largest /\ 0 <= largest + 1 /\ largest \in Nat
    BY <2>2
  <2> HIDE DEF Most
  <2> QED BY <1>3, <2>1, <2>2, <2>5, <2>6, <2>7, <2>8 DEF WindowInv
<1>6. CountInv
  <2>1. {k \in DOMAIN packets : packets[k].cut} = {}
    BY <1>3
  <2>2. Cardinality({}) = 0
    BY FS_EmptySet
  <2>3. counts = [short |-> 0, bad |-> 0, good |-> 0, sent |-> 0, removed |-> 0]
    BY <1>1 DEF CollectorInit
  <2>4. << >> \in Seq(Packets) /\ MaxPackets \in Nat
    BY CollectorAssumption
  <2>5. PacketsCounted
    BY <1>3, <2>1, <2>2, <2>3 DEF PacketsCounted
  <2> QED BY <1>3, <2>3, <2>4, <2>5 DEF CountInv
<1>7. EmitInv
  <2>1. << >> \in Seq(Possible(packets))
    OBVIOUS
  <2> QED BY <1>3, <2>1 DEF EmitInv, Kept
<1> QED BY <1>2, <1>4, <1>5, <1>6, <1>7 DEF CollectorInv

LEMMA CollectorStep == CollectorInv /\ [Next]_vars => CollectorInv'
BY PhyStep, CollectorSteps, ReceiverStep, WindowStep, CountStep, EmitStep DEF CollectorInv

\* The collector's part of a model does what the properties below say.
THEOREM CollectorInvariance == Spec => []CollectorInv
<1>1. QED
  BY CollectorStart, CollectorStep, PTL DEF Spec

\* WindowKept: the samples dna_buffer keeps are those of the sizes it keeps, and there are
\* never more of either than one call above the largest buffer size set brings.
THEOREM WindowHolds == Spec => []WindowKept
<1>1. CollectorInv => WindowKept
  BY DEF CollectorInv, WindowInv, WindowKept, Most
<1> QED BY <1>1, CollectorInvariance, PTL

\* PacketsCounted: the statistics of preamble_sink agree with each other and with what
\* became of the packets.
THEOREM CountsAgree == Spec => []PacketsCounted
<1>1. CollectorInv => PacketsCounted
  BY DEF CollectorInv, CountInv
<1> QED BY <1>1, CollectorInvariance, PTL

\* WhatGoesOut: of the packets of a call, the last one that was not held back has the
\* output, if its preamble was cut or its samples were put out as they were; no other.
\* This is what general_work() does, and less than its comments promise.
THEOREM LastOneGoesOut == Spec => []WhatGoesOut
<1>1. CollectorInv => WhatGoesOut
  <2> SUFFICES ASSUME CollectorInv, NEW k \in DOMAIN packets, packets[k].over
               PROVE  packets[k].out <=> (packets[k].cut \/ packets[k].raw) /\ packets[k].last
                                                                   /\ ~packets[k].held
    BY DEF WhatGoesOut
  <2>1. Settled(packets[k], crcBuffer.on /\ k = Owner(crcBuffer.samples))
    BY DEF CollectorInv, EmitInv
  <2> QED BY <2>1 DEF Settled, Goes
<1> QED BY <1>1, CollectorInvariance, PTL

\* FreshOutput: what a call puts out is of a packet it completed itself, which was not held
\* back and whose samples were cut, or put out as they were; so none goes out twice.
THEOREM FreshOutputs == Spec => FreshOutput
<1>1. CollectorInv /\ [Next]_vars => FreshAtEnd
  <2> SUFFICES ASSUME CollectorInv, [Next]_vars, rx # 0, rx' = 0, Owner(out') # 0
               PROVE  /\ Owner(out') \in DOMAIN packets
                      /\ ~packets[Owner(out')].over /\ ~packets[Owner(out')].held
                      /\ packets[Owner(out')].cut \/ packets[Owner(out')].raw
    BY DEF FreshAtEnd
  <2>1. EndCall
    <3>1. ASSUME NEW n \in RxSizes, BeginCall(n) PROVE FALSE
      BY <3>1 DEF BeginCall
    <3> QED BY CollectorSteps, <3>1
            DEF CollectorNext, collectorVars, FirstZero, FirstSfd, SecondSfd, SyncLost,
                InvalidSymbol, LengthByte, PayloadByte, Complete, SetBufferSize, SetSampRate
  <2>2. crcBuffer.on /\ Owner(out') = Owner(crcBuffer.samples)
    BY <2>1, OwnerAtEnd DEF CollectorInv
  <2>3. PICK k : k = Owner(out')
    OBVIOUS
  <2>4. k \in DOMAIN packets /\ ~packets[k].over
    BY <2>2, <2>3 DEF CollectorInv, EmitInv, Kept
  <2>5. Settled(packets[k], crcBuffer.on /\ k = Owner(crcBuffer.samples))
    BY <2>4 DEF CollectorInv, EmitInv
  <2>6. Goes(packets[k])
    BY <2>2, <2>3, <2>4, <2>5 DEF Settled
  <2> QED BY <2>3, <2>4, <2>6 DEF Goes
<1> QED BY <1>1, CollectorInvariance, PTL DEF Spec, FreshOutput

\* NoStraySamples: nothing is read outside a buffer but for the samples of a first call
\* and with a trigger in front.
THEOREM NothingStray == Spec => []NoStraySamples
<1>1. CollectorInv => NoStraySamples
  <2> SUFFICES ASSUME CollectorInv, NEW i \in DOMAIN out, out[i][1] < 0
               PROVE  packets[-out[i][1]].raw \/ packets[-out[i][1]].undefined
    BY DEF NoStraySamples
  <2>1. out[i] \in Possible(packets)
    <3>1. out \in Seq(Possible(packets))
      BY DEF CollectorInv, EmitInv
    <3> QED BY <3>1, LenProperties, ElementOfSeq
  <2>2. DOMAIN packets \subseteq Nat
    <3>1. packets \in Seq(Packets)
      BY DEF CollectorInv, CountInv
    <3>2. DOMAIN packets = 1 .. Len(packets)
      BY <3>1, LenProperties
    <3> QED BY <3>2
  <2>3. PICK h \in Wild(packets) : out[i][1] = -h
    BY <2>1, <2>2 DEF Possible, Zero
  <2>4. -out[i][1] = h
    BY <2>2, <2>3 DEF Wild
  <2> QED BY <2>3, <2>4 DEF Wild
<1> QED BY <1>1, CollectorInvariance, PTL

-----------------------------------------------------------------------------
(***************************************************************************)
(* The detector.                                                           *)
(***************************************************************************)
Pairs == Int \X Int

DetectorInv ==
  /\ limit \in Nat /\ line \in Seq(Pairs)
  /\ burstState \in {"SEARCHING", "DETECTED", "FINGERPRINT"}
  /\ burst \in Seq(Pairs) /\ Len(burst) <= limit + Spare
  /\ bins \in [1 .. Devices -> Nat]
  /\ stray \in Nat /\ fingerprints \in Nat /\ nans \in Nat
  /\ burstCount = fingerprints + nans
  /\ stray >= nans
  /\ burstCount = stray + Sum(bins)

\* The emitter found is one there is, or none; with a NaN, none.
LEMMA EmitterFound ==
  ASSUME NEW nan \in BOOLEAN, NEW results \in Results
  PROVE  /\ MostLikely(nan, results) \in 0 .. Devices
         /\ nan => MostLikely(nan, results) = 0
<1>1. CASE nan \/ \A d \in 1 .. Devices : results[d] = Far
  BY <1>1, DetectorAssumption DEF MostLikely
<1>2. CASE ~ (nan \/ \A d \in 1 .. Devices : results[d] = Far)
  <2> DEFINE S == {results[d] : d \in 1 .. Devices}
  <2>1. PICK f \in 1 .. Devices : TRUE
    BY <1>2
  <2>2. \A d \in 1 .. Devices : results[d] \in Nat
    BY DetectorAssumption DEF Results
  <2>3. S \in SUBSET Nat /\ S # {}
    BY <2>1, <2>2
  <2>4. PICK m \in S : \A k \in S : m <= k
    <3> HIDE DEF S
    <3> QED BY <2>3, LeastElement
  <2> DEFINE T == {d \in 1 .. Devices : results[d] = m}
  <2>5. T \in SUBSET Nat /\ T # {}
    BY <2>4
  <2>6. PICK d \in T : \A e \in T : d <= e
    <3> HIDE DEF T, S
    <3> QED BY <2>5, LeastElement
  <2>7. ASSUME NEW e \in 1 .. Devices
        PROVE  results[d] <= results[e] /\ (e < d => results[d] < results[e])
    <3>1. results[d] = m /\ m <= results[e] /\ m \in Nat /\ results[e] \in Nat /\ d \in Nat
      BY <2>2, <2>4, <2>6
    <3>2. CASE results[e] = m
      <4>1. d <= e
        BY <2>6, <3>2
      <4> QED BY <3>1, <4>1
    <3>3. CASE results[e] # m
      BY <3>1, <3>3
    <3> QED BY <3>2, <3>3
  <2>8. d \in 1 .. Devices
    BY <2>6
  <2>9. MostLikely(nan, results) \in 1 .. Devices
    <3> HIDE DEF T, S
    <3> QED BY <1>2, <2>7, <2>8 DEF MostLikely
  <2> QED BY <1>2, <2>9
<1> QED BY <1>1, <1>2

\* How many zeros are passed over in one step.
Passed(l) ==
  CHOOSE n \in 1 .. Len(l) : /\ \A i \in 2 .. n : l[i] = Zero
                             /\ n < Len(l) => l[n + 1] # Zero

LEMMA ZerosPassed ==
  ASSUME NEW S, NEW l \in Seq(S), l # << >>
  PROVE  /\ Passed(l) \in 1 .. Len(l)
         /\ \A i \in 2 .. Passed(l) : l[i] = Zero
         /\ Passed(l) < Len(l) => l[Passed(l) + 1] # Zero
<1> DEFINE T == {n \in 1 .. Len(l) : n = Len(l) \/ l[n + 1] # Zero}
<1>1. Len(l) \in Nat \ {0}
  BY EmptySeq
<1>2. Len(l) \in T /\ T \in SUBSET Nat /\ T # {}
  BY <1>1
<1>3. PICK n \in T : \A k \in T : n <= k
  <2> HIDE DEF T
  <2> QED BY <1>2, LeastElement
<1>4. ASSUME NEW i \in 2 .. n PROVE l[i] = Zero
  <2>1. i - 1 \in 1 .. Len(l) /\ i - 1 < n /\ i - 1 # Len(l) /\ (i - 1) + 1 = i
    BY <1>1
  <2>2. i - 1 \notin T
    <3> HIDE DEF T
    <3>1. n \in Nat
      BY <1>2
    <3> QED BY <1>3, <2>1, <3>1
  <2>3. ~ (l[(i - 1) + 1] # Zero)
    BY <2>1, <2>2
  <2> QED BY <2>1, <2>3
<1>5. n \in 1 .. Len(l) /\ (n < Len(l) => l[n + 1] # Zero)
  BY <1>1
<1> HIDE DEF T
<1> QED BY <1>4, <1>5 DEF Passed

LEMMA Takes == TakeZeros => line' = SubSeq(line, 1 + Passed(line), Len(line))
BY DEF TakeZeros, Passed

LEMMA PossiblePairs ==
  ASSUME NEW ps \in Seq(Packets)
  PROVE  /\ Possible(ps) \subseteq Pairs
         /\ Len(ps) <= MaxPackets => Possible(ps) \subseteq Sample
<1>1. DOMAIN ps = 1 .. Len(ps) /\ Len(ps) \in Nat
  BY LenProperties
<1>2. Possible(ps) \subseteq {Zero} \cup (-Len(ps) .. Len(ps)) \X Int
  BY <1>1 DEF Possible, Wild
<1>3. Len(ps) <= MaxPackets
      => -Len(ps) .. Len(ps) \subseteq -MaxPackets .. MaxPackets
  BY <1>1, CollectorAssumption
<1>4. {Zero} \cup (-Len(ps) .. Len(ps)) \X Int \subseteq Pairs
  BY <1>1 DEF Pairs, Zero
<1> QED BY <1>2, <1>3, <1>4 DEF Sample

\* The bins are a sequence with a sum.
LEMMA BinsSummed ==
  ASSUME NEW n \in Nat, NEW b \in [1 .. n -> Nat]
  PROVE  b \in Seq(Int) /\ Len(b) = n /\ Sum(b) \in Int
<1>1. PICK c \in [1 .. n -> Int] : c = b
  OBVIOUS
<1>2. c \in Seq(Int) /\ Len(c) = n
  BY Listed
<1>3. PICK f : Sums(c, f) /\ Sum(c) = f[Len(c)]
  BY <1>2, PartialSums
<1>4. f[Len(c)] \in Int
  BY <1>2, <1>3 DEF Sums
<1> QED BY <1>1, <1>2, <1>3, <1>4

LEMMA DetectorStep == CollectorInv /\ DetectorInv /\ [Next]_vars => DetectorInv'
<1> SUFFICES ASSUME CollectorInv, DetectorInv, [Next]_vars PROVE DetectorInv'
  OBVIOUS
<1>1. /\ limit \in Nat /\ Spare \in Nat /\ Len(burst) \in Nat /\ Len(line) \in Nat
      /\ Devices \in Nat
  BY DetectorAssumption DEF DetectorInv
<1>2. CASE UNCHANGED vars
  BY <1>2 DEF vars, detectorVars, tallies, DetectorInv
<1>3. CASE Collector
  <2>1. line' \in Seq(Pairs)
    <3>1. EmitInv' /\ CountInv'
      BY CollectorStep DEF CollectorInv
    <3>2. PICK o \in Seq(Possible(packets)') : o = out'
      BY <3>1 DEF EmitInv
    <3>3. Possible(packets)' \subseteq Pairs
      <4>1. PICK ps \in Seq(Packets) : ps = packets'
        BY <3>1 DEF CountInv
      <4>2. Possible(ps) \subseteq Pairs
        BY PossiblePairs
      <4> QED BY <4>1, <4>2
    <3>4. o \in Seq(Pairs)
      BY <3>3, SeqOfMore
    <3> QED BY <1>3, <3>2, <3>4 DEF Collector
  <2> QED BY <1>3, <2>1 DEF Collector, detectorVars, tallies, DetectorInv
<1>4. CASE Detector
  <2>1. line # << >> /\ Head(line) \in Pairs /\ Tail(line) \in Seq(Pairs)
    <3>1. line # << >> /\ line \in Seq(Pairs)
      BY <1>4 DEF Detector, DetectorInv
    <3> QED BY <3>1, HeadTailProperties
  <2>2. CASE PassOver /\ TakeZeros
    <3>1. Passed(line) \in 1 .. Len(line)
      BY <2>1, ZerosPassed DEF DetectorInv
    <3>2. line' \in Seq(Pairs)
      <4>1. \A l \in Seq(Pairs) : \A n \in 1 .. Len(l) : SubSeq(l, 1 + n, Len(l)) \in Seq(Pairs)
        OBVIOUS
      <4> QED BY <2>2, <3>1, <4>1, Takes DEF DetectorInv
    <3> QED BY <2>2, <3>2 DEF PassOver, detectorVars, tallies, DetectorInv
  <2>3. CASE Detect /\ Leave
    BY <2>3 DEF Detect, BurstDetect, Leave, tallies, DetectorInv
  <2>4. CASE Collect(Head(line)) /\ Take
    <3>1. burst' \in Seq(Pairs) /\ Len(burst') = Len(burst) + 1
      BY <2>1, <2>4 DEF Collect, DetectorInv
    <3>2. Len(burst') <= limit + Spare
      BY <1>1, <2>4, <3>1 DEF Collect, Enough
    <3> QED BY <2>1, <2>4, <3>1, <3>2 DEF Collect, Take, tallies, DetectorInv
  <2>5. CASE FillBurst /\ Leave
    <3>1. burst \in Seq(Pairs)
      BY DEF DetectorInv
    <3>2. PICK n \in 0 .. Len(burst) : burst' = SubSeq(burst, 1, n)
      BY <1>1, <2>5 DEF FillBurst, BurstFingerprint
    <3>3. burst' \in Seq(Pairs) /\ Len(burst') = n
      BY <3>1, <3>2
    <3>4. Len(burst') <= limit + Spare
      BY <1>1, <3>3 DEF DetectorInv
    <3> QED BY <2>5, <3>3, <3>4 DEF FillBurst, BurstFingerprint, Leave, tallies, DetectorInv
  <2>7. /\ bins \in [1 .. Devices -> Nat] /\ bins \in Seq(Int) /\ Len(bins) = Devices
        /\ Sum(bins) \in Int /\ burstCount = stray + Sum(bins)
        /\ stray \in Nat /\ nans \in Nat /\ fingerprints \in Nat /\ stray >= nans
        /\ burstCount = fingerprints + nans
    <3>1. bins \in [1 .. Devices -> Nat]
      BY DEF DetectorInv
    <3>2. bins \in Seq(Int) /\ Len(bins) = Devices /\ Sum(bins) \in Int
      BY <1>1, <3>1, BinsSummed
    <3> QED BY <3>1, <3>2 DEF DetectorInv
  <2>6. ASSUME NEW nan \in NanFound, NEW results \in Results, Fingerprint(nan, results), Leave
        PROVE  DetectorInv'
    <3> DEFINE d == MostLikely(nan, results)
    <3>1. d \in 0 .. Devices /\ (nan => d = 0) /\ nan \in BOOLEAN
      BY EmitterFound DEF NanFound
    <3>2. /\ nans' = nans + (IF nan THEN 1 ELSE 0)
          /\ fingerprints' = fingerprints + (IF nan THEN 0 ELSE 1)
          /\ burstCount' = burstCount + 1
          /\ burst' = << >> /\ burstState' = "SEARCHING" /\ limit' = limit /\ line' = line
      BY <2>6 DEF Fingerprint, BurstSearch, Leave
    <3>3. IncrementBin(d, nan)
      BY <2>6 DEF Fingerprint
    <3> HIDE DEF d
    <3>4. burst' \in Seq(Pairs) /\ Len(burst') = 0 /\ 0 <= limit + Spare
      BY <1>1, <3>2
    <3>5. nans' \in Nat /\ fingerprints' \in Nat /\ burstCount' = fingerprints' + nans'
      BY <3>1, <3>2 DEF DetectorInv
    <3>6. CASE d = 0
      <4>1. stray' = stray + 1 /\ bins' = bins
        BY <3>3, <3>6 DEF IncrementBin
      <4>2. Sum(bins') = Sum(bins)
        BY <4>1
      <4>3. burstCount' = stray' + Sum(bins')
        BY <2>7, <3>2, <4>1, <4>2
      <4>4. stray' \in Nat /\ stray' >= nans'
        BY <2>7, <3>1, <3>2, <4>1
      <4> QED BY <2>7, <3>2, <3>4, <3>5, <4>1, <4>3, <4>4 DEF DetectorInv
    <3>7. CASE d # 0
      <4>1. stray' = stray /\ bins' = [bins EXCEPT ![d] = @ + 1] /\ d \in 1 .. Devices /\ ~nan
        BY <3>1, <3>3, <3>7 DEF IncrementBin
      <4>2. Sum(bins') = Sum(bins) + 1
        <5>1. PICK b \in Seq(Int) : b = bins /\ Len(b) = Devices
          BY <2>7
        <5>2. PICK c \in 1 .. Len(b) : c = d
          BY <4>1, <5>1
        <5>3. Sum([b EXCEPT ![c] = @ + 1]) = Sum(b) + 1
          BY SumIncremented
        <5> QED BY <4>1, <5>1, <5>2, <5>3, Zenon
      <4>3. burstCount' = stray' + Sum(bins')
        <5>1. PICK x \in Int : x = Sum(bins)
          BY <2>7
        <5>2. burstCount = stray + x /\ Sum(bins') = x + 1
          BY <2>7, <4>2, <5>1
        <5> QED BY <2>7, <3>2, <4>1, <5>2
      <4>4. stray' \in Nat /\ stray' >= nans'
        BY <2>7, <3>1, <3>2, <4>1
      <4>5. bins' \in [1 .. Devices -> Nat]
        <5>1. bins[d] + 1 \in Nat
          BY <2>7, <4>1
        <5> QED BY <2>7, <4>1, <5>1
      <4> QED BY <2>7, <3>2, <3>4, <3>5, <4>1, <4>3, <4>4, <4>5 DEF DetectorInv
    <3> QED BY <3>6, <3>7
  <2> QED BY <1>4, <2>2, <2>3, <2>4, <2>5, <2>6 DEF Detector
<1> QED BY <1>2, <1>3, <1>4 DEF Next

LEMMA DetectorStart == Init => DetectorInv
<1> SUFFICES ASSUME Init PROVE DetectorInv
  OBVIOUS
<1>1. /\ limit = PreambleLen /\ line = << >> /\ burst = << >> /\ burstState = "SEARCHING"
      /\ bins = [d \in 1 .. Devices |-> 0] /\ stray = 0 /\ fingerprints = 0 /\ nans = 0
      /\ burstCount = 0
  BY DEF Init, DetectorInit
<1>2. limit \in Nat
  BY <1>1, CollectorStart, PreambleNat DEF CollectorInv
<1>3. Devices \in Nat /\ Spare \in Nat
  BY DetectorAssumption
<1>4. bins \in [1 .. Devices -> Nat]
  BY <1>1
<1>5. Sum(bins) = 0
  <2>1. bins \in Seq(Int) /\ Len(bins) = Devices
    BY <1>3, <1>4, BinsSummed
  <2>2. PICK b \in Seq(Int) : b = bins /\ Len(b) = Devices
    BY <2>1
  <2>3. PICK z \in Int : z = 0
    OBVIOUS
  <2>4. \A k \in 1 .. Len(b) : b[k] \in 0 .. z
    <3>1. 0 \in 0 .. z
      BY <2>3
    <3>2. \A k \in 1 .. Devices : bins[k] = 0
      BY <1>1
    <3> QED BY <2>2, <3>1, <3>2, Zenon
  <2>5. Sum(b) \in 0 .. Len(b) * z
    BY <2>3, <2>4, SumBounded
  <2> QED BY <1>3, <2>2, <2>3, <2>5
<1>6. << >> \in Seq(Pairs) /\ Len(<< >>) = 0
  OBVIOUS
<1> QED BY <1>1, <1>2, <1>3, <1>4, <1>5, <1>6 DEF DetectorInv

Inv == CollectorInv /\ DetectorInv

THEOREM Invariance == Spec => []Inv
<1>1. Init => Inv
  BY CollectorStart, DetectorStart DEF Inv
<1>2. Inv /\ [Next]_vars => Inv'
  BY CollectorStep, DetectorStep DEF Inv
<1> QED BY <1>1, <1>2, PTL DEF Spec

\* TypeOK: the members of preamble_sink_impl and dna_detector_ccf_impl keep their types,
\* and no burst grows beyond what it is compared with.
THEOREM TypeCorrect == Spec => []TypeOK
<1>1. Inv => TypeOK
  <2> SUFFICES ASSUME Inv PROVE TypeOK
    OBVIOUS
  <2> USE DEF Inv
  <2>1. Possible(packets) \subseteq Sample
    BY PossiblePairs DEF CollectorInv, CountInv
  <2>2. \A i \in DOMAIN crcBuffer.samples : crcBuffer.samples[i] \in Sample
    <3>1. PICK s \in Seq(Possible(packets)) : s = crcBuffer.samples
      BY DEF CollectorInv, EmitInv
    <3>2. s \in Seq(Sample)
      BY <2>1, SeqOfMore
    <3>3. \A i \in DOMAIN s : s[i] \in Sample
      BY <3>2, LenProperties
    <3> QED BY <3>1, <3>3
  <2>3. \A i \in DOMAIN out : out[i] \in Sample
    <3>1. PICK s \in Seq(Possible(packets)) : s = out
      BY DEF CollectorInv, EmitInv
    <3>2. s \in Seq(Sample)
      BY <2>1, SeqOfMore
    <3>3. \A i \in DOMAIN s : s[i] \in Sample
      BY <3>2, LenProperties
    <3> QED BY <3>1, <3>3
  <2>4. /\ DOMAIN prev = {"on", "sizes", "samples"} /\ prev.on = (prev.sizes # << >>)
        /\ current.samples \in Nat /\ current.prevUsed \in BOOLEAN
        /\ bufferSize \in Nat \ {0}
    BY DEF CollectorInv, WindowInv, Bursts
  <2>5. /\ rx \in RxSizes \cup {0}
        /\ dstate \in {"search", "sync", "header"} /\ found \in {"nothing", "zero", "seven"}
        /\ found # "nothing" => dstate = "search"
        /\ frame.len \in 0 .. MaxPktLen /\ frame.cnt \in 0 .. MaxPktLen
    BY DEF CollectorInv, ReceiverInv
  <2>6. /\ burstState \in {"SEARCHING", "DETECTED", "FINGERPRINT"}
        /\ Len(burst) <= limit + Spare /\ DOMAIN bins = 1 .. Devices
    BY DEF DetectorInv
  <2> QED BY <2>2, <2>3, <2>4, <2>5, <2>6, Zenon DEF TypeOK
<1> QED BY <1>1, Invariance, PTL

\* BurstsCounted: the counters of dna_detector_ccf_impl agree with each other: every burst
\* is in a bin, and those with a NaN in none of them.
THEOREM BurstsAgree == Spec => []BurstsCounted
<1>1. Inv => BurstsCounted
  <2>1. ASSUME Inv PROVE [d \in 1 .. Devices |-> bins[d]] = bins
    BY <2>1 DEF Inv, DetectorInv
  <2> QED BY <2>1 DEF Inv, DetectorInv, BurstsCounted
<1> QED BY <1>1, Invariance, PTL

-----------------------------------------------------------------------------
(***************************************************************************)
(* From the collector to the detector, while the line is regular.          *)
(***************************************************************************)

\* The packets whose samples went out, and how many of them did before one.
Sent(ps) == {k \in DOMAIN ps : ps[k].out}
Before(S, k) == Cardinality({h \in S : h < k})

\* The sample at place j of the output for packet k.
SampleAt(k, j) == IF j <= limit + 2 THEN <<k, j - 2>> ELSE Zero

\* Packets of past calls come before those of this call.
OrderInv ==
  \A h, k \in DOMAIN packets : packets[h].over /\ ~packets[k].over => h < k

\* What is kept for the output is a preamble from the sample before the trigger on.
ExactInv ==
  regular =>
    /\ PreambleLen = limit
    /\ LET k == Owner(crcBuffer.samples)
       IN  crcBuffer.on /\ ~packets[k].raw /\ ~packets[k].undefined
           => \A j \in DOMAIN crcBuffer.samples : crcBuffer.samples[j] = SampleAt(k, j)

\* On the line, behind n bursts, come zeros only or the output for one more packet.
Coming(n) ==
  \/ (\A i \in DOMAIN line : line[i] = Zero) /\ Cardinality(Sent(packets)) = n
  \/ \E k \in Sent(packets) :
       /\ Before(Sent(packets), k) = n /\ Cardinality(Sent(packets)) = n + 1
       /\ Len(line) >= limit + Spare
       /\ \A i \in DOMAIN line : line[i] = SampleAt(k, i)

Waiting == burstState = "SEARCHING" /\ burst = << >> /\ Coming(Len(taken))

Collecting ==
  /\ burstState = "DETECTED" /\ Len(burst) < limit + Spare
  /\ \E k \in Sent(packets) :
       /\ Before(Sent(packets), k) = Len(taken)
       /\ Cardinality(Sent(packets)) = Len(taken) + 1
       /\ Len(burst) + Len(line) >= limit + Spare
       /\ \A j \in DOMAIN burst : burst[j] = SampleAt(k, j)
       /\ \A i \in DOMAIN line : line[i] = SampleAt(k, Len(burst) + i)

Filling ==
  /\ burstState = "DETECTED" /\ Len(burst) = limit + Spare
  /\ \E k \in Sent(packets) : /\ Before(Sent(packets), k) = Len(taken)
                              /\ \A j \in DOMAIN burst : burst[j] = SampleAt(k, j)
  /\ Coming(Len(taken) + 1)

Preamble(k) == [j \in 1 .. limit |-> <<k, j - 2>>]

Measuring ==
  /\ burstState = "FINGERPRINT" /\ line # << >>
  /\ \E k \in Sent(packets) : Before(Sent(packets), k) = Len(taken) /\ burst = Preamble(k)
  /\ Coming(Len(taken) + 1)

\* The bursts fingerprinted so far are the preambles that went out, in their order.
Taken ==
  \A i \in DOMAIN taken :
    \E k \in Sent(packets) : taken[i] = Preamble(k) /\ Before(Sent(packets), k) = i - 1

BurstInv ==
  /\ taken \in Seq(Seq(Pairs)) /\ regular \in BOOLEAN
  /\ Spare >= 2 /\ regular => (Waiting \/ Collecting \/ Filling \/ Measuring) /\ Taken

LEMMA OrderStep ==
  CountInv /\ OrderInv /\ (CollectorNext \/ UNCHANGED collectorVars) => OrderInv'
<1> SUFFICES ASSUME CountInv, OrderInv, CollectorNext \/ UNCHANGED collectorVars PROVE OrderInv'
  OBVIOUS
<1>1. CASE UNCHANGED packets
  BY <1>1 DEF OrderInv
<1>2. CASE EndCall
  <2>1. /\ packets' \in Seq(Packets) /\ Len(packets') = Len(packets)
        /\ \A k \in DOMAIN packets :
             packets'[k] = [packets[k] EXCEPT !.over = TRUE,
                                              !.out = packets[k].out \/ k = Owner(out')]
    BY <1>2, PacketsAtEnd DEF CountInv
  <2>2. DOMAIN packets' = DOMAIN packets
    <3>1. DOMAIN packets = 1 .. Len(packets) /\ DOMAIN packets' = 1 .. Len(packets')
      BY <2>1, LenProperties DEF CountInv
    <3> QED BY <2>1, <3>1
  <2>4. ASSUME NEW k \in DOMAIN packets' PROVE packets'[k].over
    <3>1. packets[k] \in Packets
      BY <2>2 DEF CountInv
    <3> QED BY <2>1, <2>2, <3>1 DEF Packets
  <2> QED BY <2>4 DEF OrderInv
<1>3. ASSUME NEW t, NEW good \in BOOLEAN, Complete(t, good) PROVE OrderInv'
  <2>1. /\ DOMAIN packets = 1 .. Len(packets) /\ Len(packets) \in Nat
        /\ DOMAIN packets' = DOMAIN packets \cup {Len(packets) + 1}
        /\ packets'[Len(packets) + 1] = Entry(t, good)
        /\ \A h \in DOMAIN packets : packets'[h].over = packets[h].over
    BY <1>3, Completed
  <2>2. ~ Entry(t, good).over
    BY DEF Entry
  <2>3. SUFFICES ASSUME NEW h \in DOMAIN packets', NEW k \in DOMAIN packets',
                        packets'[h].over, ~packets'[k].over
                 PROVE  h < k
    BY DEF OrderInv
  <2>4. h \in DOMAIN packets /\ packets[h].over
    BY <2>1, <2>2, <2>3
  <2>5. CASE k \in DOMAIN packets
    BY <2>1, <2>3, <2>4, <2>5 DEF OrderInv
  <2>6. CASE k = Len(packets) + 1
    BY <2>1, <2>4, <2>6
  <2> QED BY <2>1, <2>5, <2>6
<1> QED
  BY <1>1, <1>2, <1>3
  DEF CollectorNext, BeginCall, FirstZero, FirstSfd, SecondSfd, SyncLost, InvalidSymbol,
      LengthByte, PayloadByte, SetBufferSize, SetSampRate, collectorVars

LEMMA ExactStep ==
  CollectorInv /\ DetectorInv /\ ExactInv /\ [Next]_vars => ExactInv'
<1> SUFFICES ASSUME CollectorInv, DetectorInv, ExactInv, [Next]_vars, regular' PROVE ExactInv'
  BY DEF ExactInv
<1>1. CASE UNCHANGED <<regular, limit, phy, crcBuffer, packets>>
  BY <1>1 DEF ExactInv, PreambleLen, SampleAt
<1>2. CASE Collector
  <2>1. /\ regular /\ PreambleLenSamples(phy') = limit /\ limit' = limit /\ PreambleLen = limit
        /\ CollectorNext
    BY <1>2 DEF Collector, ExactInv, detectorVars
  <2>2. PreambleLen' = limit'
    BY <2>1 DEF PreambleLen
  <2>3. CASE UNCHANGED <<crcBuffer, packets>>
    BY <2>1, <2>2, <2>3 DEF ExactInv, SampleAt
  <2>4. CASE EndCall
    <3>1. crcBuffer' = [on |-> FALSE, samples |-> << >>]
      BY <2>4 DEF EndCall, UnsetBuffer
    <3> QED BY <2>2, <3>1 DEF ExactInv
  <2>5. ASSUME NEW t \in Nat, NEW good \in BOOLEAN, Complete(t, good) PROVE ExactInv'
    <3> DEFINE e == Entry(t, good)
               k == Len(packets) + 1
    <3>1. /\ DOMAIN packets = 1 .. Len(packets) /\ Len(packets) \in Nat
          /\ packets'[k] = e
          /\ \A h \in DOMAIN packets :
               /\ packets'[h].raw = packets[h].raw
               /\ packets'[h].undefined = packets[h].undefined
      BY <2>5, Completed DEF CollectorInv
    <3>2. /\ e.raw = ~current.prevUsed /\ e.undefined = (Cut(t) /\ t = 0)
          /\ e.held = HeldBack(frame.cnt + 1 < ShortLen, good)
      BY DEF Entry, Cut
    <3> HIDE DEF e
    <3>3. CASE e.held
      <4>1. crcBuffer' = crcBuffer
        BY <2>5, <3>2, <3>3 DEF Complete
      <4>2. crcBuffer.on => Owner(crcBuffer.samples) \in DOMAIN packets
        BY DEF CollectorInv, EmitInv, Kept
      <4> QED BY <2>1, <2>2, <3>1, <4>1, <4>2 DEF ExactInv, SampleAt
    <3>4. CASE ~ e.held
      <4>1. PICK b \in ToEmit(k, t) : b = crcBuffer'
        BY <2>5, <3>2, <3>4 DEF Complete
      <4>2. /\ current.samples \in Nat \ {0} /\ current.prevUsed \in BOOLEAN /\ rx \in Nat
            /\ k \in Nat \ {0} /\ PreambleLen \in Nat
        BY <2>5, <3>1, MostSamples, PreambleNat
        DEF CollectorInv, WindowInv, Complete, ReceiverInv
      <4>3. /\ b.on => Owner(b.samples) = k
            /\ b.on <=> ~current.prevUsed \/ Cut(t)
        BY <4>2, Emitted
      <4>4. ASSUME b.on, ~e.raw, ~e.undefined
            PROVE  \A j \in DOMAIN b.samples : b.samples[j] = SampleAt(k, j)
        <5>1. Cut(t) /\ t \in Nat \ {0}
          BY <3>2, <4>3, <4>4
        <5>2. \A j \in DOMAIN b.samples :
                b.samples[j] = IF j <= PreambleLen + 2 THEN <<k, j - 2>> ELSE Zero
          BY <4>2, <5>1, CutEmitted
        <5> QED BY <2>1, <5>2 DEF SampleAt
      <4>5. \A h, j : SampleAt(h, j)' = SampleAt(h, j)
        BY <2>1 DEF SampleAt
      <4> QED BY <2>2, <3>1, <4>1, <4>3, <4>4, <4>5 DEF ExactInv
    <3> QED BY <3>3, <3>4, <3>2 DEF HeldBack
  <2> QED
    BY <2>1, <2>3, <2>4, <2>5
    DEF CollectorNext, BeginCall, FirstZero, FirstSfd, SecondSfd, SyncLost, InvalidSymbol,
        LengthByte, PayloadByte, SetBufferSize, SetSampRate, buffers
<1>3. CASE Detector
  BY <1>1, <1>3
  DEF Detector, collectorVars, settings, buffers, PassOver, detectorVars, Detect, Collect,
      FillBurst, Fingerprint
<1>4. CASE UNCHANGED vars
  BY <1>1, <1>4 DEF vars, collectorVars, settings, buffers, detectorVars
<1> QED BY <1>2, <1>3, <1>4 DEF Next

\* Of numbers in a finite set, one more than all of them has all of them before it.
LEMMA OneMore ==
  ASSUME NEW S \in SUBSET Nat, IsFiniteSet(S), NEW k \in Nat, \A h \in S : h < k
  PROVE  /\ Cardinality(S) \in Nat /\ Cardinality(S \cup {k}) = Cardinality(S) + 1
         /\ Before(S \cup {k}, k) = Cardinality(S)
         /\ \A h \in S : Before(S \cup {k}, h) = Before(S, h)
<1>1. k \notin S
  <2>1. ~ (k < k)
    OBVIOUS
  <2> QED BY <2>1
<1>2. {h \in S \cup {k} : h < k} = S
  <2>1. ~ (k < k)
    OBVIOUS
  <2> QED BY <2>1
<1>3. ASSUME NEW h \in S PROVE Before(S \cup {k}, h) = Before(S, h)
  <2>1. h < k /\ h \in Nat
    OBVIOUS
  <2>2. ~ (k < h)
    BY <2>1
  <2>3. {g \in S \cup {k} : g < h} = {g \in S : g < h}
    BY <2>2
  <2> QED BY <2>3 DEF Before
<1>4. Cardinality(S \cup {k}) = Cardinality(S) + 1 /\ Cardinality(S) \in Nat
  BY <1>1, FS_AddElement, FS_CardinalityType
<1> QED BY <1>2, <1>3, <1>4 DEF Before

LEMMA SentFinite ==
  ASSUME NEW ps \in Seq(Packets)
  PROVE  Sent(ps) \in SUBSET Nat /\ IsFiniteSet(Sent(ps)) /\ \A k \in Sent(ps) : k \in Nat \ {0}
<1>1. DOMAIN ps = 1 .. Len(ps) /\ Len(ps) \in Nat
  BY LenProperties
<1>2. Sent(ps) \subseteq 1 .. Len(ps)
  BY <1>1 DEF Sent
<1>3. IsFiniteSet(1 .. Len(ps))
  BY <1>1, FS_Interval
<1>4. \A k \in 1 .. Len(ps) : k \in Nat \ {0}
  OBVIOUS
<1> QED BY <1>2, <1>3, <1>4, FS_Subset

\* What the end of a call puts on a regular line.
LEMMA LineAtEnd ==
  ASSUME CollectorInv, OrderInv, ExactInv, regular, EndCall,
         ~Irregular(out', Owner(out')),
         limit \in Nat
  PROVE  \/ (\A i \in DOMAIN out' : out'[i] = Zero) /\ Sent(packets') = Sent(packets)
         \/ \E k \in Nat \ {0} :
              /\ Sent(packets') = Sent(packets) \cup {k} /\ \A h \in Sent(packets) : h < k
              /\ Len(out') >= limit + Spare
              /\ \A i \in DOMAIN out' : out'[i] = SampleAt(k, i)
<1> DEFINE b == crcBuffer.samples
<1>1. PICK n \in Nat \ {0} : n = rx
  BY MostSamples DEF EndCall, CollectorInv, ReceiverInv
<1>2. /\ packets \in Seq(Packets) /\ packets' \in Seq(Packets) /\ Len(packets') = Len(packets)
      /\ \A k \in DOMAIN packets :
           packets'[k] = [packets[k] EXCEPT !.over = TRUE,
                                            !.out = packets[k].out \/ k = Owner(out')]
  BY PacketsAtEnd DEF CollectorInv, CountInv
<1>3. DOMAIN packets' = DOMAIN packets /\ DOMAIN packets = 1 .. Len(packets)
  BY <1>2, LenProperties
<1>4. ASSUME NEW k \in DOMAIN packets
      PROVE  /\ packets'[k].raw = packets[k].raw /\ packets'[k].undefined = packets[k].undefined
             /\ packets'[k].out = (packets[k].out \/ k = Owner(out'))
  <2>1. packets[k] \in Packets
    BY <1>2, LenProperties, ElementOfSeq
  <2> QED BY <1>2, <2>1 DEF Packets
<1>5. out' = Written /\ out' = [c \in 1 .. n |-> Written[c]] /\ DOMAIN out' = 1 .. n
  BY <1>1 DEF EndCall, Written
<1>6. CASE ~ crcBuffer.on
  <2>1. \A i \in DOMAIN out' : out'[i] = Zero
    BY <1>1, <1>5, <1>6 DEF Written
  <2>2. Owner(out') = 0
    BY <1>5, <2>1 DEF Owner
  <2>3. Sent(packets') = Sent(packets)
    <3>1. \A k \in DOMAIN packets : k # 0
      BY <1>3
    <3>2. \A k \in DOMAIN packets : packets'[k].out = packets[k].out
      <4> TAKE k \in DOMAIN packets
      <4>1. packets[k].out \in BOOLEAN
        <5>1. packets[k] \in Packets
          BY <1>2, <1>3, ElementOfSeq
        <5> QED BY <5>1 DEF Packets
      <4> QED BY <1>4, <2>2, <3>1, <4>1
    <3> QED BY <1>3, <3>2 DEF Sent
  <2> QED BY <2>1, <2>3
<1>7. CASE crcBuffer.on
  <2> DEFINE k == Owner(b)
  <2>1. /\ b # << >> /\ k \in DOMAIN packets /\ ~packets[k].over
        /\ ~packets[k].raw => Len(b) >= n
    BY <1>1, <1>7 DEF CollectorInv, EmitInv, Kept
  <2>2. b \in Seq(Possible(packets)) /\ Len(b) \in Nat
    BY DEF CollectorInv, EmitInv
  <2>3. Owner(out') = k
    <3>1. Len(b) \in Nat \ {0} /\ 1 <= Len(b)
      BY <2>1, <2>2, EmptySeq
    <3>2. out'[1] = b[1]
      BY <1>1, <1>5, <1>7, <3>1 DEF Written
    <3>3. out' # << >>
      BY <1>5
    <3> QED BY <2>1, <3>2, <3>3 DEF Owner
  <2>4. k # 0
    BY <1>3, <2>1
  <2>5. ~packets[k].raw /\ ~packets[k].undefined /\ ~ (Len(out') < limit + Spare)
    BY <1>4, <2>1, <2>3, <2>4 DEF Irregular
  <2>6. \A j \in DOMAIN b : b[j] = SampleAt(k, j)
    BY <1>7, <2>5 DEF ExactInv
  <2>7. ASSUME NEW i \in DOMAIN out' PROVE out'[i] = SampleAt(k, i)
    <3>1. i \in 1 .. n /\ i <= Len(b) /\ i \in DOMAIN b
      BY <1>5, <2>1, <2>2, <2>5
    <3>2. out'[i] = b[i]
      BY <1>1, <1>5, <1>7, <3>1 DEF Written
    <3> QED BY <2>6, <3>1, <3>2
  <2>8. Sent(packets') = Sent(packets) \cup {k}
    BY <1>3, <1>4, <2>1, <2>3 DEF Sent
  <2>9. ASSUME NEW h \in Sent(packets) PROVE h < k
    <3>1. h \in DOMAIN packets /\ packets[h].out
      BY DEF Sent
    <3>2. packets[h].over
      BY <3>1 DEF CollectorInv, EmitInv, Settled
    <3> QED BY <2>1, <3>1, <3>2 DEF OrderInv
  <2>10. Len(out') >= limit + Spare
    <3>1. out' \in Seq({out'[i] : i \in 1 .. n}) /\ Len(out') = n
      <4>1. out' \in [1 .. n -> {out'[i] : i \in 1 .. n}]
        BY <1>5
      <4> QED BY <4>1, Listed
    <3>2. limit + Spare \in Nat
      BY DetectorAssumption
    <3> QED BY <2>5, <3>1, <3>2
  <2> QED BY <1>3, <2>1, <2>4, <2>7, <2>8, <2>9, <2>10
<1> QED BY <1>6, <1>7 DEF CollectorInv, EmitInv

\* Between calls, and when one ends, the line brings at most one burst more.
LEMMA ComingNext ==
  ASSUME CollectorInv, DetectorInv, OrderInv, ExactInv, Spare >= 2, Collector, regular',
         NEW CONSTANT n, Coming(n)
  PROVE  /\ Coming(n)' /\ Sent(packets) \subseteq Sent(packets)'
         /\ \A h \in Sent(packets) : Before(Sent(packets), h)' = Before(Sent(packets), h)
<1>1. /\ limit \in Nat /\ Spare \in Nat /\ limit + Spare > 0 /\ limit' = limit
      /\ line = << >> /\ CollectorNext /\ regular
      /\ line' = (IF CallEnds THEN out' ELSE << >>)
      /\ CallEnds => ~Irregular(out', Owner(out'))
  <2>1. /\ limit \in Nat /\ Spare \in Nat /\ limit + Spare > 0
    BY DetectorAssumption DEF DetectorInv
  <2>2. regular /\ (CallEnds => ~Irregular(out', Owner(out')))
    BY Zenon DEF Collector
  <2> QED BY <2>1, <2>2 DEF Collector, detectorVars
<1> DEFINE S == Sent(packets)
<1>2. packets \in Seq(Packets)
  BY DEF CollectorInv, CountInv
<1>3. S \in SUBSET Nat /\ IsFiniteSet(S)
  BY <1>2, SentFinite
<1>4. Cardinality(S) = n
  <2>1. Len(line) = 0
    BY <1>1
  <2> QED BY <1>1, <2>1 DEF Coming
<1>5. CASE EndCall
  <2>1. CallEnds /\ line' = out'
    BY <1>1, <1>5 DEF EndCall, CallEnds
  <2>2. CASE (\A i \in DOMAIN out' : out'[i] = Zero) /\ Sent(packets') = S
    BY <1>4, <2>1, <2>2 DEF Coming
  <2>3. CASE \E k \in Nat \ {0} :
               /\ Sent(packets') = Sent(packets) \cup {k} /\ \A h \in Sent(packets) : h < k
               /\ Len(out') >= limit + Spare
               /\ \A i \in DOMAIN out' : out'[i] = SampleAt(k, i)
    <3>1. PICK k \in Nat \ {0} :
               /\ Sent(packets') = S \cup {k} /\ \A h \in S : h < k
               /\ Len(out') >= limit + Spare
               /\ \A i \in DOMAIN out' : out'[i] = SampleAt(k, i)
      BY <2>3
    <3>2. /\ Cardinality(S \cup {k}) = Cardinality(S) + 1
          /\ Before(S \cup {k}, k) = Cardinality(S)
          /\ \A h \in S : Before(S \cup {k}, h) = Before(S, h)
      <4>1. k \in Nat
        OBVIOUS
      <4> HIDE DEF S
      <4> QED BY <1>3, <3>1, <4>1, OneMore
    <3>3. \A i \in DOMAIN line' : line'[i] = SampleAt(k, i)'
      BY <1>1, <2>1, <3>1 DEF SampleAt
    <3>4. k \in Sent(packets') /\ Len(line') >= limit' + Spare
      BY <1>1, <2>1, <3>1
    <3>5. Before(Sent(packets'), k) = n /\ Cardinality(Sent(packets')) = n + 1
      BY <1>4, <3>1, <3>2
    <3>6. Coming(n)'
      BY <3>3, <3>4, <3>5 DEF Coming
    <3> QED BY <3>1, <3>2, <3>6
  <2> QED BY <1>1, <1>5, <2>1, <2>2, <2>3, LineAtEnd
<1>6. CASE ~ EndCall
  <2>1. Sent(packets') = S
    <3>1. CASE packets' = packets
      BY <3>1
    <3>2. ASSUME NEW t, NEW good \in BOOLEAN, Complete(t, good) PROVE Sent(packets') = S
      <4>1. /\ DOMAIN packets' = DOMAIN packets \cup {Len(packets) + 1}
            /\ packets'[Len(packets) + 1] = Entry(t, good)
            /\ \A h \in DOMAIN packets : packets'[h].out = packets[h].out
        BY <3>2, Completed DEF CollectorInv
      <4>2. ~ Entry(t, good).out
        BY DEF Entry
      <4> QED BY <4>1, <4>2 DEF Sent
    <3> QED
      BY <1>1, <1>6, <3>1, <3>2
      DEF CollectorNext, BeginCall, FirstZero, FirstSfd, SecondSfd, SyncLost, InvalidSymbol,
          LengthByte, PayloadByte, SetBufferSize, SetSampRate
  <2>2. ~ CallEnds
    BY <1>1, <1>6, MostSamples
    DEF CollectorNext, BeginCall, FirstZero, FirstSfd, SecondSfd, SyncLost, InvalidSymbol,
        LengthByte, PayloadByte, Complete, SetBufferSize, SetSampRate, CallEnds
  <2>3. line' = << >>
    BY <1>1, <2>2
  <2> QED BY <1>4, <2>1, <2>3 DEF Coming
<1> QED BY <1>5, <1>6

\* Whatever the collector does, the phase of the detector stays what it is.
LEMMA PhaseKept ==
  ASSUME CollectorInv, DetectorInv, OrderInv, ExactInv, BurstInv, Spare >= 2, Collector,
         regular'
  PROVE  (Waiting \/ Collecting \/ Filling \/ Measuring)' /\ Taken'
<1>1. /\ regular /\ UNCHANGED <<burstState, burst, taken, limit>> /\ line = << >>
      /\ limit \in Nat /\ Spare \in Nat /\ Len(taken) \in Nat
      /\ Waiting \/ Collecting \/ Filling \/ Measuring
      /\ Taken
  BY DetectorAssumption DEF Collector, detectorVars, DetectorInv, BurstInv
<1>2. /\ ~ Measuring /\ ~ Collecting
  <2>1. Len(line) = 0 /\ Len(burst) \in Nat
    BY <1>1 DEF DetectorInv
  <2>2. ~ (Len(burst) < limit + Spare /\ Len(burst) + 0 >= limit + Spare)
    BY <1>1, <2>1
  <2> QED BY <1>1, <2>1, <2>2 DEF Measuring, Collecting
<1>3. ASSUME NEW n, Coming(n)
      PROVE  /\ Sent(packets) \subseteq Sent(packets)'
             /\ \A h \in Sent(packets) : Before(Sent(packets), h)' = Before(Sent(packets), h)
  BY <1>3, ComingNext
<1>4. \E n : Coming(n)
  BY <1>1, <1>2 DEF Waiting, Filling
<1>5. /\ Sent(packets) \subseteq Sent(packets)'
      /\ \A h \in Sent(packets) : Before(Sent(packets), h)' = Before(Sent(packets), h)
  BY <1>3, <1>4
<1>6. Taken'
  BY <1>1, <1>5 DEF Taken, Preamble
<1>7. CASE Waiting
  <2>1. PICK n : n = Len(taken) /\ Coming(n)
    BY <1>7 DEF Waiting
  <2>2. Coming(n)'
    BY <2>1, ComingNext
  <2>3. Coming(Len(taken))'
    BY <1>1, <2>1, <2>2
  <2> QED BY <1>1, <1>6, <1>7, <2>3 DEF Waiting
<1>8. CASE Filling
  <2>1. PICK n : n = Len(taken) + 1 /\ Coming(n)
    BY <1>8 DEF Filling
  <2>2. Coming(n)'
    BY <2>1, ComingNext
  <2>3. Coming(Len(taken) + 1)'
    BY <1>1, <2>1, <2>2
  <2>4. (\E k \in Sent(packets) : /\ Before(Sent(packets), k) = Len(taken)
                                  /\ \A j \in DOMAIN burst : burst[j] = SampleAt(k, j))'
    BY <1>1, <1>5, <1>8 DEF Filling, SampleAt
  <2> QED BY <1>1, <1>6, <1>8, <2>3, <2>4 DEF Filling
<1> QED BY <1>1, <1>2, <1>7, <1>8

\* The first elements of a sequence, as a function.
LEMMA Prefixed ==
  ASSUME NEW T, NEW s \in Seq(T), NEW n \in Nat, n <= Len(s)
  PROVE  SubSeq(s, 1, n) = [j \in 1 .. n |-> s[j]]
OBVIOUS

\* The detector goes through its phases as long as the line is regular.
LEMMA PhaseNext ==
  ASSUME CollectorInv, DetectorInv, BurstInv, Spare >= 2, Detector, regular
  PROVE  (Waiting \/ Collecting \/ Filling \/ Measuring)' /\ Taken'
<1> DEFINE S == Sent(packets)
<1>1. /\ limit \in Nat /\ Spare \in Nat /\ line \in Seq(Pairs) /\ line # << >>
      /\ burst \in Seq(Pairs) /\ taken \in Seq(Seq(Pairs)) /\ packets' = packets
      /\ Waiting \/ Collecting \/ Filling \/ Measuring
      /\ Taken
  BY DetectorAssumption DEF Detector, collectorVars, DetectorInv, BurstInv
<1>2. Len(line) \in Nat \ {0} /\ Len(burst) \in Nat /\ Len(taken) \in Nat /\ 1 \in DOMAIN line
  BY <1>1, EmptySeq
<1>3. ASSUME NEW k \in S
      PROVE  /\ SampleAt(k, 1) = <<k, 1 - 2>> /\ ~SeemsZero(SampleAt(k, 1))
  <2>1. k \in Nat \ {0}
    BY SentFinite DEF CollectorInv, CountInv
  <2>2. SampleAt(k, 1) = <<k, 1 - 2>>
    BY <1>1 DEF SampleAt
  <2> QED BY <2>1, <2>2 DEF SeemsZero, Zero
<1>4. Head(line) = line[1] /\ Tail(line) \in Seq(Pairs) /\ Len(Tail(line)) = Len(line) - 1
      /\ \A i \in DOMAIN Tail(line) : Tail(line)[i] = line[i + 1] /\ i + 1 \in DOMAIN line
  BY <1>1, <1>2
<1>5. CASE PassOver /\ SeemsZero(Head(line)) /\ TakeZeros /\ UNCHANGED taken
  <2>1. Waiting /\ UNCHANGED <<burstState, burst, taken, limit>>
    BY <1>1, <1>5 DEF PassOver, detectorVars, Collecting, Filling, Measuring
  <2>2. (\A i \in DOMAIN line : line[i] = Zero) /\ Cardinality(S) = Len(taken)
    BY <1>2, <1>3, <1>4, <1>5, <2>1 DEF Waiting, Coming
  <2>3. PICK n \in 1 .. Len(line) : line' = SubSeq(line, 1 + n, Len(line))
    <3>1. Passed(line) \in 1 .. Len(line)
      BY <1>1, ZerosPassed
    <3> QED BY <1>5, <3>1, Takes
  <2>4. \A i \in DOMAIN line' : line'[i] = Zero
    <3>1. \A i \in DOMAIN SubSeq(line, 1 + n, Len(line)) :
            /\ SubSeq(line, 1 + n, Len(line))[i] = line[n + i] /\ n + i \in DOMAIN line
      BY <1>1, <1>2
    <3> QED BY <2>2, <2>3, <3>1
  <2>5. Coming(Len(taken))'
    BY <1>1, <2>1, <2>2, <2>4 DEF Coming
  <2>6. Taken'
    BY <1>1, <2>1 DEF Taken, Preamble
  <2> QED BY <2>1, <2>5, <2>6 DEF Waiting
<1>6. CASE Detect /\ NonZero(Head(line)) /\ Leave /\ UNCHANGED taken
  <2>1. /\ Waiting /\ burstState' = "DETECTED"
        /\ UNCHANGED <<burst, taken, limit, line>>
    BY <1>1, <1>6 DEF Detect, BurstDetect, Leave, Collecting, Filling, Measuring
  <2>2. PICK k \in S :
          /\ Before(S, k) = Len(taken) /\ Cardinality(S) = Len(taken) + 1
          /\ Len(line) >= limit + Spare
          /\ \A i \in DOMAIN line : line[i] = SampleAt(k, i)
    BY <1>2, <1>4, <1>6, <2>1 DEF Waiting, Coming, NonZero
  <2>3. burst = << >> /\ Len(burst) = 0 /\ DOMAIN burst = {}
    BY <2>1 DEF Waiting
  <2>4. /\ Len(burst) < limit + Spare /\ Len(burst) + Len(line) >= limit + Spare
        /\ \A i \in DOMAIN line : line[i] = SampleAt(k, Len(burst) + i)
    <3>1. \A i \in DOMAIN line : 0 + i = i
      BY <1>1
    <3>2. 0 < limit + Spare /\ 0 + Len(line) >= limit + Spare
      BY <1>1, <1>2, <2>2
    <3> QED BY <2>2, <2>3, <3>1, <3>2
  <2>5. Collecting'
    BY <1>1, <2>1, <2>2, <2>3, <2>4 DEF Collecting, SampleAt
  <2>6. Taken'
    BY <1>1, <2>1 DEF Taken, Preamble
  <2> QED BY <2>5, <2>6
<1>7. CASE Collect(Head(line)) /\ Take /\ UNCHANGED taken
  <2>1. /\ Collecting /\ UNCHANGED <<burstState, taken, limit>>
        /\ burst' = Append(burst, line[1]) /\ line' = Tail(line)
    BY <1>1, <1>2, <1>4, <1>7
    DEF Collect, Enough, Take, Waiting, Filling, Measuring
  <2>2. PICK k \in S :
          /\ Before(S, k) = Len(taken) /\ Cardinality(S) = Len(taken) + 1
          /\ Len(burst) + Len(line) >= limit + Spare
          /\ \A j \in DOMAIN burst : burst[j] = SampleAt(k, j)
          /\ \A i \in DOMAIN line : line[i] = SampleAt(k, Len(burst) + i)
    BY <2>1 DEF Collecting
  <2>3. Len(burst') = Len(burst) + 1 /\ Len(line') = Len(line) - 1
    BY <1>1, <1>4, <2>1
  <2>4. \A j \in DOMAIN burst' : burst'[j] = SampleAt(k, j)
    <3>1. line[1] = SampleAt(k, Len(burst) + 1)
      BY <1>2, <2>2
    <3>2. \A j \in DOMAIN Append(burst, line[1]) :
            \/ j \in DOMAIN burst /\ Append(burst, line[1])[j] = burst[j]
            \/ j = Len(burst) + 1 /\ Append(burst, line[1])[j] = line[1]
      BY <1>1
    <3> QED BY <2>1, <2>2, <3>1, <3>2
  <2>5. \A i \in DOMAIN line' : line'[i] = SampleAt(k, Len(burst') + i)
    <3> TAKE i \in DOMAIN line'
    <3>1. line'[i] = line[i + 1] /\ i + 1 \in DOMAIN line
      BY <1>4, <2>1
    <3>2. Len(burst) + (i + 1) = Len(burst') + i
      <4>1. i \in Int
        BY <1>4, <2>1
      <4> QED BY <1>2, <2>3, <4>1
    <3> QED BY <2>2, <3>1, <3>2
  <2>6. Len(burst') + Len(line') >= limit' + Spare
    BY <1>1, <1>2, <2>1, <2>2, <2>3
  <2>7. Taken'
    BY <1>1, <2>1 DEF Taken, Preamble
  <2>8. CASE Len(burst') < limit + Spare
    <3>1. Collecting'
      BY <1>1, <2>1, <2>2, <2>4, <2>5, <2>6, <2>8 DEF Collecting, SampleAt
    <3> QED BY <2>7, <3>1
  <2>9. CASE ~ (Len(burst') < limit + Spare)
    <3>1. Len(burst') = limit + Spare
      BY <1>1, <1>2, <2>1, <2>3, <2>9 DEF Collecting
    <3>2. ASSUME NEW i \in DOMAIN line' PROVE line'[i] = Zero
      <4>1. i \in Nat \ {0}
        BY <1>4, <2>1
      <4>2. ~ (Len(burst') + i <= limit + 2)
        BY <1>1, <3>1, <4>1
      <4> QED BY <2>5, <4>2 DEF SampleAt
    <3>3. Coming(Len(taken) + 1)'
      BY <1>1, <2>1, <2>2, <3>2 DEF Coming
    <3>4. Filling'
      BY <1>1, <2>1, <2>2, <2>4, <3>1, <3>3 DEF Filling, SampleAt, Collecting
    <3> QED BY <2>7, <3>4
  <2> QED BY <2>8, <2>9
<1>8. CASE FillBurst /\ Leave /\ UNCHANGED taken
  <2>1. /\ Filling /\ burstState' = "FINGERPRINT" /\ UNCHANGED <<taken, limit, line>>
        /\ burst' = SubSeq(burst, 1, IF Len(burst) > limit THEN limit ELSE Len(burst))
    BY <1>1, <1>2, <1>8
    DEF FillBurst, Enough, BurstFingerprint, Leave, Waiting, Collecting, Measuring
  <2>2. PICK k \in S : /\ Before(S, k) = Len(taken)
                       /\ \A j \in DOMAIN burst : burst[j] = SampleAt(k, j)
    BY <2>1 DEF Filling
  <2>3. Len(burst) > limit
    BY <1>1, <1>2, <2>1 DEF Filling
  <2>4. burst' = SubSeq(burst, 1, limit)
    BY <2>1, <2>3
  <2>5. burst' = Preamble(k)
    <3>1. SubSeq(burst, 1, limit) = [j \in 1 .. limit |-> burst[j]]
      BY <1>1, <1>2, <2>3, Prefixed
    <3>2. \A j \in 1 .. limit : burst[j] = <<k, j - 2>>
      <4> TAKE j \in 1 .. limit
      <4>1. j \in DOMAIN burst /\ j <= limit + 2
        BY <1>1, <1>2, <2>3
      <4> QED BY <2>2, <4>1 DEF SampleAt
    <3> QED BY <2>4, <3>1, <3>2 DEF Preamble
  <2>6. Preamble(k)' = Preamble(k) /\ line' # << >>
    BY <1>1, <2>1 DEF Preamble
  <2>7. Coming(Len(taken) + 1)'
    BY <1>1, <2>1 DEF Filling, Coming, SampleAt
  <2>8. Measuring'
    BY <1>1, <2>1, <2>2, <2>5, <2>6, <2>7 DEF Measuring
  <2>9. Taken'
    BY <1>1, <2>1 DEF Taken, Preamble
  <2> QED BY <2>8, <2>9
<1>9. ASSUME NEW nan \in NanFound, NEW results \in Results, Fingerprint(nan, results), Leave,
             taken' = Append(taken, burst)
      PROVE  (Waiting \/ Collecting \/ Filling \/ Measuring)' /\ Taken'
  <2>1. /\ Measuring /\ burstState' = "SEARCHING" /\ burst' = << >>
        /\ UNCHANGED <<limit, line>>
    BY <1>1, <1>9
    DEF Fingerprint, BurstSearch, Leave, Waiting, Collecting, Filling
  <2>2. PICK k \in S : Before(S, k) = Len(taken) /\ burst = Preamble(k)
    BY <2>1 DEF Measuring
  <2>3. Len(taken') = Len(taken) + 1
    BY <1>1, <1>9
  <2>4. Coming(Len(taken))'
    BY <1>1, <2>1, <2>3 DEF Measuring, Coming, SampleAt
  <2>5. \A i \in DOMAIN taken' : \/ i \in DOMAIN taken /\ taken'[i] = taken[i]
                                 \/ i - 1 = Len(taken) /\ taken'[i] = burst
    BY <1>1, <1>2, <1>9
  <2>6. \A h : Preamble(h)' = Preamble(h)
    BY <2>1 DEF Preamble
  <2>7. \A i \in DOMAIN taken' :
          \E h \in S : taken'[i] = Preamble(h) /\ Before(S, h) = i - 1
    BY <1>1, <2>2, <2>5 DEF Taken
  <2>8. Taken'
    BY <1>1, <2>6, <2>7 DEF Taken
  <2> QED BY <2>1, <2>4, <2>8 DEF Waiting
<1> QED BY <1>5, <1>6, <1>7, <1>8, <1>9 DEF Detector

LEMMA BurstStep ==
  CollectorInv /\ DetectorInv /\ OrderInv /\ ExactInv /\ BurstInv /\ [Next]_vars => BurstInv'
<1> SUFFICES ASSUME CollectorInv, DetectorInv, OrderInv, ExactInv, BurstInv, [Next]_vars
             PROVE  BurstInv'
  OBVIOUS
<1>1. << >> \in Seq(Seq(Pairs)) /\ taken \in Seq(Seq(Pairs)) /\ burst \in Seq(Pairs)
      /\ regular \in BOOLEAN
  BY DEF BurstInv, DetectorInv
<1>2. taken' \in Seq(Seq(Pairs)) /\ regular' \in BOOLEAN
  <2>1. CASE Collector
    <3>1. regular' \in BOOLEAN
      BY <2>1, Zenon DEF Collector
    <3> QED BY <1>1, <2>1, <3>1 DEF Collector
  <2>2. CASE Detector
    <3>1. Append(taken, burst) \in Seq(Seq(Pairs))
      BY <1>1
    <3> QED BY <1>1, <2>2, <3>1 DEF Detector
  <2>3. CASE UNCHANGED vars
    BY <1>1, <2>3 DEF vars
  <2> QED BY <2>1, <2>2, <2>3 DEF Next
<1>3. ASSUME Spare >= 2, regular'
      PROVE  (Waiting \/ Collecting \/ Filling \/ Measuring)' /\ Taken'
  <2>1. CASE Collector
    BY <1>3, <2>1, PhaseKept
  <2>2. CASE Detector
    BY <1>3, <2>2, PhaseNext DEF Detector
  <2>3. CASE UNCHANGED vars
    <3>1. UNCHANGED <<packets, limit, burstState, burst, line, taken, regular>>
      BY <2>3 DEF vars, collectorVars, detectorVars
    <3>2. (Waiting \/ Collecting \/ Filling \/ Measuring) /\ Taken
      BY <1>3, <3>1 DEF BurstInv
    <3> QED BY <3>1, <3>2 DEF Waiting, Collecting, Filling, Measuring, Coming, Taken,
                              SampleAt, Preamble
  <2> QED BY <2>1, <2>2, <2>3 DEF Next
<1> QED BY <1>2, <1>3 DEF BurstInv

LineInv == Inv /\ OrderInv /\ ExactInv /\ BurstInv

THEOREM LineInvariance == Spec => []LineInv
<1>1. Init => LineInv
  <2> SUFFICES ASSUME Init PROVE LineInv
    OBVIOUS
  <2>1. Inv
    BY CollectorStart, DetectorStart DEF Inv
  <2>2. /\ packets = << >> /\ DOMAIN packets = {} /\ limit = PreambleLen /\ line = << >>
        /\ DOMAIN line = {} /\ taken = << >> /\ Len(taken) = 0 /\ DOMAIN taken = {}
        /\ regular = TRUE /\ burst = << >> /\ burstState = "SEARCHING"
        /\ crcBuffer = [on |-> FALSE, samples |-> << >>]
    BY DEF Init, CollectorInit, DetectorInit, UnsetBuffer
  <2>3. OrderInv /\ ExactInv
    BY <2>2 DEF OrderInv, ExactInv
  <2>4. Sent(packets) = {} /\ Cardinality({}) = 0
    BY <2>2, FS_EmptySet DEF Sent
  <2>5. Coming(Len(taken))
    BY <2>2, <2>4 DEF Coming
  <2>6. Waiting /\ Taken
    BY <2>2, <2>5 DEF Waiting, Taken
  <2>7. << >> \in Seq(Seq(Pairs))
    OBVIOUS
  <2>8. BurstInv
    BY <2>2, <2>6, <2>7 DEF BurstInv
  <2> QED BY <2>1, <2>3, <2>8 DEF LineInv
<1>2. LineInv /\ [Next]_vars => LineInv'
  BY CollectorSteps, CollectorStep, DetectorStep, OrderStep, ExactStep, BurstStep
  DEF LineInv, Inv, CollectorInv
<1> QED BY <1>1, <1>2, PTL DEF Spec

\* OneBurstPerPreamble: as long as nothing makes the line irregular, dna_detector_ccf
\* fingerprints exactly one burst for each preamble that preamble_sink put out, in order,
\* of the samples from the one before the trigger on. A burst has to be longer than a
\* preamble by two samples at least: those that are put out around it.
THEOREM OneForEach == Spec => [](Spare >= 2 => OneBurstPerPreamble)
<1>1. LineInv => (Spare >= 2 => OneBurstPerPreamble)
  <2> SUFFICES ASSUME LineInv, Spare >= 2, regular
               PROVE  LET sent == {k \in DOMAIN packets : packets[k].out}
                      IN  /\ \A i \in DOMAIN taken :
                               \E k \in sent :
                                 /\ taken[i] = [j \in 1 .. limit |-> <<k, j - 2>>]
                                 /\ Cardinality({h \in sent : h < k}) = i - 1
                          /\ line = << >> =>
                               Len(taken) + (IF burst = << >> THEN 0 ELSE 1) = Cardinality(sent)
    BY DEF OneBurstPerPreamble
  <2>1. (Waiting \/ Collecting \/ Filling \/ Measuring) /\ Taken
    BY DEF LineInv, BurstInv
  <2>2. \A i \in DOMAIN taken :
          \E k \in Sent(packets) :
            /\ taken[i] = [j \in 1 .. limit |-> <<k, j - 2>>]
            /\ Cardinality({h \in Sent(packets) : h < k}) = i - 1
    BY <2>1 DEF Taken, Preamble, Before
  <2>3. ASSUME line = << >>
        PROVE  Len(taken) + (IF burst = << >> THEN 0 ELSE 1) = Cardinality(Sent(packets))
    <3>1. /\ Len(line) = 0 /\ Len(burst) \in Nat /\ Len(taken) \in Nat /\ limit \in Nat
          /\ Spare \in Nat /\ burst \in Seq(Pairs)
      BY <2>3, DetectorAssumption DEF LineInv, Inv, DetectorInv, BurstInv
    <3>2. ASSUME NEW n, Coming(n) PROVE Cardinality(Sent(packets)) = n
      BY <3>1, <3>2 DEF Coming
    <3>3. ~ Measuring
      BY <2>3 DEF Measuring
    <3>4. ~ Collecting
      <4>1. ~ (Len(burst) < limit + Spare /\ Len(burst) + 0 >= limit + Spare)
        BY <3>1
      <4> QED BY <3>1, <4>1 DEF Collecting
    <3>5. CASE Waiting
      BY <3>1, <3>2, <3>5 DEF Waiting
    <3>6. CASE Filling
      <4>1. Len(burst) # 0 /\ Cardinality(Sent(packets)) = Len(taken) + 1
        BY <3>1, <3>2, <3>6 DEF Filling
      <4>2. burst # << >>
        BY <4>1
      <4> QED BY <4>1, <4>2
    <3> QED BY <2>1, <3>3, <3>4, <3>5, <3>6
  <2> QED BY <2>2, <2>3 DEF Sent
<1> QED BY <1>1, LineInvariance, PTL

-----------------------------------------------------------------------------
(***************************************************************************)
(* The phases, for all angles.                                             *)
(***************************************************************************)

\* fmod() takes whole multiples away and leaves less than one.
LEMMA FModRemainder ==
  ASSUME NEW a \in Int, NEW m \in Nat \ {0}
  PROVE  /\ FMod(a, m) \in Int /\ -m < FMod(a, m) /\ FMod(a, m) < m
         /\ \E q \in Int : a = m * q + FMod(a, m)
<1>1. ASSUME NEW n \in Nat
      PROVE  n % m \in 0 .. m - 1 /\ n \div m \in Int /\ n = m * (n \div m) + (n % m)
  OBVIOUS
<1>2. CASE a >= 0
  <2>1. FMod(a, m) = a % m
    BY <1>2 DEF FMod
  <2>2. a = m * (a \div m) + FMod(a, m)
    BY <1>1, <1>2, <2>1
  <2>3. a \div m \in Int /\ a % m \in 0 .. m - 1
    BY <1>1, <1>2
  <2>4. FMod(a, m) \in Int /\ -m < FMod(a, m) /\ FMod(a, m) < m
    BY <2>1, <2>3
  <2>5. \E q \in Int : a = m * q + FMod(a, m)
    BY <2>2, <2>3, Zenon
  <2> QED BY <2>4, <2>5
<1>3. CASE ~(a >= 0)
  <2> DEFINE n == -a
             d == n \div m
  <2>1. n \in Nat /\ FMod(a, m) = -(n % m)
    BY <1>3 DEF FMod
  <2>2. n % m \in 0 .. m - 1 /\ d \in Int /\ n = m * d + (n % m)
    BY <1>1, <2>1
  <2>3. m * (-d) = -(m * d) /\ m * d \in Int
    BY <2>2
  <2> HIDE DEF d
  <2>4. a = m * (-d) + FMod(a, m)
    BY <2>1, <2>2, <2>3
  <2>5. -d \in Int
    BY <2>2
  <2>6. FMod(a, m) \in Int /\ -m < FMod(a, m) /\ FMod(a, m) < m
    <3> HIDE DEF n
    <3> QED BY <2>1, <2>2
  <2>7. \E q \in Int : a = m * q + FMod(a, m)
    BY <2>4, <2>5, Zenon
  <2> QED BY <2>6, <2>7
<1> QED BY <1>2, <1>3

\* Whole turns are whole numbers.
LEMMA WholeTurns ==
  ASSUME NEW k \in Int
  PROVE  Turn * k \in Int
<1>1. Turn \in Int
  BY PhasesAssumption DEF Turn
<1> QED BY <1>1

\* Centred as in ConstrainAngle and AngleDiff, the remainder is within half a turn.
LEMMA Centred ==
  ASSUME NEW a \in Int
  PROVE  /\ ConstrainAngle(a) \in -HalfTurn .. HalfTurn - 1
         /\ \E q \in Int : a = Turn * q + ConstrainAngle(a)
<1>1. Turn \in Nat \ {0} /\ HalfTurn \in Nat /\ Turn = 2 * HalfTurn
  BY PhasesAssumption DEF Turn
<1> DEFINE x == FMod(a + HalfTurn, Turn)
<1>2. x \in Int /\ -Turn < x /\ x < Turn
  BY <1>1, FModRemainder
<1>3. PICK q \in Int : a + HalfTurn = Turn * q + x
  <2>1. a + HalfTurn \in Int
    BY <1>1
  <2> QED BY <1>1, <2>1, FModRemainder, Zenon
<1>4. ConstrainAngle(a) = (IF x < 0 THEN x + Turn ELSE x) - HalfTurn
  BY DEF ConstrainAngle
<1> HIDE DEF x
<1>5. CASE x < 0
  <2>1. a = Turn * (q - 1) + ConstrainAngle(a)
    <3>1. Turn * (q - 1) = Turn * q - Turn
      BY <1>1
    <3> QED BY <1>1, <1>2, <1>3, <1>4, <1>5, <3>1
  <2> QED BY <1>1, <1>2, <1>4, <1>5, <2>1
<1>6. CASE ~(x < 0)
  <2>1. a = Turn * q + ConstrainAngle(a)
    BY <1>1, <1>2, <1>3, <1>4, <1>6
  <2> QED BY <1>1, <1>2, <1>4, <1>6, <2>1
<1> QED BY <1>5, <1>6

\* Only one angle within half a turn differs by whole turns.
LEMMA CentredOnce ==
  ASSUME NEW a \in -HalfTurn .. HalfTurn - 1, NEW b \in -HalfTurn .. HalfTurn - 1,
         NEW q \in Int, a = Turn * q + b
  PROVE  a = b
<1>1. HalfTurn \in Nat \ {0} /\ Turn = 2 * HalfTurn /\ Turn \in Nat
  BY PhasesAssumption DEF Turn
<1>2. CASE q >= 1
  <2>1. Turn * q >= Turn
    BY <1>1, <1>2
  <2> QED BY <1>1, <2>1
<1>3. CASE q <= -1
  <2>1. Turn * q <= -Turn
    BY <1>1, <1>3
  <2> QED BY <1>1, <2>1
<1>4. CASE q = 0
  BY <1>1, <1>4
<1> QED BY <1>2, <1>3, <1>4

\* unwrap_phase() gives an angle of the sample, to whole turns, and the one of them that is
\* within half a turn of the angle before. So the frequencies of make_subregion() are
\* bounded, and its phases are those of the samples.
THEOREM UnwrapFollows ==
  ASSUME NEW before \in Int, NEW angle \in Int
  PROVE  /\ UnwrapPhase(before, angle) - before \in -HalfTurn + 1 .. HalfTurn
         /\ \E k \in Int : UnwrapPhase(before, angle) = angle + Turn * k
<1>1. HalfTurn \in Nat \ {0} /\ Turn \in Nat \ {0}
  BY PhasesAssumption DEF Turn
<1> DEFINE p == AngleConv(before)
           d == AngleDiff(angle, p)
<1>2. PICK k \in Int : before = Turn * k + ConstrainAngle(before)
  BY Centred
<1>3. ConstrainAngle(before) \in Int
  BY Centred, <1>1
<1>4. PICK l \in Int : ConstrainAngle(before) = Turn * l + p /\ p \in Int
  BY <1>1, <1>3, FModRemainder DEF AngleConv
<1>5. d = ConstrainAngle(p - angle)
  BY DEF AngleDiff, ConstrainAngle
<1>6. PICK q \in Int : p - angle = Turn * q + d
  BY <1>4, <1>5, Centred
<1>7. d \in -HalfTurn .. HalfTurn - 1
  BY <1>4, <1>5, Centred
<1>8. UnwrapPhase(before, angle) = before - d
  BY DEF UnwrapPhase
<1> HIDE DEF p, d
<1>9. before - d = angle + Turn * (k + l + q)
  <2>1. Turn * (k + l + q) = Turn * k + Turn * l + Turn * q
    BY <1>1
  <2>2. Turn * k \in Int /\ Turn * l \in Int /\ Turn * q \in Int
    BY <1>1
  <2>3. d \in Int
    BY <1>1, <1>7
  <2> QED BY <1>2, <1>3, <1>4, <1>6, <2>1, <2>2, <2>3
<1>10. before - d - before \in -HalfTurn + 1 .. HalfTurn
  BY <1>1, <1>7
<1>11. k + l + q \in Int
  OBVIOUS
<1> QED BY <1>8, <1>9, <1>10, <1>11

\* unwrap_phase() "keeps track of how many times the IQ unit circle has been traversed"
\* (make_subregion): if the phase goes on by less than half a turn from one sample to the
\* next, the unwrapped phase is the true one, by whichever of its angles it is told.
THEOREM UnwrapExact ==
  ASSUME NEW before \in Int, NEW actual \in Int, NEW turns \in Int,
         actual - before \in -HalfTurn + 1 .. HalfTurn - 1
  PROVE  UnwrapPhase(before, actual + Turn * turns) = actual
<1>1. HalfTurn \in Nat \ {0} /\ Turn \in Nat \ {0}
  BY PhasesAssumption DEF Turn
<1>2. Turn * turns \in Int /\ actual + Turn * turns \in Int
  BY WholeTurns
<1> DEFINE u == UnwrapPhase(before, actual + Turn * turns)
<1>3. PICK k \in Int : u = actual + Turn * turns + Turn * k
  BY <1>2, UnwrapFollows
<1>4. u - before \in -HalfTurn + 1 .. HalfTurn
  BY <1>2, UnwrapFollows
<1> HIDE DEF u
<1>5. Turn * k \in Int /\ u \in Int
  <2>1. Turn * k \in Int
    BY WholeTurns
  <2> QED BY <1>2, <1>3, <2>1
<1>6. before - actual \in -HalfTurn .. HalfTurn - 1 /\ before - u \in -HalfTurn .. HalfTurn - 1
  BY <1>1, <1>4, <1>5
<1>7. before - actual = Turn * (turns + k) + (before - u)
  <2>1. Turn * (turns + k) = Turn * turns + Turn * k
    BY <1>1
  <2> QED BY <1>2, <1>3, <1>5, <2>1
<1>8. before - actual = before - u
  BY <1>6, <1>7, CentredOnce
<1> QED BY <1>5, <1>8 DEF u

-----------------------------------------------------------------------------
(***************************************************************************)
(* The files of the detector, for any number of opens, any lengths of     *)
(* files and any size of a read: the inductive invariant of the two        *)
(* threads. Fairness plays no part.                                        *)
(***************************************************************************)

InOpen == {"open", "opened", "close"}

ValuesInv ==
  /\ kind \in {"store", "read"} /\ updated \in BOOLEAN /\ repeat \in BOOLEAN
  /\ lock \in {"control", "worker", "none"}
  /\ control \in InOpen \cup {"idle", "seek", "gone"}
  /\ worker \in {"idle", "update", "use", "reading", "gone"}
  /\ want \in 0 .. Items /\ left \in Nat /\ replaced \in Nat

HandlesInv ==
  /\ closes \in Seq(Nat) /\ size \in Seq(Nat)
  /\ Len(closes) \in 1 .. MaxOpens /\ Len(size) = Len(closes)
  /\ fp \in Handles \cup {0} /\ newFp \in Handles \cup {0} /\ aim \in Handles \cup {0}
  /\ chosen \in recent /\ recent \subseteq Handles \cup {0}

\* A thread has the mutex exactly in its critical section; open() has checked the bound.
LockInv ==
  /\ (lock = "control") <=> (control \in InOpen)
  /\ (lock = "worker") <=> (worker = "reading")
  /\ control = "open" => Len(closes) < MaxOpens

PositionInv ==
  /\ worker = "reading" => fp # 0
  /\ fp # 0 => left <= size[fp]

\* What seek() has loaded is the file in use, unless it was closed in between.
AimInv == control = "seek" /\ aim # 0 => aim = fp \/ closes[aim] # 0

\* No handle is closed twice, and the two that are kept are open and differ.
OpenInv ==
  /\ \A h \in Handles : closes[h] <= 1
  /\ fp # 0 => closes[fp] = 0
  /\ newFp # 0 => closes[newFp] = 0
  /\ fp = newFp => fp = 0

\* Outside open(), what was chosen last is what waits, if d_updated is set, and what is
\* used otherwise; the worker is about to install only if it is set.
ChoiceInv ==
  /\ ~updated => fp = chosen
  /\ updated /\ control \notin {"opened", "gone"} => newFp = chosen
  /\ worker = "update" => updated
  /\ control = "gone" => worker \in {"idle", "gone"}
  /\ worker \in {"use", "reading"} => fp \in recent

FilesInv ==
  ValuesInv /\ HandlesInv /\ LockInv /\ PositionInv /\ AimInv /\ OpenInv /\ ChoiceInv

-----------------------------------------------------------------------------
(***************************************************************************)
(* What the operations do to the sequences of the history.                 *)
(***************************************************************************)

\* A further handle leaves those before it alone.
LEMMA AppendHandle ==
  ASSUME NEW s \in Seq(Nat), NEW n \in Nat
  PROVE  /\ Append(s, n) \in Seq(Nat) /\ Len(Append(s, n)) = Len(s) + 1
         /\ \A h \in 1 .. Len(s) : Append(s, n)[h] = s[h]
         /\ Append(s, n)[Len(s) + 1] = n
OBVIOUS

\* fclose() of a handle counts for that handle only.
LEMMA ClosedHandle ==
  ASSUME closes \in Seq(Nat), NEW h \in Handles
  PROVE  /\ Closed(h) \in Seq(Nat) /\ Len(Closed(h)) = Len(closes)
         /\ \A g \in Handles : Closed(h)[g] = closes[g] + (IF g = h THEN 1 ELSE 0)
BY DEF Closed, Handles

\* open() of a file_read closes the file that waited, that of a file_store does not.
LEMMA PendingDropped ==
  ASSUME HandlesInv
  PROVE  /\ DropPending \in Seq(Nat) /\ Len(DropPending) = Len(closes)
         /\ \A g \in Handles :
              DropPending[g] = closes[g] + (IF kind = "read" /\ g = newFp THEN 1 ELSE 0)
<1>1. CASE kind = "read" /\ newFp # 0
  BY <1>1, ClosedHandle DEF HandlesInv, DropPending
<1>2. CASE ~(kind = "read" /\ newFp # 0)
  BY <1>2 DEF HandlesInv, DropPending, Handles
<1> QED BY <1>1, <1>2

\* Handles are counted with natural numbers.
LEMMA Counts ==
  ASSUME HandlesInv
  PROVE  Len(closes) \in Nat /\ \A h \in Handles : closes[h] \in Nat
<1>1. closes \in Seq(Nat)
  BY DEF HandlesInv
<1> QED BY <1>1 DEF Handles

\* The destructors close each of the two files once.
LEMMA DestroyedHandles ==
  ASSUME NEW h \in Nat
  PROVE  Cardinality({x \in {fp, newFp} : x = h}) = (IF h \in {fp, newFp} THEN 1 ELSE 0)
<1>1. CASE h \in {fp, newFp}
  <2>1. {x \in {fp, newFp} : x = h} = {h}
    BY <1>1
  <2> QED BY <1>1, <2>1, FS_Singleton
<1>2. CASE h \notin {fp, newFp}
  <2>1. {x \in {fp, newFp} : x = h} = {}
    BY <1>2
  <2> QED BY <1>2, <2>1, FS_EmptySet
<1> QED BY <1>1, <1>2

-----------------------------------------------------------------------------
(***************************************************************************)
(* The invariant is inductive.                                             *)
(***************************************************************************)

\* Both constructors leave one open file, installed or waiting.
LEMMA InitFilesInv == FilesInit => FilesInv
<1> SUFFICES ASSUME FilesInit PROVE FilesInv
  OBVIOUS
<1> PICK n \in Sizes : size = <<n>> /\ left = n
  BY DEF FilesInit
<1>1. ValuesInv
  <2>1. left \in Nat /\ want \in 0 .. Items /\ replaced \in Nat
    BY FileAssumption DEF FilesInit
  <2>2. updated \in BOOLEAN
    BY DEF FilesInit
  <2> QED BY <2>1, <2>2 DEF FilesInit, ValuesInv, InOpen
<1>2. HandlesInv
  BY FileAssumption DEF FilesInit, HandlesInv, Handles
<1>3. LockInv /\ PositionInv /\ AimInv /\ OpenInv /\ ChoiceInv
  BY FileAssumption DEF FilesInit, LockInv, PositionInv, AimInv, OpenInv, ChoiceInv, InOpen, Handles
<1> QED BY <1>1, <1>2, <1>3 DEF FilesInv

\* Steps that leave the handles and their history alone, and move a thread on or the
\* position in the file.
QuietStep ==
  \/ Begin("open") \/ Begin("close") \/ NoSuchFile \/ SeekBegins \/ SeekSteps
  \/ Call \/ Store \/ BeginRead \/ ReadSteps

LEMMA QuietSteps ==
  ASSUME FilesInv, QuietStep
  PROVE  FilesInv'
<1> USE DEF FilesInv, InOpen
<1> DEFINE Q == UNCHANGED <<kind, fp, newFp, updated, closes, size, replaced, chosen>>
           S == fp # 0 => size[fp] \in Nat
<1>s. S
  BY DEF HandlesInv, Handles
<1>0. Q
  BY DEF QuietStep, SeekSteps, ReadSteps, Begin, NoSuchFile, SeekBegins, SeekMoves, SeekStale, Call,
         Store, BeginRead, ReadSome, Rewind, RewindFails, EndRead, Return, files
<1>1. CASE Begin("open") \/ Begin("close") \/ NoSuchFile \/ Call \/ Store \/ EndRead
  <2>0. UNCHANGED <<left, aim>>
    BY <1>1 DEF Begin, NoSuchFile, Return, Call, Store, EndRead, files
  <2>1. ValuesInv' /\ HandlesInv'
    <3>1. ValuesInv'
      BY <1>1, FileAssumption DEF ValuesInv, Begin, NoSuchFile, Return, Call, Store, EndRead, files
    <3>2. chosen' \in recent' /\ recent' \subseteq Handles \cup {0}
      BY <1>1 DEF HandlesInv, Begin, NoSuchFile, Return, Call, Store, EndRead, files
    <3> QED BY <1>0, <2>0, <3>1, <3>2 DEF HandlesInv, Handles
  <2>2. LockInv' /\ PositionInv' /\ AimInv' /\ OpenInv'
    <3>1. LockInv'
      BY <1>0, <1>1 DEF LockInv, ValuesInv, HandlesInv, Begin, NoSuchFile, Return, Call, Store,
                        EndRead, files
    <3>2. PositionInv' /\ AimInv'
      BY <1>0, <2>0, <1>1 DEF PositionInv, AimInv, Begin, NoSuchFile, Return, Call, Store, EndRead,
                              files
    <3> QED BY <1>0, <3>1, <3>2 DEF OpenInv, Handles
  <2>3. ChoiceInv'
    BY <1>0, <1>1 DEF ChoiceInv, ValuesInv, LockInv, HandlesInv, Begin, NoSuchFile, Return, Call,
                      Store, EndRead, files
  <2> QED BY <2>1, <2>2, <2>3
<1>2. CASE BeginRead
  <2>1. ValuesInv' /\ HandlesInv'
    BY <1>2, FileAssumption DEF BeginRead, ValuesInv, HandlesInv, Handles, files
  <2>2. LockInv' /\ PositionInv' /\ AimInv' /\ OpenInv' /\ ChoiceInv'
    BY <1>2 DEF BeginRead, LockInv, PositionInv, AimInv, OpenInv, ChoiceInv, Handles, files
  <2> QED BY <2>1, <2>2
<1>3. CASE ReadSome \/ Rewind
  <2>0. /\ UNCHANGED <<files, fp, newFp, updated, repeat, lock, control, worker, recent>>
        /\ worker = "reading"
    BY <1>3 DEF ReadSome, Rewind
  <2>1. want' \in 0 .. Items /\ left' \in Nat /\ left' <= size[fp]
    <3>1. CASE ReadSome
      <4>1. PICK n \in 1 .. Least(want, left) : want' = want - n /\ left' = left - n
        BY <3>1 DEF ReadSome
      <4> QED BY <4>1, <1>s, <2>0, FileAssumption DEF ValuesInv, PositionInv, Least
    <3>2. CASE Rewind
      BY <3>2, <1>s, <2>0 DEF Rewind, ValuesInv, PositionInv
    <3> QED BY <1>3, <3>1, <3>2
  <2>2. ValuesInv' /\ HandlesInv'
    BY <2>0, <2>1 DEF ValuesInv, HandlesInv, Handles, files
  <2>3. LockInv' /\ PositionInv' /\ AimInv' /\ OpenInv' /\ ChoiceInv'
    BY <2>0, <2>1 DEF LockInv, PositionInv, AimInv, OpenInv, ChoiceInv, Handles, files
  <2> QED BY <2>2, <2>3
<1>4. CASE SeekBegins
  <2>1. ValuesInv' /\ HandlesInv'
    BY <1>4 DEF SeekBegins, ValuesInv, HandlesInv, Handles
  <2>2. LockInv' /\ PositionInv' /\ AimInv' /\ OpenInv' /\ ChoiceInv'
    BY <1>4 DEF SeekBegins, LockInv, PositionInv, AimInv, OpenInv, ChoiceInv, Handles
  <2> QED BY <2>1, <2>2
<1>5. CASE SeekSteps /\ control' = "idle"
  <2>0. /\ UNCHANGED <<files, fp, newFp, updated, repeat, lock, worker, want, recent>>
        /\ control = "seek"
    BY <1>5 DEF SeekSteps, SeekMoves, SeekStale, ProcessEnds
  <2>1. left' \in Nat /\ (fp # 0 => left' <= size[fp])
    <3>1. CASE SeekMoves
      <4>1. aim = fp /\ fp # 0 /\ left' \in 0 .. size[aim]
        BY <3>1 DEF SeekMoves, AimInv
      <4> QED BY <4>1, <1>s
    <3>2. CASE SeekStale
      <4>1. left' = left \/ (fp # 0 /\ left' \in 0 .. size[fp])
        BY <1>5, <3>2 DEF SeekStale, ProcessEnds
      <4> QED BY <4>1, <1>s DEF ValuesInv, PositionInv
    <3> QED BY <1>5, <3>1, <3>2 DEF SeekSteps
  <2>2. ValuesInv' /\ HandlesInv'
    BY <1>5, <2>0, <2>1 DEF ValuesInv, HandlesInv, Handles, files
  <2>3. LockInv' /\ PositionInv' /\ AimInv' /\ OpenInv' /\ ChoiceInv'
    BY <1>5, <2>0, <2>1 DEF LockInv, PositionInv, AimInv, OpenInv, ChoiceInv, Handles, files
  <2> QED BY <2>2, <2>3
<1>6. CASE RewindFails \/ (SeekSteps /\ control' # "idle")
  <2>0. /\ UNCHANGED <<files, fp, newFp, updated, repeat, left, want, recent>>
        /\ ProcessEnds
    BY <1>6 DEF RewindFails, SeekSteps, SeekMoves, SeekStale
  <2>1. ValuesInv' /\ HandlesInv'
    BY <2>0 DEF ProcessEnds, ValuesInv, HandlesInv, Handles, files
  <2>2. LockInv' /\ PositionInv' /\ AimInv' /\ OpenInv' /\ ChoiceInv'
    BY <2>0 DEF ProcessEnds, LockInv, PositionInv, AimInv, OpenInv, ChoiceInv, Handles, files
  <2> QED BY <2>1, <2>2
<1> QED BY <1>1, <1>2, <1>3, <1>4, <1>5, <1>6 DEF QuietStep, ReadSteps

\* The end of an open() that installs nothing yet, and close(): no file is lost sight of
\* but by a file_store.
LEMMA ControlSteps ==
  ASSUME FilesInv, CloseOfNull \/ Fdopen \/ FdopenFails \/ Opened \/ Close
  PROVE  FilesInv'
<1> USE DEF FilesInv, InOpen
<1>a. kind \in {"store", "read"} /\ HandlesInv
  BY DEF ValuesInv
<1>1. CASE CloseOfNull
  <2>1. ValuesInv' /\ HandlesInv' /\ LockInv'
    BY <1>1 DEF CloseOfNull, ProcessEnds, ValuesInv, HandlesInv, LockInv, Handles
  <2>2. PositionInv' /\ AimInv' /\ OpenInv' /\ ChoiceInv'
    BY <1>1 DEF CloseOfNull, ProcessEnds, HandlesInv, LockInv, PositionInv, AimInv, OpenInv, ChoiceInv, Handles
  <2> QED BY <2>1, <2>2
<1>2. CASE Fdopen
  <2>a. PICK n \in Sizes : closes' = Append(DropPending, 0) /\ size' = Append(size, n)
    BY <1>2 DEF Fdopen
  <2>0. n \in Nat
    BY FileAssumption
  <2>1. /\ closes' \in Seq(Nat) /\ Len(closes') = Len(closes) + 1
        /\ closes'[Len(closes) + 1] = 0
        /\ \A h \in Handles :
             closes'[h] = closes[h] + (IF kind = "read" /\ h = newFp THEN 1 ELSE 0)
    BY <1>a, <2>a, PendingDropped, AppendHandle DEF Handles
  <2>2. /\ size' \in Seq(Nat) /\ Len(size') = Len(size) + 1
        /\ \A h \in Handles : size'[h] = size[h]
    BY <2>0, <2>a, AppendHandle DEF HandlesInv, Handles
  <2>3. newFp' = Len(closes) + 1
    BY <1>2, <2>1 DEF Fdopen
  <2>4. ValuesInv'
    BY <1>2 DEF Fdopen, ValuesInv
  <2>5. HandlesInv'
    <3>1. Len(closes) \in Nat /\ Len(closes) + 1 <= MaxOpens /\ Len(size) = Len(closes)
      BY <1>2, FileAssumption DEF Fdopen, HandlesInv, LockInv
    <3>2. Handles \subseteq Handles' /\ newFp' \in Handles'
      BY <3>1, <2>1, <2>3 DEF Handles
    <3>3. Len(closes') \in 1 .. MaxOpens /\ Len(size') = Len(closes')
      BY <3>1, <2>1, <2>2, FileAssumption
    <3>4. UNCHANGED <<fp, aim, chosen, recent>>
      BY <1>2 DEF Fdopen
    <3> QED BY <2>1, <2>2, <3>2, <3>3, <3>4 DEF HandlesInv
  <2>6. LockInv'
    BY <1>2 DEF Fdopen, LockInv, ValuesInv
  <2>7. PositionInv' /\ AimInv'
    BY <1>2, <2>2 DEF Fdopen, PositionInv, AimInv, HandlesInv
  <2>8. OpenInv'
    <3>1. Handles' = Handles \cup {newFp'} /\ newFp' \notin Handles /\ UNCHANGED fp
      BY <1>2, <1>a, <2>1, <2>3, Counts DEF Fdopen, Handles
    <3>2. fp \in Handles \cup {0} /\ \A h \in Handles : closes[h] \in Nat /\ h # 0
      BY <1>a, Counts DEF HandlesInv, Handles
    <3>3. \A h \in Handles : closes'[h] <= 1 /\ (h # newFp => closes'[h] = closes[h])
      <4> TAKE h \in Handles
      <4>1. closes[h] \in Nat /\ closes[h] <= 1 /\ (h = newFp => closes[h] = 0)
        BY <3>2 DEF OpenInv
      <4>2. closes'[h] = closes[h] + (IF kind = "read" /\ h = newFp THEN 1 ELSE 0)
        BY <2>1
      <4> QED BY <4>1, <4>2
    <3>4. \A h \in Handles' : closes'[h] <= 1
      <4> TAKE h \in Handles'
      <4>1. CASE h \in Handles
        BY <4>1, <3>3
      <4>2. CASE h = newFp'
        BY <4>2, <2>1, <2>3
      <4> QED BY <3>1, <4>1, <4>2
    <3>5. fp # 0 => fp \in Handles /\ fp # newFp /\ closes[fp] = 0
      BY <3>2 DEF OpenInv
    <3>6. closes'[newFp'] = 0 /\ (fp' # 0 => closes'[fp'] = 0) /\ (fp' = newFp' => fp' = 0)
      BY <3>1, <3>3, <3>5, <2>1, <2>3
    <3> QED BY <3>4, <3>6 DEF OpenInv
  <2>9. ChoiceInv'
    BY <1>2 DEF Fdopen, ChoiceInv, ValuesInv
  <2> QED BY <2>4, <2>5, <2>6, <2>7, <2>8, <2>9
<1>3. CASE FdopenFails
  <2>1. /\ closes' \in Seq(Nat) /\ Len(closes') = Len(closes)
        /\ \A h \in Handles :
             closes'[h] = closes[h] + (IF kind = "read" /\ h = newFp THEN 1 ELSE 0)
    BY <1>a, <1>3, PendingDropped DEF FdopenFails
  <2>2. ValuesInv'
    <3>1. updated' \in BOOLEAN
      BY <1>3 DEF FdopenFails, ValuesInv
    <3>2. replaced' \in Nat
      BY <1>3 DEF FdopenFails, ValuesInv
    <3> QED BY <1>3, <3>1, <3>2 DEF FdopenFails, Return, ValuesInv
  <2>3. HandlesInv'
    BY <1>3, <2>1 DEF FdopenFails, Return, Choose, HandlesInv, Handles
  <2>4. LockInv'
    BY <1>3 DEF FdopenFails, Return, LockInv, ValuesInv
  <2>5. PositionInv' /\ AimInv'
    BY <1>3 DEF FdopenFails, Return, PositionInv, AimInv
  <2>6. OpenInv'
    <3>1. Handles' = Handles /\ newFp' = 0 /\ UNCHANGED fp
      BY <1>3, <2>1 DEF FdopenFails, Handles
    <3>2. fp \in Handles \cup {0} /\ \A h \in Handles : closes[h] \in Nat /\ h # 0
      BY <1>a, Counts DEF HandlesInv, Handles
    <3>3. \A h \in Handles : closes'[h] <= 1 /\ (h # newFp => closes'[h] = closes[h])
      BY <3>2, <2>1 DEF OpenInv
    <3>4. fp # 0 => fp \in Handles /\ fp # newFp /\ closes[fp] = 0
      BY <3>2 DEF OpenInv
    <3>5. fp' # 0 => closes'[fp'] = 0
      BY <3>1, <3>3, <3>4
    <3> QED BY <3>1, <3>3, <3>5 DEF OpenInv
  <2>7. ChoiceInv'
    BY <1>3 DEF FdopenFails, Return, Choose, ChoiceInv, ValuesInv
  <2> QED BY <2>2, <2>3, <2>4, <2>5, <2>6, <2>7
<1>4. CASE Opened
  <2>1. ValuesInv'
    BY <1>4 DEF Opened, Return, ValuesInv
  <2>2. HandlesInv' /\ LockInv' /\ PositionInv' /\ AimInv' /\ OpenInv'
    BY <1>4 DEF Opened, Return, Choose, HandlesInv, LockInv, PositionInv, AimInv, OpenInv, Handles,
                ValuesInv
  <2>3. ChoiceInv'
    BY <1>4 DEF Opened, Return, Choose, ChoiceInv, ValuesInv
  <2> QED BY <2>1, <2>2, <2>3
<1>5. CASE Close
  <2>1. /\ closes' \in Seq(Nat) /\ Len(closes') = Len(closes)
        /\ \A h \in Handles :
             closes'[h] = closes[h] + (IF h = newFp THEN 1 ELSE 0)
    <3>1. CASE newFp # 0
      <4>1. newFp \in Handles
        BY <3>1 DEF HandlesInv
      <4>2. closes' = Closed(newFp)
        BY <3>1, <1>5 DEF Close
      <4> QED BY <4>1, <4>2, ClosedHandle DEF HandlesInv
    <3>2. CASE newFp = 0
      BY <3>2, <1>5 DEF Close, HandlesInv, Handles
    <3> QED BY <3>1, <3>2
  <2>2. ValuesInv'
    BY <1>5 DEF Close, Return, ValuesInv
  <2>3. HandlesInv'
    BY <1>5, <2>1 DEF Close, Return, Choose, HandlesInv, Handles
  <2>4. LockInv' /\ PositionInv' /\ AimInv'
    BY <1>5 DEF Close, Return, LockInv, PositionInv, AimInv, ValuesInv
  <2>5. OpenInv'
    <3>1. Handles' = Handles /\ UNCHANGED fp /\ newFp' = 0
      BY <1>5, <2>1 DEF Close, Handles
    <3>2. \A h \in Handles : closes[h] \in Nat /\ closes[h] <= 1 /\ h # 0
      BY Counts DEF OpenInv, Handles
    <3>3. \A h \in Handles : closes'[h] <= 1
      <4> TAKE h \in Handles
      <4>1. CASE h = newFp
        BY <4>1, <2>1, <3>2 DEF OpenInv
      <4>2. CASE h # newFp
        BY <4>2, <2>1, <3>2
      <4> QED BY <4>1, <4>2
    <3>4. fp # 0 => closes'[fp] = 0
      <4> SUFFICES ASSUME fp # 0 PROVE closes'[fp] = 0
        OBVIOUS
      <4>1. fp \in Handles /\ fp # newFp /\ closes[fp] = 0
        BY DEF OpenInv, HandlesInv
      <4>2. closes'[fp] = closes[fp] + 0
        BY <4>1, <2>1
      <4> QED BY <4>1, <4>2
    <3> QED BY <3>1, <3>3, <3>4 DEF OpenInv
  <2>6. ChoiceInv'
    BY <1>5 DEF Close, Return, Choose, ChoiceInv, ValuesInv
  <2> QED BY <2>2, <2>3, <2>4, <2>5, <2>6
<1> QED BY <1>1, <1>2, <1>3, <1>4, <1>5

\* do_update(): the file in use is closed, and the one that waits takes its place. That
\* d_updated was tested before the mutex was taken is harmless, for only this step clears it.
LEMMA InstallStep ==
  ASSUME FilesInv, Install
  PROVE  FilesInv'
<1> USE DEF FilesInv, InOpen
<1>1. /\ closes' \in Seq(Nat) /\ Len(closes') = Len(closes)
      /\ \A h \in Handles : closes'[h] = closes[h] + (IF h = fp THEN 1 ELSE 0)
  <2>1. CASE fp # 0
    <3>1. fp \in Handles /\ closes' = Closed(fp)
      BY <2>1 DEF Install, HandlesInv
    <3> QED BY <3>1, ClosedHandle DEF HandlesInv
  <2>2. CASE fp = 0
    BY <2>2 DEF Install, HandlesInv, Handles
  <2> QED BY <2>1, <2>2
<1>2. newFp # 0 => size[newFp] \in Nat
  BY DEF HandlesInv, Handles
<1>3. ValuesInv'
  BY <1>2 DEF Install, ValuesInv
<1>4. HandlesInv'
  BY <1>1 DEF Install, HandlesInv, Handles
<1>5. LockInv'
  BY <1>1 DEF Install, LockInv, ValuesInv
<1>6. PositionInv' /\ AimInv'
  <2>1. PositionInv'
    BY <1>2 DEF Install, PositionInv
  <2>2. ASSUME control = "seek", aim # 0
        PROVE  closes'[aim] # 0
    <3>1. aim \in Handles /\ closes[aim] \in Nat
      BY <2>2, Counts DEF HandlesInv
    <3>2. CASE aim = fp
      BY <3>1, <3>2, <1>1
    <3>3. CASE aim # fp
      BY <2>2, <3>1, <3>3, <1>1 DEF AimInv
    <3> QED BY <3>2, <3>3
  <2> QED BY <2>1, <2>2 DEF Install, AimInv
<1>7. OpenInv'
  <2>1. Handles' = Handles /\ fp' = newFp /\ newFp' = 0
    BY <1>1 DEF Install, Handles
  <2>2. \A h \in Handles : closes[h] \in Nat /\ closes[h] <= 1 /\ h # 0
    BY Counts DEF OpenInv, Handles
  <2>3. \A h \in Handles : closes'[h] <= 1
    <3> TAKE h \in Handles
    <3>1. CASE h = fp
      BY <3>1, <1>1, <2>2 DEF OpenInv
    <3>2. CASE h # fp
      BY <3>2, <1>1, <2>2
    <3> QED BY <3>1, <3>2
  <2>4. newFp # 0 => closes'[newFp] = 0
    <3> SUFFICES ASSUME newFp # 0 PROVE closes'[newFp] = 0
      OBVIOUS
    <3>1. newFp \in Handles /\ newFp # fp /\ closes[newFp] = 0
      BY DEF OpenInv, HandlesInv
    <3>2. closes'[newFp] = closes[newFp] + 0
      BY <3>1, <1>1
    <3> QED BY <3>1, <3>2
  <2> QED BY <2>1, <2>3, <2>4 DEF OpenInv
<1>8. ChoiceInv'
  BY DEF Install, ChoiceInv, LockInv, HandlesInv, ValuesInv
<1> QED BY <1>3, <1>4, <1>5, <1>6, <1>7, <1>8

\* The destructors close what is left.
LEMMA DestroyStep ==
  ASSUME FilesInv, Destroy
  PROVE  FilesInv'
<1> USE DEF FilesInv, InOpen
<1>1. /\ closes' \in Seq(Nat) /\ Len(closes') = Len(closes)
      /\ \A h \in Handles : closes'[h] = closes[h] + (IF h \in {fp, newFp} THEN 1 ELSE 0)
  <2>1. closes' = [h \in Handles |-> closes[h] + (IF h \in {fp, newFp} THEN 1 ELSE 0)]
    <3>1. \A h \in Handles : Cardinality({x \in {fp, newFp} : x = h})
                                = (IF h \in {fp, newFp} THEN 1 ELSE 0)
      BY DestroyedHandles DEF HandlesInv, Handles
    <3> QED BY <3>1 DEF Destroy
  <2>2. \A h \in Handles : closes[h] + (IF h \in {fp, newFp} THEN 1 ELSE 0) \in Nat
    BY Counts
  <2> QED BY <2>1, <2>2 DEF HandlesInv, Handles
<1>2. ValuesInv'
  BY DEF Destroy, ValuesInv
<1>3. HandlesInv'
  BY <1>1 DEF Destroy, HandlesInv, Handles
<1>4. LockInv' /\ PositionInv' /\ AimInv'
  BY DEF Destroy, LockInv, PositionInv, AimInv, ValuesInv
<1>5. OpenInv'
  <2>1. Handles' = Handles /\ fp' = 0 /\ newFp' = 0
    BY <1>1 DEF Destroy, Handles
  <2>2. \A h \in Handles : closes[h] \in Nat /\ closes[h] <= 1 /\ h # 0
    BY Counts DEF OpenInv, Handles
  <2>3. \A h \in Handles : closes'[h] <= 1
    <3> TAKE h \in Handles
    <3>1. CASE h \in {fp, newFp}
      BY <3>1, <1>1, <2>2 DEF OpenInv
    <3>2. CASE h \notin {fp, newFp}
      BY <3>2, <1>1, <2>2
    <3> QED BY <3>1, <3>2
  <2> QED BY <2>1, <2>3 DEF OpenInv
<1>6. ChoiceInv'
  BY DEF Destroy, ChoiceInv, ValuesInv
<1> QED BY <1>2, <1>3, <1>4, <1>5, <1>6

\* Every step keeps the invariant.
LEMMA NextFilesInv == FilesInv /\ [FilesNext]_fileVars => FilesInv'
<1> SUFFICES ASSUME FilesInv, [FilesNext]_fileVars PROVE FilesInv'
  OBVIOUS
<1>1. CASE UNCHANGED fileVars
  BY <1>1 DEF FilesInv, fileVars, ValuesInv, HandlesInv, LockInv, PositionInv, AimInv, OpenInv,
              ChoiceInv, Handles
<1>2. CASE Control
  <2>1. CASE Begin("open") \/ Begin("close") \/ NoSuchFile \/ SeekBegins \/ SeekSteps
    BY <2>1, QuietSteps DEF QuietStep
  <2>2. CASE CloseOfNull \/ Fdopen \/ FdopenFails \/ Opened \/ Close
    BY <2>2, ControlSteps
  <2>3. CASE Destroy
    BY <2>3, DestroyStep
  <2> QED BY <1>2, <2>1, <2>2, <2>3 DEF Control, OpenSteps
<1>3. CASE Worker
  <2>1. CASE Call \/ Store \/ BeginRead \/ ReadSteps
    BY <2>1, QuietSteps DEF QuietStep
  <2>2. CASE Install
    BY <2>2, InstallStep
  <2> QED BY <1>3, <2>1, <2>2 DEF Worker
<1> QED BY <1>1, <1>2, <1>3 DEF FilesNext

\* What file_store and file_read keep of their files, and who holds the mutex.
THEOREM FilesInvariance == FilesSpec => []FilesInv
<1>1. FilesInit => FilesInv
  BY InitFilesInv
<1>2. FilesInv /\ [FilesNext]_fileVars => FilesInv'
  BY NextFilesInv
<1> QED BY <1>1, <1>2, PTL DEF FilesSpec

\* The members keep their types, and the mutex is held by the thread in its critical
\* section, in both classes.
THEOREM FilesTyped == FilesSpec => []FilesTypeOK
<1>1. FilesInv => FilesTypeOK
  BY DEF FilesInv, ValuesInv, HandlesInv, LockInv, PositionInv, FilesTypeOK, InOpen, Null
<1> QED BY <1>1, FilesInvariance, PTL

\* open(), close(), do_update() and the destructors never close a file twice, and never
\* leave a closed one in d_fp or d_new_fp, to be used by the worker or installed. (seek()
\* keeps the d_fp it has loaded: SeekStale.)
THEOREM HandlesStayFresh == FilesSpec => []NoStaleHandle
<1>1. FilesInv => NoStaleHandle
  BY DEF FilesInv, OpenInv, NoStaleHandle, Null
<1> QED BY <1>1, FilesInvariance, PTL

\* A call of store_data() or read_data() uses the file that was chosen last before it
\* began, or one chosen while it ran, although do_update() tests d_updated outside the
\* mutex.
THEOREM LatestIsUsed == FilesSpec => []UsesLatest
<1>1. FilesInv => UsesLatest
  BY DEF FilesInv, ChoiceInv, UsesLatest
<1> QED BY <1>1, FilesInvariance, PTL

-----------------------------------------------------------------------------
(***************************************************************************)
(* Files that are neither in use, nor waiting, nor closed.                 *)
(***************************************************************************)
LeakInv == replaced \in Nat /\ LossesCounted

\* There are finitely many of them.
LEMMA LostFinite ==
  ASSUME HandlesInv
  PROVE  IsFiniteSet(Lost) /\ Lost \subseteq Handles
<1>1. IsFiniteSet(Handles)
  BY FS_Interval DEF HandlesInv, Handles
<1>2. Lost \subseteq Handles
  BY DEF Lost
<1> QED BY <1>1, <1>2, FS_Subset

\* A file_store that is given a second file before it used the first loses the first, and
\* no other step loses one.
LEMMA LostSteps ==
  ASSUME FilesInv, [FilesNext]_fileVars
  PROVE  \/ Lost' = Lost /\ (kind = "store" => replaced' = replaced)
         \/ kind = "store" /\ newFp # 0 /\ Lost' = Lost \cup {newFp} /\ replaced' = replaced + 1
<1> USE DEF FilesInv
<1>0. /\ HandlesInv /\ kind \in {"store", "read"}
      /\ \A h \in Handles : closes[h] \in Nat /\ h # 0
  BY Counts DEF ValuesInv, Handles
<1>1. CASE UNCHANGED <<fp, newFp, closes, replaced>>
  BY <1>1 DEF Lost, Handles
<1>2. CASE CloseOfNull
  <2>1. Lost' = Lost \cup {newFp}
    BY <1>2, <1>0 DEF CloseOfNull, ProcessEnds, Lost, Handles, HandlesInv, OpenInv
  <2> QED BY <1>2, <2>1 DEF CloseOfNull
<1>3. CASE Fdopen
  <2>1. /\ Len(closes') = Len(closes) + 1
        /\ closes'[Len(closes) + 1] = 0
        /\ \A h \in Handles :
             closes'[h] = closes[h] + (IF kind = "read" /\ h = newFp THEN 1 ELSE 0)
    <3>1. closes' = Append(DropPending, 0)
      BY <1>3 DEF Fdopen
    <3> QED BY <3>1, <1>0, PendingDropped, AppendHandle DEF Handles
  <2>2. newFp' = Len(closes) + 1 /\ fp' = fp /\ Handles' = Handles \cup {newFp'}
    BY <1>3, <2>1, <1>0, Counts DEF Fdopen, Handles
  <2>3. newFp' \notin Handles
    BY <2>2, <1>0, Counts DEF Handles
  <2>4. CASE kind = "store" /\ newFp # 0
    <3>1. \A h \in Handles : closes'[h] = closes[h]
      BY <2>4, <2>1, <1>0
    <3>2. Lost' = Lost \cup {newFp}
      BY <3>1, <2>2, <2>3, <2>4, <1>0 DEF Lost, HandlesInv, OpenInv
    <3> QED BY <3>2, <2>4, <1>3 DEF Fdopen
  <2>5. CASE ~(kind = "store" /\ newFp # 0)
    <3>1. \A h \in Handles \ {newFp} : closes'[h] = closes[h]
      BY <2>1, <1>0
    <3>2. newFp # 0 => closes'[newFp] # 0
      <4> SUFFICES ASSUME newFp # 0 PROVE closes'[newFp] # 0
        OBVIOUS
      <4>1. newFp \in Handles /\ kind = "read"
        BY <2>5, <1>0 DEF HandlesInv
      <4>2. closes'[newFp] = closes[newFp] + 1
        BY <4>1, <2>1
      <4> QED BY <4>1, <4>2, <1>0
    <3>3. Lost' = Lost
      BY <3>1, <3>2, <2>2, <2>3, <1>0 DEF Lost, HandlesInv
    <3>4. kind = "store" => replaced' = replaced
      BY <1>3, <2>5 DEF Fdopen, ValuesInv
    <3> QED BY <3>3, <3>4
  <2> QED BY <2>4, <2>5
<1>4. CASE FdopenFails
  <2>1. /\ Len(closes') = Len(closes)
        /\ \A h \in Handles :
             closes'[h] = closes[h] + (IF kind = "read" /\ h = newFp THEN 1 ELSE 0)
    BY <1>4, <1>0, PendingDropped DEF FdopenFails
  <2>2. newFp' = 0 /\ fp' = fp /\ Handles' = Handles
    BY <1>4, <2>1 DEF FdopenFails, Handles
  <2>4. CASE kind = "store" /\ newFp # 0
    <3>1. \A h \in Handles : closes'[h] = closes[h]
      BY <2>4, <2>1, <1>0
    <3>2. Lost' = Lost \cup {newFp}
      BY <3>1, <2>2, <2>4, <1>0 DEF Lost, HandlesInv, OpenInv
    <3> QED BY <3>2, <2>4, <1>4 DEF FdopenFails
  <2>5. CASE ~(kind = "store" /\ newFp # 0)
    <3>1. \A h \in Handles \ {newFp} : closes'[h] = closes[h]
      BY <2>1, <1>0
    <3>2. newFp # 0 => closes'[newFp] # 0
      <4> SUFFICES ASSUME newFp # 0 PROVE closes'[newFp] # 0
        OBVIOUS
      <4>1. newFp \in Handles /\ kind = "read"
        BY <2>5, <1>0 DEF HandlesInv
      <4>2. closes'[newFp] = closes[newFp] + 1
        BY <4>1, <2>1
      <4> QED BY <4>1, <4>2, <1>0
    <3>3. Lost' = Lost
      BY <3>1, <3>2, <2>2, <1>0 DEF Lost, HandlesInv
    <3>4. kind = "store" => replaced' = replaced
      BY <1>4, <2>5 DEF FdopenFails, ValuesInv
    <3> QED BY <3>3, <3>4
  <2> QED BY <2>4, <2>5
<1>5. CASE Close
  <2>1. newFp # 0 => newFp \in Handles /\ closes' = Closed(newFp)
    BY <1>5 DEF Close, HandlesInv
  <2>2. /\ Len(closes') = Len(closes)
        /\ \A h \in Handles \ {newFp} : closes'[h] = closes[h]
        /\ newFp # 0 => closes'[newFp] # 0
    <3>1. closes \in Seq(Nat)
      BY <1>0 DEF HandlesInv
    <3>2. CASE newFp = 0
      <4>1. closes' = closes
        BY <1>5, <3>2 DEF Close
      <4> QED BY <4>1, <3>2
    <3>3. CASE newFp # 0
      <4>1. /\ Len(Closed(newFp)) = Len(closes)
            /\ \A h \in Handles : Closed(newFp)[h] = closes[h] + (IF h = newFp THEN 1 ELSE 0)
        BY <2>1, <3>1, <3>3, ClosedHandle
      <4> QED BY <4>1, <2>1, <3>3, <1>0
    <3> QED BY <3>2, <3>3
  <2>3. Lost' = Lost
    BY <1>5, <2>2, <1>0 DEF Close, Lost, HandlesInv, Handles
  <2> QED BY <1>5, <2>3 DEF Close
<1>6. CASE Install
  <2>1. fp # 0 => fp \in Handles /\ closes' = Closed(fp)
    BY <1>6 DEF Install, HandlesInv
  <2>2. /\ Len(closes') = Len(closes)
        /\ \A h \in Handles \ {fp} : closes'[h] = closes[h]
        /\ fp # 0 => closes'[fp] # 0
    <3>1. closes \in Seq(Nat)
      BY <1>0 DEF HandlesInv
    <3>2. CASE fp = 0
      <4>1. closes' = closes
        BY <1>6, <3>2 DEF Install
      <4> QED BY <4>1, <3>2
    <3>3. CASE fp # 0
      <4>1. /\ Len(Closed(fp)) = Len(closes)
            /\ \A h \in Handles : Closed(fp)[h] = closes[h] + (IF h = fp THEN 1 ELSE 0)
        BY <2>1, <3>1, <3>3, ClosedHandle
      <4> QED BY <4>1, <2>1, <3>3, <1>0
    <3> QED BY <3>2, <3>3
  <2>3. Lost' = Lost
    BY <1>6, <2>2, <1>0 DEF Install, Lost, HandlesInv, Handles
  <2> QED BY <1>6, <2>3 DEF Install
<1>7. CASE Destroy
  <2>1. \A h \in Handles : Cardinality({x \in {fp, newFp} : x = h})
                              = (IF h \in {fp, newFp} THEN 1 ELSE 0)
    BY DestroyedHandles DEF HandlesInv, Handles
  <2>2. closes' = [h \in Handles |-> closes[h] + (IF h \in {fp, newFp} THEN 1 ELSE 0)]
    BY <1>7, <2>1 DEF Destroy
  <2>3. Handles' = Handles
    BY <2>2, Counts DEF Handles, HandlesInv
  <2>4. \A h \in Handles : closes'[h] = 0 <=> closes[h] = 0 /\ h \notin {fp, newFp}
    BY <2>2, <1>0
  <2>5. Lost' = Lost
    BY <1>7, <2>3, <2>4, <1>0 DEF Destroy, Lost
  <2> QED BY <1>7, <2>5 DEF Destroy
<1> QED BY <1>1, <1>2, <1>3, <1>4, <1>5, <1>6, <1>7
        DEF FilesNext, Control, OpenSteps, SeekSteps, Worker, ReadSteps, fileVars, files, Begin,
            NoSuchFile, Opened, SeekBegins, SeekMoves, SeekStale, Call, Store, BeginRead, ReadSome,
            Rewind, RewindFails, EndRead

\* Only a file_store that is opened again before its worker has seen the file loses one,
\* and each time exactly one; a file_read never does (open() of both classes).
THEOREM LeaksCounted == FilesSpec => []LossesCounted
<1>1. FilesInit => LeakInv
  <2> SUFFICES ASSUME FilesInit PROVE LeakInv
    OBVIOUS
  <2>1. Lost = {}
    BY DEF FilesInit, Lost, Handles
  <2> QED BY <2>1, FS_EmptySet DEF FilesInit, LeakInv, LossesCounted
<1>2. FilesInv /\ LeakInv /\ [FilesNext]_fileVars => LeakInv'
  <2> SUFFICES ASSUME FilesInv, LeakInv, [FilesNext]_fileVars PROVE LeakInv'
    OBVIOUS
  <2>1. kind' = kind /\ kind \in {"store", "read"} /\ replaced' \in Nat
    BY NextFilesInv DEF FilesInv, ValuesInv, FilesNext, fileVars, Control, Worker, OpenSteps,
       SeekSteps, ReadSteps, Begin, NoSuchFile, CloseOfNull, Fdopen, FdopenFails, Opened, Close,
       Destroy, SeekBegins, SeekMoves, SeekStale, Call, Install, Store, BeginRead, ReadSome, Rewind,
       RewindFails, EndRead, files
  <2>2. CASE Lost' = Lost /\ (kind = "store" => replaced' = replaced)
    BY <2>1, <2>2 DEF LeakInv, LossesCounted
  <2>3. CASE kind = "store" /\ newFp # 0 /\ Lost' = Lost \cup {newFp}
             /\ replaced' = replaced + 1
    <3>1. newFp \notin Lost
      BY DEF Lost
    <3>2. Cardinality(Lost \cup {newFp}) = Cardinality(Lost) + 1
      BY <3>1, LostFinite, FS_AddElement DEF FilesInv
    <3> QED BY <2>1, <2>3, <3>2 DEF LeakInv, LossesCounted
  <2> QED BY <2>2, <2>3, LostSteps
<1>3. LeakInv => LossesCounted
  BY DEF LeakInv
<1> QED BY <1>1, <1>2, <1>3, FilesInvariance, PTL DEF FilesSpec

\* Hence a file_read closes every file that it does not keep, in any order of opens,
\* closes and installs (file_read_impl::open, close, do_update).
THEOREM ReadKeepsAll == FilesSpec => []ReadLosesNothing
<1>1. FilesInv /\ LossesCounted => ReadLosesNothing
  <2> SUFFICES ASSUME FilesInv, LossesCounted, kind = "read" PROVE Lost = {}
    BY DEF ReadLosesNothing
  <2>1. IsFiniteSet(Lost) /\ Cardinality(Lost) = 0
    BY LostFinite DEF FilesInv, LossesCounted
  <2> QED BY <2>1, FS_EmptySet
<1> QED BY <1>1, FilesInvariance, LeaksCounted, PTL
=============================================================================
