------------------------------- MODULE RfDna -------------------------------
(***************************************************************************)
(* The burst collector and the RF-DNA detector, joined by a stream of      *)
(* samples. Nothing else is shared, so the detector takes its steps while  *)
(* the collector is between calls.                                         *)
(***************************************************************************)
EXTENDS BurstCollector, DnaDetector, Sums, FiniteSets

VARIABLES
  line,     \* samples the detector has not taken
  \* history
  taken,    \* the bursts fingerprinted so far, while the line was regular
  regular   \* nothing irregular has come down the line: see Irregular

vars == <<collectorVars, detectorVars, line, taken, regular>>

\* Both blocks are constructed with the sample rate of the flow graph.
Init ==
  /\ CollectorInit
  /\ DetectorInit(PreambleLen)
  /\ line = << >>
  /\ taken = << >> /\ regular = TRUE

(***************************************************************************)
(* What makes a burst differ from one preamble: the samples of a first     *)
(* call, which are not cut; a trigger at the front of the buffer; a call   *)
(* too short for the samples that the detector collects; a sample rate     *)
(* that only the collector's packet sizes follow.                          *)
(***************************************************************************)
Irregular(o, k) ==
  k # 0 /\ (\/ packets'[k].raw
            \/ packets'[k].undefined
            \/ Len(o) < limit + Spare)

CallEnds == rx # 0 /\ rx' = 0

Collector ==
  /\ line = << >>
  /\ CollectorNext
  /\ line' = (IF CallEnds THEN out' ELSE << >>)
  /\ regular' = (regular /\ PreambleLenSamples(phy') = limit
                         /\ (CallEnds => ~Irregular(out', Owner(out'))))
  /\ taken' = (IF regular' THEN taken ELSE << >>)
  /\ UNCHANGED detectorVars

\* A sample that was read outside its buffer may be anything, a zero too.
SeemsZero(s) == s = Zero \/ s[1] < 0
NonZero(s) == s # Zero

Take == line' = Tail(line)
Leave == UNCHANGED line

\* Zeros are passed over in one step, for nothing but the line changes.
TakeZeros ==
  line' = SubSeq(line, 1 + CHOOSE n \in 1 .. Len(line) :
                             /\ \A i \in 2 .. n : line[i] = Zero
                             /\ n < Len(line) => line[n + 1] # Zero, Len(line))

Detector ==
  /\ line # << >>
  /\ \/ PassOver /\ SeemsZero(Head(line)) /\ TakeZeros /\ UNCHANGED taken
     \/ Detect /\ NonZero(Head(line)) /\ Leave /\ UNCHANGED taken
     \/ Collect(Head(line)) /\ Take /\ UNCHANGED taken
     \/ FillBurst /\ Leave /\ UNCHANGED taken
     \/ \E nan \in NanFound, results \in Results :
          Fingerprint(nan, results) /\ Leave
                             /\ taken' = (IF regular THEN Append(taken, burst) ELSE << >>)
  /\ UNCHANGED <<collectorVars, regular>>

\* Neither block waits for the other, and what is undefined (moving the sample before a
\* buffer, reading one behind it, counting in front of the first emitter) may also end the
\* process: every behaviour may stop anywhere, for no fairness is assumed.
Next == Collector \/ Detector

Spec == Init /\ [][Next]_vars

-----------------------------------------------------------------------------
(***************************************************************************)
(* Properties.                                                             *)
(***************************************************************************)
Sample == {Zero} \cup (-MaxPackets .. MaxPackets) \X Int

\* The members of preamble_sink_impl and dna_detector_ccf_impl keep their types.
TypeOK ==
  /\ bufferSize \in Nat \ {0} /\ rx \in RxSizes \cup {0}
  /\ dstate \in {"search", "sync", "header"} /\ found \in {"nothing", "zero", "seven"}
  /\ found # "nothing" => dstate = "search"
  /\ frame.len \in 0 .. MaxPktLen /\ frame.cnt \in 0 .. MaxPktLen
  /\ DOMAIN prev = {"on", "sizes", "samples"} /\ prev.on = (prev.sizes # << >>)
  /\ current.samples \in Nat /\ current.prevUsed \in BOOLEAN
  /\ \A i \in DOMAIN crcBuffer.samples : crcBuffer.samples[i] \in Sample
  /\ \A i \in DOMAIN out : out[i] \in Sample
  /\ burstState \in {"SEARCHING", "DETECTED", "FINGERPRINT"}
  /\ Len(burst) <= limit + Spare
  /\ DOMAIN bins = 1 .. Devices

\* dna_buffer keeps the samples of bursts and their sizes apart, and preamble_sink drops
\* one burst a call: the samples kept are always those of the sizes kept, of no more
\* bursts than one above the largest buffer size ever set (a smaller one set later is
\* never reached); and the buffer of a preamble holds one such stretch, or nothing.
WindowKept ==
  /\ prev.samples = Sum(prev.sizes)
  /\ Len(prev.sizes) <= largest + 1
  /\ (current.samples = 0) <=> (dstate = "search")
  /\ current.samples <= (largest + 1) * (CHOOSE m \in RxSizes : \A n \in RxSizes : n <= m)

\* The statistics of preamble_sink agree with each other: every packet published is
\* short, good or bad, and d_sent_preambles counts those whose preamble could be cut,
\* d_removed_preambles the rest. (Its comment is "detected preambles that were sent":
\* being cut does not mean that it goes out, see WhatGoesOut.)
PacketsCounted ==
  /\ counts.short + counts.bad + counts.good = Len(packets)
  /\ counts.sent + counts.removed = Len(packets)
  /\ counts.sent = Cardinality({k \in DOMAIN packets : packets[k].cut})

\* d_crc_preamble_buffer is handed from the end of a packet to the end of the call, and
\* whoever fills it last in a call has the output: what a call puts out is of a packet
\* completed in that very call, never of an earlier one or of one held back, and never
\* the buffer of a packet that could not be cut; so no packet goes out in two calls.
FreshAtEnd ==
  rx # 0 /\ rx' = 0 =>
    LET k == Owner(out')
    IN  k # 0 => /\ k \in DOMAIN packets
                 /\ ~packets[k].over /\ ~packets[k].held
                 /\ packets[k].cut \/ packets[k].raw
FreshOutput == [][FreshAtEnd]_vars

\* Which packet's samples go out, exactly: of the packets that one call completes, those
\* of the last that was not held back, if they were cut, or if it was completed before
\* the first call ended, uncut and counted as removed. The comments promise something
\* else: d_sent_preambles counts "preambles that were sent for RFDNA processing", and of
\* those the earlier ones of a call and the ones held back never go out; and under
\* CRC_ONLY "only properly sized crc verified packet outputs" are accepted, while
\* HeldBack() holds none with a bad check sequence.
WhatGoesOut ==
  \A k \in DOMAIN packets :
    packets[k].over =>
      (packets[k].out <=> (packets[k].cut \/ packets[k].raw) /\ packets[k].last
                                                           /\ ~packets[k].held)

\* general_work() writes as many samples as came in, from a buffer that was made for it
\* if it was cut: only for the samples of the first call, put out in another call, does it
\* read behind the end, and only with a trigger in front is there a sample from nowhere.
NoStraySamples ==
  \A i \in DOMAIN out :
    out[i][1] < 0 => packets[-out[i][1]].raw \/ packets[-out[i][1]].undefined

\* Every burst is counted as a fingerprint or as a NaN and put into one bin, and those
\* with a NaN all count in front of the first bin.
BurstsCounted ==
  /\ burstCount = fingerprints + nans
  /\ burstCount = stray + Sum([d \in 1 .. Devices |-> bins[d]])
  /\ stray >= nans

\* Unless one of the things above makes the line irregular, the detector fingerprints for
\* every preamble put out exactly one burst, in order: as many samples as a preamble has,
\* consecutive as they were received, from the one before the trigger on.
OneBurstPerPreamble ==
  regular =>
    LET sent == {k \in DOMAIN packets : packets[k].out}
    IN  /\ \A i \in DOMAIN taken :
             \E k \in sent :
               /\ taken[i] = [j \in 1 .. limit |-> <<k, j - 2>>]
               /\ Cardinality({h \in sent : h < k}) = i - 1
        /\ line = << >> => Len(taken) + (IF burst = << >> THEN 0 ELSE 1) = Cardinality(sent)
=============================================================================
