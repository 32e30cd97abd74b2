--------------------------- MODULE BurstCollector ---------------------------
(***************************************************************************)
(* preamble_sink and dna_buffer: a receiver like packet_sink that also     *)
(* keeps the raw samples of past calls of general_work(), and puts out,    *)
(* for a packet it has received, the samples of its preamble.              *)
(*                                                                         *)
(* A step is the beginning or the end of a call, or a chip sequence        *)
(* compared within it. What a sample is does not matter, only where in the *)
(* buffer it is and that the trigger is the first strong one: the sample   *)
(* <<k, i>> is the one i places behind the trigger of the k-th packet. The *)
(* samples of a buffer are consecutive, so its length tells them all.      *)
(* The chip sequences are those of PacketSink, told apart no further than  *)
(* the states need.                                                        *)
(***************************************************************************)
EXTENDS Integers, Sequences, PacketSizes

CONSTANTS
  RxSizes,      \* ninput_rx: the samples a call may bring (2044 or more; the buffers of
                \* the flow graph bound them)
  BufferSize, SampRate,    \* what the constructor gets
  BufferSizes, SampRates,  \* what the setters may be called with
  CrcSet,       \* d_crc_set
  Lengths,      \* the frame lengths that appear; one more than MaxPktLen is refused
  MaxPktLen,    \* MAX_PKT_LEN (127)
  ShortLen,     \* a packet with fewer bytes counts as short (9)
  MaxPackets    \* bound: packets received

ASSUME CollectorAssumption ==
  /\ RxSizes \subseteq Nat \ {0} /\ \E m \in RxSizes : \A n \in RxSizes : n <= m
  /\ BufferSizes \cup {BufferSize} \subseteq Nat
  /\ SampRates \cup {SampRate} \subseteq Nat \ {0} /\ Lengths \subseteq Nat
  /\ CrcSet \in BOOLEAN /\ MaxPktLen \in Nat /\ ShortLen \in Nat /\ MaxPackets \in Nat

VARIABLES
  phy,         \* d_phy_802_15_4
  bufferSize,  \* d_buffer_size
  rx,          \* ninput_rx of the call that runs, 0 between calls
  dstate,      \* d_state: "search", "sync" or "header"
  found,       \* in search: "nothing", "zero" (d_preamble_cnt > 0), "seven" (d_packet_byte)
  frame,       \* in header: [len, cnt], d_packetlen and d_payload_cnt (= d_packetlen_cnt)
  prev,        \* d_prev_usrp_collect_buffer: [on, sizes, samples]
  current,     \* [samples, prevUsed]: how many d_current_preamble_buffer holds, and
               \* d_prev_buffer_activated, which is set anew before it is read
  crcBuffer,   \* d_crc_preamble_buffer: [on, samples]
  counts,      \* d_short_payload, d_crc_bad_payload, ..., d_sent_preambles
  out,         \* what the last call wrote to out_rx
  \* history
  packets,     \* what became of every packet received
  largest      \* the largest d_buffer_size so far

receiver == <<dstate, found, frame>>
settings == <<phy, bufferSize, largest>>
buffers  == <<prev, current, crcBuffer>>
NoFrame  == [len |-> 0, cnt |-> 0]
NothingSet == [samples |-> 0, prevUsed |-> FALSE]
collectorVars == <<settings, rx, receiver, buffers, counts, out, packets>>

PreambleLen == PreambleLenSamples(phy)

-----------------------------------------------------------------------------
(***************************************************************************)
(* Samples and dna_buffer.                                                 *)
(***************************************************************************)
Zero == <<0, 0>>

\* A sample that is read outside a buffer, while the k-th packet is put out.
Stray(k) == <<-k, 0>>

Zeros(n) == [i \in 1 .. n |-> Zero]

\* The place of a sample i behind the trigger; those more than one before it, and those
\* behind the preamble, are not told apart.
Place(i) == IF i < -2 THEN -2 ELSE IF i > PreambleLen THEN PreambleLen ELSE i

\* The buffer of a packet whose trigger is the sample t, counted from 0.
Samples(k, n, t) == [i \in 1 .. n |-> <<k, Place(i - 1 - t)>>]

\* Mutant: the sample the range ends with goes too.
EraseWithLast(b, front, back) == SubSeq(b, 1, front) \o SubSeq(b, back + 2, Len(b))

\* erase_buffer_range(): front stays if it equals back, back is not erased.
EraseBufferRange(b, front, back) == SubSeq(b, 1, front) \o SubSeq(b, back + 1, Len(b))

\* The same with back one before front, which is undefined: as the vector is
\* implemented, everything moves up by one place, element by element or at once.
EraseBackwards(b, k) == {<<Stray(k)>> \o b, [i \in 1 .. Len(b) + 1 |-> Stray(k)]}

\* Mutant: only an empty buffer is filled up.
SpacingIfEmpty(b, space) == IF b = << >> THEN Zeros(space) ELSE b

InsertRearSpacing(b, space) == b \o Zeros(space)

AppendBurst(b, n) == [on |-> TRUE, sizes |-> Append(b.sizes, n), samples |-> b.samples + n]

\* Mutant: the newest size goes with the oldest samples.
PopNewestSize(b) ==
  [b EXCEPT !.sizes = SubSeq(@, 1, Len(@) - 1), !.samples = @ - b.sizes[1]]

PopFrontBurst(b) ==
  [b EXCEPT !.sizes = Tail(@), !.samples = @ - b.sizes[1]]

UnsetBuffer == [on |-> FALSE, samples |-> << >>]

-----------------------------------------------------------------------------
(***************************************************************************)
(* normalize_preamble(): the outcomes for a buffer of n samples that       *)
(* reaches the trigger first at sample t, and where that is the very       *)
(* first, an undefined one.                                                *)
(***************************************************************************)

\* The preamble, and the sample behind it, must be in the buffer.
Available(n, t) == PreambleLen + t + 1 <= n

Preambles(k, n, t) ==
  LET stop   == PreambleLen + t
      before == EraseBufferRange(Samples(k, n, t), stop, n - 1)
  IN  IF t = 0 THEN EraseBackwards(before, k) ELSE {EraseBufferRange(before, 0, t - 1)}

Normalized(k, n, t) ==
  IF Available(n, t)
  THEN {[on |-> TRUE, samples |-> InsertRearSpacing(p, rx - Len(p))] : p \in Preambles(k, n, t)}
  ELSE {[on |-> FALSE, samples |-> InsertRearSpacing(<< >>, rx)]}

-----------------------------------------------------------------------------
(***************************************************************************)
(* The constructor and the setters.                                        *)
(***************************************************************************)
AtLeastOne(n) == IF n = 0 THEN 1 ELSE n

CollectorInit ==
  /\ phy = StandardPacket(SampRate) /\ bufferSize = AtLeastOne(BufferSize)
  /\ rx = 0 /\ dstate = "search" /\ found = "nothing"
  /\ frame = NoFrame
  /\ prev = [on |-> FALSE, sizes |-> << >>, samples |-> 0]
  /\ current = NothingSet /\ crcBuffer = UnsetBuffer
  /\ counts = [short |-> 0, bad |-> 0, good |-> 0, sent |-> 0, removed |-> 0]
  /\ out = << >> /\ packets = << >> /\ largest = bufferSize

SetBufferSize(n) ==
  /\ bufferSize' = AtLeastOne(n)
  /\ largest' = (IF bufferSize' > largest THEN bufferSize' ELSE largest)
  /\ UNCHANGED <<phy, rx, receiver, buffers, counts, out, packets>>

SetSampRate(r) ==
  /\ phy' = SetSampleRate(phy, r)
  /\ UNCHANGED <<bufferSize, largest, rx, receiver, buffers, counts, out, packets>>

-----------------------------------------------------------------------------
(***************************************************************************)
(* The states of the receiver.                                             *)
(***************************************************************************)

EnterSearch ==
  /\ dstate' = "search" /\ found' = "nothing" /\ frame' = NoFrame
  /\ current' = NothingSet

EnterHaveSync == dstate' = "sync" /\ found' = "nothing"

EnterHaveHeader(len) == dstate' = "header" /\ frame' = [len |-> len, cnt |-> 0]

\* A call begins: if more bursts are kept than set, one is dropped.
BeginCall(n) ==
  /\ rx = 0
  /\ rx' = n
  /\ prev' = (IF Len(prev.sizes) > bufferSize THEN PopFrontBurst(prev) ELSE prev)
  /\ out' = << >>
  /\ UNCHANGED <<settings, receiver, current, crcBuffer, counts, packets>>

\* STATE_SYNC_SEARCH. Further zeros change nothing that is kept here.
InSearch == rx # 0 /\ dstate = "search"

FirstZero ==
  /\ InSearch /\ found = "nothing" /\ Len(packets) < MaxPackets
  /\ found' = "zero"
  /\ UNCHANGED <<dstate, frame, settings, rx, buffers, counts, out, packets>>

FirstSfd ==
  /\ InSearch /\ found = "zero"
  /\ found' = "seven"
  /\ UNCHANGED <<dstate, frame, settings, rx, buffers, counts, out, packets>>

\* The samples of the calls before and of this one are set aside; before the first
\* call has ended, those of this one.
SecondSfd ==
  /\ InSearch /\ found = "seven"
  /\ EnterHaveSync
  /\ current' = [samples  |-> IF prev.on THEN current.samples + prev.samples + rx ELSE rx,
                 prevUsed |-> prev.on]
  /\ UNCHANGED <<frame, settings, rx, prev, crcBuffer, counts, out, packets>>

SyncLost ==
  /\ InSearch /\ found # "nothing"
  /\ EnterSearch
  /\ UNCHANGED <<settings, rx, prev, crcBuffer, counts, out, packets>>

\* STATE_HAVE_SYNC and STATE_HAVE_HEADER: decode_chips() returned 0xFF, for the first
\* or for the second half of a byte.
InvalidSymbol ==
  /\ rx # 0 /\ dstate # "search"
  /\ EnterSearch
  /\ UNCHANGED <<settings, rx, prev, crcBuffer, counts, out, packets>>

LengthByte(len) ==
  /\ rx # 0 /\ dstate = "sync"
  /\ IF len <= MaxPktLen THEN EnterHaveHeader(len) /\ UNCHANGED <<found, current>>
                         ELSE EnterSearch
  /\ UNCHANGED <<settings, rx, prev, crcBuffer, counts, out, packets>>

Filled == frame.cnt + 1 >= frame.len

PayloadByte ==
  /\ rx # 0 /\ dstate = "header" /\ ~Filled
  /\ frame' = [frame EXCEPT !.cnt = @ + 1]
  /\ UNCHANGED <<dstate, found, settings, rx, buffers, counts, out, packets>>

-----------------------------------------------------------------------------
(***************************************************************************)
(* The packet is filled.                                                   *)
(***************************************************************************)

\* Mutant: a packet without samples of earlier calls is in neither count.
CountedIfNormalized(tiny, good, processed) ==
  [counts EXCEPT !.short   = @ + (IF tiny THEN 1 ELSE 0),
                 !.good    = @ + (IF ~tiny /\ good THEN 1 ELSE 0),
                 !.bad     = @ + (IF ~tiny /\ ~good THEN 1 ELSE 0),
                 !.sent    = @ + (IF processed THEN 1 ELSE 0),
                 !.removed = @ + (IF current.prevUsed /\ ~processed THEN 1 ELSE 0)]

\* d_sent_preambles and d_removed_preambles; d_short_payload, d_crc_bad_payload,
\* d_crc_good_payload.
Counted(tiny, good, processed) ==
  [counts EXCEPT !.short   = @ + (IF tiny THEN 1 ELSE 0),
                 !.good    = @ + (IF ~tiny /\ good THEN 1 ELSE 0),
                 !.bad     = @ + (IF ~tiny /\ ~good THEN 1 ELSE 0),
                 !.sent    = @ + (IF processed THEN 1 ELSE 0),
                 !.removed = @ + (IF processed THEN 0 ELSE 1)]

\* Under CRC_ONLY a short packet with a good check sequence is held back and any other
\* goes on, one with a bad check sequence, too, although the comment on it is "accept
\* only properly sized crc verified packet outputs". Clearing the buffer of the one held
\* back clears copies of its elements: it keeps what it had.
HeldBack(tiny, good) == CrcSet /\ tiny /\ good

\* History: another packet takes the output from those of this call so far.
Followed(ps) == [k \in DOMAIN ps |-> [ps[k] EXCEPT !.last = @ /\ ps[k].over]]

\* What goes to the output when the call ends, if the trigger is the sample t; without
\* samples of earlier calls no trigger is looked for.
ToEmit(k, t) ==
  IF current.prevUsed
  THEN Normalized(k, current.samples, t)
  ELSE {[on |-> TRUE, samples |-> Samples(k, current.samples, 0)]}

Complete(t, good) ==
  LET k    == Len(packets) + 1
      tiny == frame.cnt + 1 < ShortLen
      cut  == current.prevUsed /\ Available(current.samples, t)
      held == HeldBack(tiny, good)
  IN  /\ rx # 0 /\ dstate = "header" /\ Filled
      /\ counts' = Counted(tiny, good, cut)
      /\ IF held THEN UNCHANGED crcBuffer ELSE crcBuffer' \in ToEmit(k, t)
      /\ packets' = Append(IF held THEN packets ELSE Followed(packets),
           [raw |-> ~current.prevUsed, cut |-> cut, undefined |-> cut /\ t = 0,
            held |-> held, out |-> FALSE, last |-> TRUE, over |-> FALSE])
      /\ EnterSearch
      /\ UNCHANGED <<settings, rx, prev, out>>

-----------------------------------------------------------------------------
(***************************************************************************)
(* The end of the call: as many samples as came in go out, of the preamble *)
(* or zeros, and those that came in are kept.                              *)
(***************************************************************************)

\* The packet whose samples are in a buffer or an output, 0 if none.
Owner(b) == IF b = << >> \/ b[1] = Zero THEN 0 ELSE IF b[1][1] < 0 THEN -b[1][1] ELSE b[1][1]

Written ==
  [c \in 1 .. rx |->
     IF ~crcBuffer.on THEN Zero
     ELSE IF c <= Len(crcBuffer.samples) THEN crcBuffer.samples[c]
     ELSE Stray(Owner(crcBuffer.samples))]

\* Mutant: the buffer is not unset.
EndCallKeeping ==
  /\ rx # 0
  /\ out' = Written
  /\ prev' = AppendBurst(prev, rx)
  /\ packets' = [k \in DOMAIN packets |->
                   [packets[k] EXCEPT !.over = TRUE, !.out = @ \/ k = Owner(out')]]
  /\ rx' = 0
  /\ UNCHANGED <<settings, receiver, current, crcBuffer, counts>>

EndCall ==
  /\ rx # 0
  /\ out' = Written
  /\ prev' = AppendBurst(prev, rx)
  /\ crcBuffer' = UnsetBuffer
  /\ packets' = [k \in DOMAIN packets |->
                   [packets[k] EXCEPT !.over = TRUE, !.out = @ \/ k = Owner(out')]]
  /\ rx' = 0
  /\ UNCHANGED <<settings, receiver, current, counts>>

CollectorNext ==
  \/ \E n \in RxSizes : BeginCall(n)
  \/ FirstZero \/ FirstSfd \/ SecondSfd \/ SyncLost \/ InvalidSymbol
  \/ \E len \in Lengths : LengthByte(len)
  \/ PayloadByte
  \/ \E t \in 0 .. (current.samples - 1), good \in BOOLEAN : Complete(t, good)
  \/ EndCall
  \/ \E n \in BufferSizes : SetBufferSize(n)
  \/ \E r \in SampRates : SetSampRate(r)
=============================================================================
