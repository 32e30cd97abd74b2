------------------------------ MODULE CssBlocks ------------------------------
(***************************************************************************)
(* What the signal processing blocks of the CSS physical layer compute. A  *)
(* block without memory is a function on sequences. A block with memory is *)
(* a step: its state and an item of input give its next state and the      *)
(* items it puts out; Run() is its work() on a sequence of items.          *)
(*                                                                         *)
(* Phases are numbers of quarter turns, and the phase pi/4 that all of     *)
(* them start from is 0. Values are free of noise: what noise can do is    *)
(* left to the modules that use these.                                     *)
(***************************************************************************)
EXTENDS CssPhy, Sums

Run(Step(_, _), state, in) ==
  LET after[i \in 0 .. Len(in)] ==
        IF i = 0 THEN [out |-> << >>, state |-> state]
        ELSE LET before == after[i - 1]
                 next == Step(before.state, in[i])
             IN [out |-> before.out \o next.out, state |-> next.state]
  IN after[Len(in)]

Turn(phase) == phase % 4

\* The items of s at some places, in their order.
Picked(s, places) ==
  LET upTo[i \in 0 .. Len(s)] == IF i = 0 THEN << >>
                                 ELSE upTo[i - 1] \o (IF i \in places THEN <<s[i]>> ELSE << >>)
  IN  upTo[Len(s)]

-----------------------------------------------------------------------------
(***************************************************************************)
(* Bits and bytes.                                                         *)
(***************************************************************************)

\* phr_prefixer::unpack(), highest bit first, and phr_removal::pack().
Unpack(bytes) ==
  [i \in 1 .. 8 * Len(bytes) |-> (bytes[(i - 1) \div 8 + 1] \div 2^(7 - ((i - 1) % 8))) % 2]
Pack(bits) ==
  [i \in 1 .. Len(bits) \div 8 |->
     LET b == [k \in 0 .. 7 |-> bits[8 * i - k] * 2^k]
     IN  b[0] + b[1] + b[2] + b[3] + b[4] + b[5] + b[6] + b[7]]

PrefixPhr(phr, bytes) == phr \o Unpack(bytes)
RemovePhr(bits) == Pack(SubSeq(bits, PhrLen + 1, Len(bits)))

\* deinterleave and interleave of GNU Radio, with blocks of one item.
Deinterleave(s, port) == [i \in 1 .. (Len(s) + 1 - port) \div 2 |-> s[2 * i - 1 + port]]
Interleave(s, t) == [i \in 1 .. 2 * Len(s) |-> IF i % 2 = 1 THEN s[(i + 1) \div 2] ELSE t[i \div 2]]

-----------------------------------------------------------------------------
(***************************************************************************)
(* Codewords. Blocks take whole groups of their input and leave the rest.  *)
(***************************************************************************)
Groups(s, n) == Len(s) \div n
Group(s, n, i) == SubSeq(s, (i - 1) * n + 1, i * n)
Whole(s, n) == SubSeq(s, 1, Groups(s, n) * n)
Rest(s, n) == SubSeq(s, Groups(s, n) * n + 1, Len(s))

\* The groups of n of s, each replaced by f of it, which has m items.
MapGroups(f(_), s, n, m) ==
  LET mapped == [k \in 1 .. Groups(s, n) |-> f(Group(s, n, k))]
  IN  [i \in 1 .. m * Groups(s, n) |-> mapped[(i - 1) \div m + 1][((i - 1) % m) + 1]]

\* bin2dec() and dec2bin(), highest bit first.
Bin2Dec(bits) ==
  LET sum[i \in 0 .. Len(bits)] == IF i = 0 THEN 0 ELSE 2 * sum[i - 1] + bits[i] IN sum[Len(bits)]
Dec2Bin(dec, nbit) ==
  LET shifted[i \in 0 .. nbit] == IF i = 0 THEN dec ELSE shifted[i - 1] \div 2
  IN  [i \in 1 .. nbit |-> shifted[nbit - i] % 2]

CodewordMapper(phy, bits) ==
  MapGroups(LAMBDA g : phy.codewords[Bin2Dec(g) + 1],
            bits, phy.bits_per_symbol, Len(phy.codewords[1]))

\* calc_weights() and max_element(), the first of the largest.
DotProduct(s, t) == Sum([i \in DOMAIN s |-> s[i] * t[i]])
SoftIndex(phy, g) ==
  LET w == [n \in DOMAIN phy.codewords |-> DotProduct(g, phy.codewords[n])]
  IN  (CHOOSE n \in DOMAIN w : /\ \A m \in DOMAIN w : w[n] >= w[m]
                               /\ \A m \in 1 .. n - 1 : w[n] > w[m]) - 1

\* calc_distances() and min_element(), the first of the smallest.
Distance(s, t) == Sum([i \in DOMAIN s |-> IF s[i] >= t[i] THEN s[i] - t[i] ELSE t[i] - s[i]])
HardIndex(phy, g) ==
  LET d == [n \in DOMAIN phy.codewords |-> Distance(g, phy.codewords[n])]
  IN  (CHOOSE n \in DOMAIN d : /\ \A m \in DOMAIN d : d[n] <= d[m]
                               /\ \A m \in 1 .. n - 1 : d[n] < d[m]) - 1

SoftDemapper(phy, chips) ==
  MapGroups(LAMBDA g : Dec2Bin(SoftIndex(phy, g), phy.bits_per_symbol),
            chips, Len(phy.codewords[1]), phy.bits_per_symbol)
HardDemapper(phy, chips) ==
  MapGroups(LAMBDA g : Dec2Bin(HardIndex(phy, g), phy.bits_per_symbol),
            chips, Len(phy.codewords[1]), phy.bits_per_symbol)

-----------------------------------------------------------------------------
(***************************************************************************)
(* The interleaver: a permutation of blocks, or nothing at all.            *)
(***************************************************************************)
BlockLen(seq) == IF seq = << >> THEN 1 ELSE Len(seq)

Interleaver(seq, chips) ==
  IF seq = << >> THEN chips
  ELSE MapGroups(LAMBDA g : [i \in DOMAIN seq |-> g[seq[i] + 1]], chips, Len(seq), Len(seq))

\* Item i of a block goes to place seq[i]: the last one, if a place is named twice.
Deinterleaver(seq, chips) ==
  IF seq = << >> THEN chips
  ELSE MapGroups(LAMBDA g : [p \in DOMAIN seq |->
                               g[CHOOSE i \in DOMAIN seq : seq[i] + 1 = p]],
                 chips, Len(seq), Len(seq))

-----------------------------------------------------------------------------
(***************************************************************************)
(* Symbols.                                                                *)
(***************************************************************************)

\* preamble_sfd_prefixer_ii: state is d_sym_ctr. The header goes in front of the first
\* chip of a frame and not before there is one.
PrefixerStep(phy, ctr, chip) ==
  LET n == Len(phy.header) IN
  [state |-> (IF ctr < n THEN n + 1 ELSE ctr + 1) % phy.nsym_frame,
   out |-> SubSeq(phy.header, ctr + 1, n) \o <<chip>>]

\* qpsk_mapper_if, of a pair of chips, and qpsk_demapper_fi.
QpskPhase(i, q) ==
  CASE i = 1 /\ q = 1 -> 0
    [] i = -1 /\ q = 1 -> 1
    [] i = 1 /\ q = -1 -> 3
    [] i = -1 /\ q = -1 -> 2
QpskI(phase) == IF phase \in {0, 3} THEN 1 ELSE -1
QpskQ(phase) == IF phase \in {0, 1} THEN 1 ELSE -1

\* The memory of the differential blocks: four phases, the newest in front.
FreshMemory == [mem |-> <<0, 0, 0, 0>>, ctr |-> 0]
PushFront(mem, x) == <<x>> \o SubSeq(mem, 1, 3)
\* Mutant: the memory is not reset at the end of a frame.
RememberForever(phy, state, x) == [mem |-> PushFront(state.mem, x), ctr |-> state.ctr + 1]
Remember(phy, state, x) ==
  IF state.ctr + 1 = phy.nsym_frame THEN FreshMemory
  ELSE [mem |-> PushFront(state.mem, x), ctr |-> state.ctr + 1]

\* dqpsk_mapper_ff, forward and not.
DqpskStep(phy, forward, state, phase) ==
  LET out == Turn(phase + state.mem[4])
  IN [state |-> Remember(phy, state, IF forward THEN out ELSE Turn(-phase)), out |-> <<out>>]

\* Mutant: the memory holds what was received, and not its conjugate.
SoftDqpskUnconjugated(phy, state, phase) ==
  [state |-> Remember(phy, state, phase), out |-> <<Turn(phase + state.mem[4])>>]
\* dqpsk_soft_demapper_cc: the memory holds conjugates.
SoftDqpskStep(phy, state, phase) ==
  [state |-> Remember(phy, state, Turn(-phase)), out |-> <<Turn(phase + state.mem[4])>>]

-----------------------------------------------------------------------------
(***************************************************************************)
(* Chirps. A stream of samples is given by its subchirps: where one begins,*)
(* which of the four it is, and its phase. Everything between is silence.  *)
(* nth counts the symbols ever sent, so that each can be told apart.       *)
(***************************************************************************)
FirstChirp == [sym |-> 0, sub |-> 0, chirp |-> 0, pos |-> 0, nth |-> 0]

\* dqcsk_mapper_fc: three counters, d_sym_ctr, d_subchirp_ctr and d_chirp_seq_ctr.
DqcskStep(phy, s, phase) ==
  LET ends == s.sub + 1 = 4
      gap == IF ~ends THEN 0 ELSE IF s.chirp = 0 THEN phy.gap1 ELSE phy.gap2
      last == s.sym + 1 = phy.nsym_frame
  IN [state |-> [sym |-> IF last THEN 0 ELSE s.sym + 1,
                 sub |-> IF last \/ ends THEN 0 ELSE s.sub + 1,
                 chirp |-> IF last THEN 0 ELSE IF ends THEN (s.chirp + 1) % 2 ELSE s.chirp,
                 pos |-> s.pos + NSub + gap, nth |-> s.nth + 1],
      out |-> <<[at |-> s.pos, sub |-> s.sub, phase |-> phase, nth |-> s.nth]>>]

\* multiuser_chirp_detector_cc: where it looks, for which subchirp of which chirp.
Searching(pos) == [tracking |-> FALSE, pos |-> pos, sub |-> 0, chirp |-> 0]

\* dist_to_next_subchirp()
Found(phy, d, at) ==
  LET ends == d.sub + 1 = NSubchirps
      gap == IF ~ends THEN 0 ELSE IF d.chirp = 0 THEN phy.gap1 ELSE phy.gap2
  IN [tracking |-> TRUE, pos |-> at + NSub + gap,
      sub |-> IF ends THEN 0 ELSE d.sub + 1,
      chirp |-> IF ends THEN 1 - d.chirp ELSE d.chirp]

\* general_work() up to and with a subchirp of the stream: a missed one, where there is
\* nothing or another one, resets it; the search then goes sample by sample.
DetectorStep(phy, d, s) ==
  LET missed == d.tracking /\ (d.pos < s.at \/ (d.pos = s.at /\ d.sub # s.sub))
      now == IF missed THEN Searching(d.pos + 1) ELSE d
      hit == IF now.tracking THEN now.pos = s.at ELSE now.pos <= s.at /\ s.sub = 0
  IN [state |-> IF hit THEN Found(phy, now, s.at) ELSE now,
      out |-> IF hit THEN <<s>> ELSE << >>]

\* dqcsk_demapper_cc: always four subchirps and a gap, from the position the last call
\* ended at. A subchirp that is not there correlates to noise.
Noise == 4
DqcskDemapper(phy, d, stream) ==
  [i \in 1 .. NSubchirps |->
     LET at == d.pos + (i - 1) * NSub
         here == {n \in DOMAIN stream : stream[n].at = at /\ stream[n].sub = i - 1}
     IN  IF here = {} THEN Noise ELSE stream[CHOOSE n \in here : TRUE].phase]
DqcskDemapperLen(phy, d) == NSubchirps * NSub + (IF d.chirp % 2 = 0 THEN phy.gap1 ELSE phy.gap2)
AfterDqcsk(phy, d) == [pos |-> d.pos + DqcskDemapperLen(phy, d), chirp |-> (d.chirp + 1) % 2]

-----------------------------------------------------------------------------
(***************************************************************************)
(* Where frames begin.                                                     *)
(***************************************************************************)

\* preamble_tagger_cc::work() on a window of twice a preamble, of which the first half is
\* consumed: the places, from 0, that it tags. The test is on the angle and not on its
\* size, so a quarter turn back passes; half a turn is on one side or the other of -pi.
Tags(phy, window, halfTurnBack) ==
  LET len == phy.len_preamble
      turn(i) == Turn(window[i + 1] - window[i])   \* of item i from 0 against the one before
      small(i) == turn(i) \in {0, 3} \/ (turn(i) = 2 /\ halfTurnBack)
      after[i \in 0 .. 2 * len - 2] ==
        IF i = 0 THEN [ctr |-> 1, tags |-> {}]
        ELSE LET before == after[i - 1]
                 ctr == IF small(i) THEN before.ctr + 1 ELSE 1
             IN  IF ctr >= len /\ turn(i + 1) # 0
                 THEN [ctr |-> 1, tags |-> before.tags \cup {i - (len - 1)}]
                 ELSE [ctr |-> ctr, tags |-> before.tags]
  IN after[2 * len - 2].tags

\* Mutant: a frame is passed on without a look at how far away the next one is.
FrameBufferUnchecked(phy, in) ==
  LET n == phy.nsym_frame
      tags == {i \in DOMAIN in : in[i].sof}
      first == CHOOSE i \in tags : \A j \in tags : i <= j
  IN IF tags = {} THEN [consumed |-> Len(in), frame |-> << >>]
     ELSE IF Len(in) < first + n - 1 THEN [consumed |-> first - 1, frame |-> << >>]
     ELSE [consumed |-> first - 1 + n, frame |-> SubSeq(in, first, first + n - 1)]

\* frame_buffer_cc::general_work(): how much of the input goes, and which frame comes out.
FrameBuffer(phy, in) ==
  LET n == phy.nsym_frame
      tags == {i \in DOMAIN in : in[i].sof}
      first == CHOOSE i \in tags : \A j \in tags : i <= j
      second == CHOOSE i \in tags \ {first} : \A j \in tags \ {first} : i <= j
      several == \E i, j \in tags : i # j
      nothing(consumed) == [consumed |-> consumed, frame |-> << >>]
  IN CASE tags = {} -> nothing(Len(in))
       [] tags # {} /\ ~several -> nothing(first - 1)
       [] several /\ second - first < n -> nothing(second - 1)
       [] several /\ second - first >= n ->
            [consumed |-> first - 1 + n, frame |-> SubSeq(in, first, first + n - 1)]
=============================================================================
