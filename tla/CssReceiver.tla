----------------------------- MODULE CssReceiver -----------------------------
(***************************************************************************)
(* The receiving half of the CSS physical layer. One action is one call of *)
(* work() of a block whose calls matter, or one pass through the blocks    *)
(* behind the frame buffer, or a message handler.                          *)
(*                                                                         *)
(* Beside it, the receiver of the tests (qa_css_txrx.py) without detection *)
(* of chirps or preambles and with hard decisions: dqcsk_demapper_cc,      *)
(* dqpsk_mapper_ff backwards, qpsk_demapper_fi, interleaver_ii backwards   *)
(* and codeword_demapper_ib.                                               *)
(***************************************************************************)
EXTENDS CssSender

VARIABLES
  air,      \* the subchirps that multiuser_chirp_detector_cc has not consumed
  airLen,   \* how many samples it was ever given
  rotation, \* quarter turns by which the Costas loop has locked
  halfTurn, \* half a turn comes out as -pi, and not as pi
  detector, \* multiuser_chirp_detector_cc
  symbols,  \* before preamble_tagger_cc
  tagged,   \* before frame_buffer_cc
  frames,   \* before dqpsk_soft_demapper_cc
  soft,     \* dqpsk_soft_demapper_cc: d_mem and d_symctr
  toDeintlv, toDemapper, \* by port: before deinterleaver_ff, codeword_soft_demapper_fb
  zbuf,     \* zeropadding_removal_b: d_buf up to d_buf_pos
  toRemoval,\* messages to phr_removal
  hard,     \* the receiver of the tests
  \* history
  passed,   \* frames put out by the frame buffer: which symbols they are
  published \* packets put out by phr_removal

receiverVars == <<air, airLen, rotation, halfTurn, detector, symbols, tagged, frames, soft,
                  toDeintlv, toDemapper, zbuf, toRemoval, hard, passed, published>>

ReceiverInit ==
  /\ air = << >> /\ airLen = 0
  /\ detector = Searching(0)
  /\ symbols = << >> /\ tagged = << >> /\ frames = << >>
  /\ soft = FreshMemory
  /\ toDeintlv = [p \in Ports |-> << >>] /\ toDemapper = [p \in Ports |-> << >>]
  /\ zbuf = << >> /\ toRemoval = << >>
  /\ hard = [stream |-> << >>, len |-> 0, demapper |-> [pos |-> 0, chirp |-> 0],
             dqpsk |-> FreshMemory, nth |-> 0, chips |-> [p \in Ports |-> << >>],
             bits |-> << >>, noisy |-> FALSE]
  /\ passed = << >> /\ published = << >>

MaxGap == IF phy.gap1 >= phy.gap2 THEN phy.gap1 ELSE phy.gap2

\* multiuser_chirp_detector_cc::general_work() of all subchirps that have, while it tracks,
\* the samples of the longer gap behind them; and digital_costas_loop_cc.
Heard == {n \in DOMAIN air : air[n].at + NSub + MaxGap <= airLen}
DetectChirps ==
  /\ Heard # {}
  /\ \E r \in {Run(LAMBDA d, s : DetectorStep(phy, d, s), detector, Picked(air, Heard))} :
       /\ detector' = r.state
       /\ symbols' = symbols \o [n \in DOMAIN r.out |->
                                   [phase |-> Turn(r.out[n].phase + rotation), nth |-> r.out[n].nth]]
  /\ air' = Picked(air, DOMAIN air \ Heard)
  /\ UNCHANGED <<airLen, rotation, halfTurn, tagged, frames, soft, toDeintlv, toDemapper,
                 zbuf, toRemoval, hard, passed, published>>

\* preamble_tagger_cc::work(): one preamble's length per call.
TagPreamble ==
  LET len == phy.len_preamble IN
  /\ Len(symbols) >= 2 * len
  /\ symbols' = SubSeq(symbols, len + 1, Len(symbols))
  /\ \E tags \in {Tags(phy, [n \in 1 .. 2 * len |-> symbols[n].phase], halfTurn)} :
       tagged' = tagged \o [n \in 1 .. len |-> [phase |-> symbols[n].phase, nth |-> symbols[n].nth,
                                                sof |-> n - 1 \in tags]]
  /\ UNCHANGED <<air, airLen, rotation, halfTurn, detector, frames, soft, toDeintlv,
                 toDemapper, zbuf, toRemoval, hard, passed, published>>

\* frame_buffer_cc::general_work(), when forecast() allows it.
BufferFrame ==
  /\ Len(tagged) >= 3 * phy.nsym_frame
  /\ \E r \in {FrameBuffer(phy, tagged)} :
       /\ tagged' = SubSeq(tagged, r.consumed + 1, Len(tagged))
       /\ frames' = frames \o r.frame
       /\ passed' = (IF r.frame = << >> THEN passed
                     ELSE Append(passed, [i \in DOMAIN r.frame |-> r.frame[i].nth]))
  /\ UNCHANGED <<air, airLen, rotation, halfTurn, detector, symbols, soft, toDeintlv,
                 toDemapper, zbuf, toRemoval, hard, published>>

\* deinterleaver_ff and codeword_soft_demapper_fb of a port, as Mapped.
Demapped(p, x) ==
  LET chips == toDeintlv[p] \o
                 [j \in DOMAIN x |-> IF p = 0 THEN QpskI(x[j]) ELSE QpskQ(x[j])]
      m == BlockLen(phy.intlv_seq)
      words == toDemapper[p] \o Deinterleaver(phy.intlv_seq, Whole(chips, m))
  IN [chips |-> Rest(chips, m), words |-> Rest(words, Len(phy.codewords[1])),
      out |-> SoftDemapper(phy, words)]

\* dqpsk_soft_demapper_cc, the quarter turn and the split into I and Q; keep_m_in_n, which
\* drops the header of frames that start at multiples of a frame's length; both ports, and
\* interleave; zeropadding_removal_b::work().
Decode ==
  /\ Len(frames) >= phy.nsym_frame
  /\ frames' = SubSeq(frames, phy.nsym_frame + 1, Len(frames))
  /\ \E diff \in {Run(LAMBDA s, x : SoftDqpskStep(phy, s, x.phase), soft,
                      SubSeq(frames, 1, phy.nsym_frame))} :
       LET kept == SubSeq(diff.out, Len(phy.header) + 1, phy.nsym_frame)
           size == PhrLen + 8 * phy.size + phy.padded_zeros
       IN \E d \in {[p \in Ports |-> Demapped(p, kept)]} :
          LET bits == zbuf \o Interleave(d[0].out, d[1].out) IN
          /\ soft' = diff.state
          /\ toDeintlv' = [p \in Ports |-> d[p].chips]
          /\ toDemapper' = [p \in Ports |-> d[p].words]
          /\ zbuf' = Rest(bits, size)
          /\ toRemoval' = toRemoval \o [i \in 1 .. Groups(bits, size) |->
                                          SubSeq(Group(bits, size, i), 1, size - phy.padded_zeros)]
  /\ UNCHANGED <<air, airLen, rotation, halfTurn, detector, symbols, tagged, hard, passed,
                 published>>

\* phr_removal::remove_phr()
RemovePhrHandler ==
  /\ toRemoval # << >>
  /\ toRemoval' = Tail(toRemoval)
  /\ published' = Append(published, RemovePhr(Head(toRemoval)))
  /\ UNCHANGED <<air, airLen, rotation, halfTurn, detector, symbols, tagged, frames, soft,
                 toDeintlv, toDemapper, zbuf, hard, passed>>

-----------------------------------------------------------------------------
(***************************************************************************)
(* The receiver of the tests takes the samples as they leave the mapper.   *)
(***************************************************************************)
HardReady(h) ==
  ~h.noisy /\ h.len >= h.demapper.pos + DqcskDemapperLen(phy, h.demapper)

\* One chirp.
HardStep(h) ==
  LET d == h.demapper
      four == DqcskDemapper(phy, d, h.stream)
      diff == Run(LAMBDA s, x : DqpskStep(phy, FALSE, s, x), h.dqpsk, four)
      header == Len(phy.header)
      inFrame == h.nth % phy.nsym_frame
      kept == IF inFrame < header THEN << >> ELSE diff.out  \* a header is whole chirps
      chips == [p \in Ports |-> h.chips[p] \o
                  [j \in DOMAIN kept |-> IF p = 0 THEN QpskI(kept[j]) ELSE QpskQ(kept[j])]]
      m == IF phy.intlv_seq = << >> THEN Len(phy.codewords[1]) ELSE Len(phy.intlv_seq)
      words == [p \in Ports |-> HardDemapper(phy, Deinterleaver(phy.intlv_seq, Whole(chips[p], m)))]
  IN [stream |-> Picked(h.stream, {n \in DOMAIN h.stream : h.stream[n].at >= AfterDqcsk(phy, d).pos}),
      len |-> h.len, demapper |-> AfterDqcsk(phy, d), dqpsk |-> diff.state,
      nth |-> h.nth + NSubchirps, chips |-> [p \in Ports |-> Rest(chips[p], m)],
      bits |-> h.bits \o Interleave(words[0], words[1]),
      noisy |-> \E i \in DOMAIN four : four[i] = Noise]

\* All that can be decoded of what has been added to the stream.
HardDecode(new, len) ==
  LET given == [hard EXCEPT !.stream = hard.stream \o new, !.len = len]
      chirp(h, i) == [state |-> IF HardReady(h) THEN HardStep(h) ELSE h, out |-> << >>]
  IN Run(chirp, given, [i \in 1 .. Len(given.stream) \div NSubchirps |-> i]).state
=============================================================================
