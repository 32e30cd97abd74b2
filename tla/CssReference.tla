---------------------------- MODULE CssReference ----------------------------
(***************************************************************************)
(* css_mod.modulator and css_demod.demodulator: the same physical layer    *)
(* once more, a frame at a time, in Python. Read as Python 2, where the    *)
(* quotients of lengths are integers. Phases are as in CssBlocks.          *)
(***************************************************************************)
EXTENDS CssBlocks

\* What comes of an exception, or of the reshape of an array that does not fit.
Raised == << >>

PadZerosRef(phy, bits) == bits \o [i \in 1 .. phy.padded_zeros |-> 0]

\* demux() and pad_zeros(): every port gets all of the zeros.
PortBits(phy, bits, port) == PadZerosRef(phy, Deinterleave(phy.phr \o bits, port))

Fits(phy, bits) ==
  LET chips == (Len(bits) \div phy.bits_per_symbol) * Len(phy.codewords[1]) IN
  /\ Len(bits) % phy.bits_per_symbol = 0
  /\ phy.slow => chips % (2 * Len(phy.codewords[1])) = 0

\* bits_to_codewords(), interleaver() and create_frame()
FrameChips(phy, bits) ==
  phy.header \o Interleaver(phy.intlv_seq, CodewordMapper(phy, bits))

\* mod_QPSK() of the frame, if the packet has the length it was constructed with.
FrameQpsk(phy, bits) ==
  LET port(p) == PortBits(phy, bits, p)
      i == FrameChips(phy, port(0))
      q == FrameChips(phy, port(1))
  IN IF Len(bits) # 8 * phy.size \/ \E p \in {0, 1} : ~Fits(phy, port(p)) THEN Raised
     ELSE [n \in DOMAIN i |-> QpskPhase(i[n], q[n])]

\* The delay chain of mod_DQPSK() and demod_DQPSK(): delay_chain[0::-1] has one item, and
\* all of delay_chain[1::] is set to it. So the distance of the phase differences is two,
\* not four as the comment of mod_DQPSK() says.
Shifted(chain, x) == <<x, chain[1], chain[1], chain[1]>>
ModStep(chain, x) ==
  LET out == Turn(x + chain[4]) IN [state |-> Shifted(chain, out), out |-> <<out>>]
DemodStep(chain, x) ==
  [state |-> Shifted(chain, Turn(-x)), out |-> <<Turn(x + chain[4])>>]

FrameDqpsk(phy, bits) == Run(ModStep, FreshMemory.mem, FrameQpsk(phy, bits)).out

\* demod_DQPSK(), demod_QPSK(), separate_payload(), deinterleaver(), codewords_to_bits(),
\* remove_zeropadding() and mux(), of the symbols of a frame, without the header.
Demodulate(phy, symbols) ==
  LET n == Len(phy.header)
      qpsk == Run(DemodStep, FreshMemory.mem, symbols).out
      payload == SubSeq(qpsk, n + 1, Len(qpsk))
      chips(f(_)) == Deinterleaver(phy.intlv_seq, [j \in DOMAIN payload |-> f(payload[j])])
      bits(f(_)) == LET b == HardDemapper(phy, chips(f)) IN SubSeq(b, 1, Len(b) - phy.padded_zeros)
      both == Interleave(bits(QpskI), bits(QpskQ))
  IN SubSeq(both, PhrLen + 1, Len(both))
=============================================================================
