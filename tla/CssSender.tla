------------------------------ MODULE CssSender ------------------------------
(***************************************************************************)
(* The transmitting half of the CSS physical layer, from the message port  *)
(* of phr_prefixer to the samples behind dqcsk_mapper_fc. One action is a  *)
(* message handler, or one pass of work() through the blocks that convert  *)
(* bits to chips, or chips to samples, of everything that waits for them.  *)
(***************************************************************************)
EXTENDS CssBlocks

CONSTANTS
  Payloads,    \* the packets that may come from the MAC: sequences of bytes
  MaxPackets   \* bound: how many of them

Ports == {0, 1}  \* of deinterleave and of interleave
EOF == << >>  \* PMT_EOF; a message of bits is never empty

VARIABLES
  phy,        \* the parameters, the same in all blocks
  crossed,    \* port 0 goes to the Q input of the QPSK mapper, as the flow graph has it
  toPad,      \* messages from phr_prefixer to zeropadding_b
  dbuf,       \* zeropadding_b: d_buf
  done,       \* set_done() of phr_prefixer and zeropadding_b
  toMapper,   \* by port: bits before codeword_mapper_bi
  toIntlv,    \* by port: chips before interleaver_ii
  toPrefixer, \* by port: chips before preamble_sfd_prefixer_ii
  prefixer,   \* its d_sym_ctr, the same for both ports
  dqpsk,      \* dqpsk_mapper_ff: d_mem and d_symctr
  dqcsk,      \* dqcsk_mapper_fc: its counters
  \* history
  packets,    \* accepted by phr_prefixer
  phases      \* put out by dqpsk_mapper_ff

senderVars == <<phy, crossed, toPad, dbuf, done, toMapper, toIntlv, toPrefixer, prefixer,
                dqpsk, dqcsk, packets, phases>>

SenderInit ==
  /\ toPad = << >> /\ dbuf = << >>
  /\ done = [phr |-> FALSE, pad |-> FALSE]
  /\ toMapper = [p \in Ports |-> << >>] /\ toIntlv = [p \in Ports |-> << >>]
  /\ toPrefixer = [p \in Ports |-> << >>]
  /\ prefixer = 0 /\ dqpsk = FreshMemory /\ dqcsk = FirstChirp
  /\ packets = << >> /\ phases = << >>

\* phr_prefixer::prefix_phr() of a packet; one of more than 127 bytes throws.
PrefixPhrHandler(p) ==
  /\ ~done.phr
  /\ Len(p) <= 127
  /\ toPad' = Append(toPad, PrefixPhr(phy.phr, p))
  /\ packets' = Append(packets, p)
  /\ UNCHANGED <<phy, crossed, dbuf, done, toMapper, toIntlv, toPrefixer, prefixer, dqpsk,
                 dqcsk, phases>>

\* The same, of the end of a file.
PrefixPhrEof ==
  /\ ~done.phr
  /\ toPad' = Append(toPad, EOF)
  /\ done' = [done EXCEPT !.phr = TRUE]
  /\ UNCHANGED <<phy, crossed, dbuf, toMapper, toIntlv, toPrefixer, prefixer, dqpsk, dqcsk,
                 packets, phases>>

\* zeropadding_b::pad_zeros(). After PMT_EOF the block is done, whatever is in d_buf: not
\* by set_done(), but because the handler publishes on a port 'out' first, which the block
\* never registers, and the exception ends its thread. Either way it does nothing more.
PadZeros ==
  /\ toPad # << >> /\ ~done.pad
  /\ toPad' = Tail(toPad)
  /\ IF Head(toPad) = EOF
     THEN done' = [done EXCEPT !.pad = TRUE] /\ UNCHANGED dbuf
     ELSE dbuf' = dbuf \o Head(toPad) \o [i \in 1 .. phy.padded_zeros |-> 0] /\ UNCHANGED done
  /\ UNCHANGED <<phy, crossed, toMapper, toIntlv, toPrefixer, prefixer, dqpsk, dqcsk, packets,
                 phases>>

\* zeropadding_b::general_work() and deinterleave, then codeword_mapper_bi and
\* interleaver_ii of both ports: what is left before each, and what comes out. d_buf holds
\* whole packets, an even number of bits.
Mapped(p) ==
  LET bits == toMapper[p] \o Deinterleave(dbuf, p)
      chips == toIntlv[p] \o CodewordMapper(phy, bits)
      m == BlockLen(phy.intlv_seq)
  IN [bits |-> Rest(bits, phy.bits_per_symbol), chips |-> Rest(chips, m),
      out |-> Interleaver(phy.intlv_seq, Whole(chips, m))]

\* (The values of \E x \in {...} are computed once, those of a LET at every use.)
MapCodewords ==
  /\ dbuf # << >> /\ ~done.pad
  /\ dbuf' = << >>
  /\ \E m \in {[p \in Ports |-> Mapped(p)]} :
       /\ toMapper' = [p \in Ports |-> m[p].bits]
       /\ toIntlv' = [p \in Ports |-> m[p].chips]
       /\ toPrefixer' = [p \in Ports |-> toPrefixer[p] \o m[p].out]
  /\ UNCHANGED <<phy, crossed, toPad, done, prefixer, dqpsk, dqcsk, packets, phases>>

\* preamble_sfd_prefixer_ii of both ports, qpsk_mapper_if, dqpsk_mapper_ff, and
\* dqcsk_mapper_fc, of the chips of a frame or less; its output follows what the stream
\* holds already.
ChipsPerFrame == phy.nsym_frame - Len(phy.header)
FirstChips(s) == SubSeq(s, 1, IF Len(s) < ChipsPerFrame THEN Len(s) ELSE ChipsPerFrame)
OtherChips(s) == SubSeq(s, ChipsPerFrame + 1, Len(s))
Modulated ==
  LET framed == [p \in Ports |-> Run(LAMBDA ctr, chip : PrefixerStep(phy, ctr, chip), prefixer,
                                     FirstChips(toPrefixer[IF crossed THEN 1 - p ELSE p]))]
      i == framed[0]
      q == framed[1]
      diff == Run(LAMBDA s, x : DqpskStep(phy, TRUE, s, x), dqpsk,
                  [n \in DOMAIN i.out |-> QpskPhase(i.out[n], q.out[n])])
  IN [prefixer |-> i.state, diff |-> diff,
      chirps |-> Run(LAMBDA s, x : DqcskStep(phy, s, x), dqcsk, diff.out)]

Modulate(m) ==
  /\ toPrefixer[0] # << >>
  /\ prefixer' = m.prefixer /\ dqpsk' = m.diff.state /\ dqcsk' = m.chirps.state
  /\ phases' = phases \o m.diff.out
  /\ toPrefixer' = [p \in Ports |-> OtherChips(toPrefixer[p])]
  /\ UNCHANGED <<phy, crossed, toPad, dbuf, done, toMapper, toIntlv, packets>>
=============================================================================
