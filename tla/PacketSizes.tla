---------------------------- MODULE PacketSizes ----------------------------
(***************************************************************************)
(* packet_base and ieee802_15_4_packet: how long the parts of an O-QPSK    *)
(* packet are, in bytes, chips and samples. Burst collection and the       *)
(* RF-DNA detector take the length of a preamble from such an object.      *)
(*                                                                         *)
(* Rates and periods are floats in the code; here they are exact fractions *)
(* <<numerator, denominator>>.                                             *)
(***************************************************************************)
EXTENDS Integers

CONSTANTS
  ShrPreambleLen, ShrSfdLen, PhrLen, PayloadLen, CrcLen, \* bytes: 4, 1, 1, 125, 2
  Byte2Sym, Sym2Chip,                                    \* 2 and 32
  ChipRate, SymbolRate                                   \* 2e6 and 1e6

ASSUME SizesAssumption ==
  /\ {ShrPreambleLen, ShrSfdLen, PhrLen, PayloadLen, CrcLen} \subseteq Nat
  /\ {Byte2Sym, Sym2Chip, ChipRate, SymbolRate} \subseteq Nat \ {0}

-----------------------------------------------------------------------------
(***************************************************************************)
(* Every rate is kept with its period and every multiplier with its        *)
(* inverse; whichever is set, the other follows.                           *)
(***************************************************************************)
Reciprocal(q) == <<q[2], q[1]>>

SetRate(q) == [rate |-> q, period |-> Reciprocal(q)]
SetPeriod(q) == [rate |-> Reciprocal(q), period |-> q]
SetMultiplier(q) == [times |-> q, per |-> Reciprocal(q)]

\* The constructors, which differ in the lengths and the sample rate they take.
NewPacket(preambleLen, lengthLen, dataLen, sampRate) ==
  [preamble_len |-> preambleLen, length_len |-> lengthLen, data_len |-> dataLen,
   sample |-> SetRate(<<sampRate, 1>>), chip |-> SetRate(<<ChipRate, 1>>),
   symbol |-> SetRate(<<SymbolRate, 1>>),
   byte2sym |-> SetMultiplier(<<Byte2Sym, 1>>), sym2chip |-> SetMultiplier(<<Sym2Chip, 1>>)]

StandardPacket(sampRate) ==
  NewPacket(ShrPreambleLen + ShrSfdLen, PhrLen, PayloadLen + CrcLen, sampRate)

SetSampleRate(p, sampRate) == [p EXCEPT !.sample = SetRate(<<sampRate, 1>>)]

\* The copy constructor and the assignment: period after rate, inverse after multiplier.
Copy(p) ==
  [preamble_len |-> p.preamble_len, length_len |-> p.length_len, data_len |-> p.data_len,
   sample |-> SetRate(Reciprocal(p.sample.period)), chip |-> SetPeriod(p.chip.period),
   symbol |-> SetRate(Reciprocal(p.symbol.period)),
   byte2sym |-> SetMultiplier(Reciprocal(p.byte2sym.per)),
   sym2chip |-> SetMultiplier(Reciprocal(p.sym2chip.per))]

-----------------------------------------------------------------------------
(***************************************************************************)
(* The lengths.                                                            *)
(***************************************************************************)

\* round() of a fraction that is not negative: halves go up.
Round(n, d) == (2 * n + d) \div (2 * d)

InChips(p, bytes) ==
  Round(bytes * p.byte2sym.times[1] * p.sym2chip.times[1],
        p.byte2sym.times[2] * p.sym2chip.times[2])

InSamples(p, chips) ==
  Round(chips * p.chip.period[1] * p.sample.rate[1], p.chip.period[2] * p.sample.rate[2])

PacketLenBytes(p) == p.preamble_len + p.length_len + p.data_len

PreambleLenChips(p) == InChips(p, p.preamble_len)
LengthLenChips(p)   == InChips(p, p.length_len)
DataLenChips(p)     == InChips(p, p.data_len)
PacketLenChips(p)   == InChips(p, PacketLenBytes(p))

PreambleLenSamples(p) == InSamples(p, PreambleLenChips(p))
LengthLenSamples(p)   == InSamples(p, LengthLenChips(p))
DataLenSamples(p)     == InSamples(p, DataLenChips(p))
PacketLenSamples(p)   == InSamples(p, PacketLenChips(p))

\* The sections of the standard packet, whatever lengths were set.
SectionChips(p) ==
  [shr_preamble |-> InChips(p, ShrPreambleLen), shr_sfd |-> InChips(p, ShrSfdLen),
   phr |-> InChips(p, PhrLen), payload |-> InChips(p, PayloadLen), crc |-> InChips(p, CrcLen)]

SectionSamples(p) ==
  [s \in {"shr_preamble", "shr_sfd", "phr", "payload", "crc"} |->
     InSamples(p, SectionChips(p)[s])]
=============================================================================
