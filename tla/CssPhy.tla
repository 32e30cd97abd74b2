------------------------------- MODULE CssPhy -------------------------------
(***************************************************************************)
(* css_phy.physical_layer: the parameters of the chirp spread spectrum     *)
(* physical layer that all its blocks are constructed with, and the        *)
(* lengths that follow from the rate and the size of a packet.             *)
(***************************************************************************)
EXTENDS Integers, Sequences

CONSTANTS
  \* css_constants, the tables as functions of slow_rate
  Preamble, Sfd, Codewords, BitsPerSymbol, IntlvSeq,
  NSub,     \* n_sub, samples of a subchirp: 38
  NChirp,   \* n_chirp, samples of a chirp with its gap, on average: 192
  NTau,     \* n_tau, by chirp_number: 15, 10, 5 and 0
  MaxBytes  \* max_phy_packetsize_bytes: 127

NSubchirps == 4  \* n_subchirps
PhrLen == 12     \* PHR_LEN

ASSUME CssAssumption ==
  /\ {NSub, NChirp, MaxBytes} \subseteq Nat \ {0}
  /\ NTau \in [1 .. 4 -> Nat]
  /\ \A c \in 1 .. 4 : NSubchirps * NSub + 2 * NTau[c] <= NChirp

\* The tables: chips of either sign; a preamble of ones and an SFD that starts with the
\* other sign; codewords that differ, of one length, one for every group of bits, and groups
\* of three at the fast rate; and the interleaver a permutation of the places of a block,
\* counted from 0.
ASSUME TableAssumption ==
  \A slow \in BOOLEAN :
    /\ Preamble[slow] \in Seq({-1, 1}) /\ Sfd[slow] \in Seq({-1, 1})
    /\ Len(Preamble[slow]) >= 2 /\ \A i \in 1 .. Len(Preamble[slow]) : Preamble[slow][i] = 1
    /\ Len(Sfd[slow]) >= 4 /\ Sfd[slow][1] = -1
    /\ BitsPerSymbol[slow] \in 1 .. 6 /\ BitsPerSymbol[FALSE] = 3
    /\ Codewords[slow] \in Seq(Seq({-1, 1}))
    /\ Len(Codewords[slow]) = 2^BitsPerSymbol[slow]
    /\ Codewords[slow][1] # << >>
    /\ \A i, j \in 1 .. Len(Codewords[slow]) :
         /\ Len(Codewords[slow][i]) = Len(Codewords[slow][j])
         /\ Codewords[slow][i] = Codewords[slow][j] => i = j
ASSUME IntlvAssumption ==
  /\ IntlvSeq \in Seq(Nat) /\ IntlvSeq # << >>
  /\ \A i \in 1 .. Len(IntlvSeq) : IntlvSeq[i] < Len(IntlvSeq)
  /\ \A i, j \in 1 .. Len(IntlvSeq) : IntlvSeq[i] = IntlvSeq[j] => i = j

CeilDiv(a, b) == (a + b - 1) \div b

\* Zeros behind a packet of so many bytes, to fill up codewords and interleaver blocks.
\* For the slow rate ceil(size / 3 + 1 / 2) is ceil((2 size + 3) / 6).
PaddedZeros(slow, size) ==
  IF slow THEN 24 * CeilDiv(2 * size + 3, 6) - 12 - 2 * size
          ELSE 6 * (CeilDiv(4 * size, 3) + 2) - 8 * size - 12

\* Bits of a frame, and the symbols that carry them: half of the bits go to each of I and
\* Q, and every codeword takes BitsPerSymbol of them (the code rate).
FrameBits(slow, size) == PhrLen + 8 * size + PaddedZeros(slow, size)
PayloadSymbols(slow, size) ==
  (FrameBits(slow, size) * Len(Codewords[slow][1])) \div (2 * BitsPerSymbol[slow])
NsymFrame(slow, size) == Len(Preamble[slow]) + Len(Sfd[slow]) + PayloadSymbols(slow, size)

\* The silences behind the chirps, in turn.
TimeGap1(chirp) == NChirp - 2 * NTau[chirp] - NSubchirps * NSub
TimeGap2(chirp) == NChirp + 2 * NTau[chirp] - NSubchirps * NSub

\* nchirps is a quotient of floats: only a whole even number counts as even.
NsampFrame(nsym, chirp) ==
  IF nsym % 8 = 0 THEN (nsym \div 4) * NChirp
  ELSE ((nsym - 4) * NChirp) \div 4 + 4 * NSub + TimeGap1(chirp)

\* The header: seven bits of length, highest first, and five zeros.
GenPhr(size) == [i \in 1 .. PhrLen |-> IF i <= 7 THEN (size \div 2^(7 - i)) % 2 ELSE 0]

\* The constructor.
PhysicalLayer(slow, packetsize, chirpNumber) ==
  LET size == IF packetsize <= MaxBytes THEN packetsize ELSE MaxBytes
      chirp == IF chirpNumber \in 1 .. 4 THEN chirpNumber ELSE 1
  IN [slow |-> slow, size |-> size,
      bits_per_symbol |-> BitsPerSymbol[slow], codewords |-> Codewords[slow],
      intlv_seq |-> IF slow THEN IntlvSeq ELSE << >>,
      header |-> Preamble[slow] \o Sfd[slow], len_preamble |-> Len(Preamble[slow]),
      phr |-> GenPhr(size), padded_zeros |-> PaddedZeros(slow, size),
      gap1 |-> TimeGap1(chirp), gap2 |-> TimeGap2(chirp),
      nsym_frame |-> NsymFrame(slow, size),
      nsamp_frame |-> NsampFrame(NsymFrame(slow, size), chirp)]
=============================================================================
