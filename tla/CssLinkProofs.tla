---------------------------- MODULE CssLinkProofs ----------------------------
(***************************************************************************)
(* Which frames the frame buffer of the CSS receiver passes on, for every  *)
(* choice of the tables, whatever the sizes of packets, silences and       *)
(* noise. The theorem takes                                                *)
(*   - that preamble and SFD of every frame put out are at its beginning;  *)
(*   - that symbols stay in order on their way through waiting, air and    *)
(*     the receiver's streams, and are only missing where they are lost;   *)
(*   - what a tag, and one that is missing, tell of the frame it is in;    *)
(*   - an invariant of the whole link that joins these with the one of the *)
(*     sender.                                                             *)
(***************************************************************************)
EXTENDS CssSenderProofs

-----------------------------------------------------------------------------
(***************************************************************************)
(* What every physical layer is like, with padding zeros and interleaver.  *)
(***************************************************************************)
Worded(y) ==
  /\ y.bits_per_symbol \in 1 .. 6
  /\ y.codewords \in Seq(Seq(Chip)) /\ Len(y.codewords) = 2^y.bits_per_symbol
  /\ CodeLen(y) \in Nat \ {0}
  /\ \A i \in 1 .. Len(y.codewords) : Len(y.codewords[i]) = CodeLen(y)
Permuting(q) ==
  /\ q \in Seq(Nat)
  /\ \A i \in 1 .. Len(q) : q[i] < Len(q)
  /\ \A i, j \in 1 .. Len(q) : q[i] = q[j] => i = j
Started(y) ==
  /\ y.header \in Seq(Chip) /\ y.len_preamble \in Nat /\ y.len_preamble >= 2
  /\ Len(y.header) \in Nat /\ y.len_preamble + 4 <= Len(y.header)
  /\ y.nsym_frame \in Nat /\ Len(y.header) < y.nsym_frame
  /\ \A i \in 1 .. y.len_preamble : y.header[i] = 1
  /\ y.header[y.len_preamble + 1] = -1
Timed(y) == y.gap1 \in Nat /\ y.gap2 \in Nat /\ y.nsamp_frame \in Nat
Padded(y) ==
  /\ y.slow \in BOOLEAN /\ y.size \in Nat /\ y.phr \in Seq(Bit) /\ Len(y.phr) = PhrLen
  /\ y.padded_zeros = PaddedZeros(y.slow, y.size) /\ y.padded_zeros \in Nat
  /\ \E h \in Nat : y.padded_zeros = 2 * h
  /\ y.nsym_frame = Len(y.header) +
       ((PhrLen + 8 * y.size + y.padded_zeros) * CodeLen(y)) \div (2 * y.bits_per_symbol)
Shaped(y) == Worded(y) /\ Permuting(y.intlv_seq) /\ Started(y) /\ Timed(y) /\ Padded(y)

\* The sizes of a frame.
LEMMA SizesOf ==
  ASSUME NEW y, Started(y)
  PROVE  y.nsym_frame \in Nat \ {0} /\ y.len_preamble \in Nat /\ y.len_preamble >= 2 /\ y.len_preamble < y.nsym_frame
<1>1. PICK h \in Nat, n \in Nat, N \in Nat : h = Len(y.header) /\ n = y.len_preamble /\ N = y.nsym_frame
  BY DEF Started
<1>2. n >= 2 /\ n + 4 <= h /\ h < N
  BY <1>1 DEF Started
<1>3. N # 0 /\ n < N
  BY <1>2
<1> QED BY <1>1, <1>2, <1>3

\* The zeros behind a packet, and the symbols of a frame.
LEMMA EvenZeros ==
  ASSUME NEW slow \in BOOLEAN, NEW size \in Nat
  PROVE  PaddedZeros(slow, size) \in Nat /\ \E h \in Nat : PaddedZeros(slow, size) = 2 * h
<1> DEFINE P(b) == PaddedZeros(b, size) \in Nat /\ \E h \in Nat : PaddedZeros(b, size) = 2 * h
<1>1. P(TRUE)
  <2>1. PICK k \in Int : k = CeilDiv(2 * size + 3, 6)
    BY DEF CeilDiv
  <2>2. PaddedZeros(TRUE, size) = 24 * k - 12 - 2 * size
    BY <2>1 DEF PaddedZeros
  <2>3. PaddedZeros(TRUE, size) >= 6 * size
    BY SlowFrameWhole
  <2>4. PICK z \in Int : z = 12 * k - 6 - size
    BY <2>1
  <2>5. 24 * k - 12 - 2 * size = 2 * z
    BY <2>1, <2>4
  <2>6. 2 * z >= 6 * size
    BY <2>2, <2>3, <2>5
  <2>7. z \in Nat /\ 2 * z \in Nat
    BY <2>6
  <2> QED BY <2>2, <2>5, <2>7
<1>2. P(FALSE)
  <2>1. PaddedZeros(FALSE, size) \in {0, 2, 4}
    BY FastFrameWhole
  <2>2. \A z \in {0, 2, 4} : z \in Nat /\ \E h \in Nat : z = 2 * h
    <3>1. 0 = 2 * 0 /\ 2 = 2 * 1 /\ 4 = 2 * 2
      OBVIOUS
    <3> QED BY <3>1
  <2> QED BY <2>1, <2>2
<1>3. slow = TRUE \/ slow = FALSE
  OBVIOUS
<1> HIDE DEF P
<1>4. P(slow)
  BY <1>1, <1>2, <1>3, Zenon
<1> QED BY <1>4 DEF P

\* Every setup gives such a layer.
LEMMA ShapeOfSetup ==
  ASSUME NEW s \in Setups, NEW y, y = PhysicalLayer(s.slow, s.size, s.chirp)
  PROVE  Shaped(y)
<1>1. PICK slow \in BOOLEAN, size \in Nat :
        slow = s.slow /\ size = IF s.size <= MaxBytes THEN s.size ELSE MaxBytes
  BY LinkAssumption, CssAssumption
<1>2. PICK chirp \in 1 .. 4 : chirp = IF s.chirp \in 1 .. 4 THEN s.chirp ELSE 1
  OBVIOUS
<1>3. /\ y.slow = slow /\ y.size = size /\ y.bits_per_symbol = BitsPerSymbol[slow]
      /\ y.codewords = Codewords[slow] /\ y.header = Preamble[slow] \o Sfd[slow]
      /\ y.len_preamble = Len(Preamble[slow])
      /\ y.phr = GenPhr(size) /\ y.padded_zeros = PaddedZeros(slow, size)
      /\ y.nsym_frame = NsymFrame(slow, size)
      /\ y.intlv_seq = (IF slow THEN IntlvSeq ELSE << >>)
      /\ y.gap1 = TimeGap1(chirp) /\ y.gap2 = TimeGap2(chirp)
      /\ y.nsamp_frame = NsampFrame(NsymFrame(slow, size), chirp)
  BY <1>1, <1>2 DEF PhysicalLayer
<1>4. PICK a \in Seq(Chip), b \in Seq(Chip) :
        /\ a = Preamble[slow] /\ b = Sfd[slow] /\ Len(a) >= 2 /\ Len(b) >= 4 /\ b[1] = -1
        /\ \A i \in 1 .. Len(a) : a[i] = 1
  BY TableAssumption DEF Chip
<1>5. PICK A \in Nat, B \in Nat : A = Len(a) /\ B = Len(b) /\ A >= 2 /\ B >= 4
  BY <1>4, LenProperties
<1>6. PICK h \in Seq(Chip) : h = a \o b /\ Len(h) = A + B
        /\ (\A i \in 1 .. A : h[i] = a[i]) /\ (\A i \in 1 .. B : h[A + i] = b[i])
  <2>1. PICK h : h = a \o b
    OBVIOUS
  <2>2. /\ h \in Seq(Chip) /\ Len(h) = A + B
        /\ (\A i \in 1 .. A : h[i] = a[i]) /\ (\A i \in 1 .. B : h[A + i] = b[i])
    BY <1>5, <2>1, Concatenated
  <2> QED BY <2>1, <2>2
<1>7. /\ BitsPerSymbol[slow] \in 1 .. 6 /\ Codewords[slow] \in Seq(Seq(Chip))
      /\ Len(Codewords[slow]) = 2^BitsPerSymbol[slow] /\ Codewords[slow][1] # << >>
      /\ \A i, j \in 1 .. Len(Codewords[slow]) : Len(Codewords[slow][i]) = Len(Codewords[slow][j])
  BY ZenonT(60), TableAssumption DEF Chip
<1>8. PICK p \in 1 .. 6 : p = BitsPerSymbol[slow]
  BY <1>7
<1>9. 2^p \in Nat /\ 1 <= 2^p
  <2>1. p \in {1, 2, 3, 4, 5, 6}
    BY <1>8
  <2>2. 2^1 = 2 /\ 2^2 = 4 /\ 2^3 = 8 /\ 2^4 = 16 /\ 2^5 = 32 /\ 2^6 = 64
    OBVIOUS
  <2>3. 2^p \in {2, 4, 8, 16, 32, 64}
    BY ZenonT(60), <2>1, <2>2
  <2> QED BY <2>3
<1>10. Worded(y)
  <2>1. PICK w \in Seq(Seq(Chip)) : w = Codewords[slow] /\ 1 \in 1 .. Len(w)
    BY <1>7, <1>8, <1>9
  <2>2. w[1] \in Seq(Chip) /\ w[1] # << >>
    BY <1>7, <2>1, LenProperties
  <2>3. Len(w[1]) \in Nat \ {0}
    BY <2>2, LenProperties, EmptySeq
  <2> QED BY <1>3, <1>7, <2>1, <2>3 DEF Worded, CodeLen
<1>11. Permuting(y.intlv_seq)
  <2>1. Permuting(IntlvSeq)
    BY IntlvAssumption DEF Permuting
  <2>2. Permuting(<< >>)
    BY DEF Permuting
  <2> QED BY <1>3, <2>1, <2>2
<1>12. PICK L \in Nat \ {0} : L = CodeLen(y) /\ L = Len(Codewords[slow][1])
  BY <1>3, <1>10 DEF Worded, CodeLen
<1>13. PICK z \in Nat : z = PaddedZeros(slow, size)
  BY EvenZeros
<1>14. PICK x \in Nat : x = PhrLen + 8 * size + z /\ x >= 12
  BY DEF PhrLen
<1>15. PICK c \in Nat \ {0} : c = (x * L) \div (2 * p)
  <2>1. x * L \in Nat /\ x * L >= 12
    <3>1. PICK l \in Nat : L = l + 1
      BY <1>12, L - 1 \in Nat, L = (L - 1) + 1
    <3>2. PICK e \in Nat : e = x * l
      BY <3>1
    <3>3. x * L = e + x
      BY <3>1, <3>2
    <3>4. x \in Nat /\ x >= 12
      BY <1>14
    <3>5. e + x \in Nat /\ e + x >= 12
      BY <3>2, <3>4
    <3> QED BY <3>3, <3>5
  <2>2. PICK e \in Nat : e = x * L /\ e >= 12
    BY <2>1
  <2>3. e \div (2 * p) \in Nat \ {0}
    <3>1. p \in {1, 2, 3, 4, 5, 6}
      BY <1>8
    <3> QED BY <2>2, <3>1
  <2> QED BY <2>2, <2>3
<1>16. NsymFrame(slow, size) = A + B + c
  BY <1>4, <1>5, <1>8, <1>12, <1>13, <1>14, <1>15
     DEF NsymFrame, PayloadSymbols, FrameBits
<1>17. Started(y)
  <2>1. h[A + 1] = b[1] /\ 1 \in 1 .. B
    <3>1. 1 \in 1 .. B
      BY <1>4, <1>5
    <3> QED BY <1>6, <3>1
  <2>2. \A i \in 1 .. A : h[i] = 1
    BY ZenonT(60), <1>4, <1>5, <1>6
  <2>3. y.header = h /\ y.len_preamble = A /\ y.nsym_frame = A + B + c /\ Len(h) = A + B
    BY <1>3, <1>4, <1>5, <1>6, <1>16
  <2>4. A \in Nat /\ A >= 2 /\ A + B \in Nat /\ A + 4 <= A + B /\ A + B + c \in Nat /\ A + B < A + B + c
    BY <1>5
  <2>5. h \in Seq(Chip) /\ h[A + 1] = -1
    BY <1>4, <2>1
  <2> QED BY <2>2, <2>3, <2>4, <2>5 DEF Started
<1>18. Timed(y)
  <2>1. TimeGap1(chirp) \in Nat /\ TimeGap2(chirp) \in Nat
    BY GapsAverage
  <2>2. PICK n \in Nat : n = NsymFrame(slow, size) /\ n >= 4
    <3>1. A + B + c \in Nat /\ A + B + c >= 4
      BY <1>5
    <3> QED BY <1>16, <3>1
  <2>3. NsampFrame(n, chirp) \in Nat
    <3>1. NChirp \in Nat /\ NSub \in Nat
      BY CssAssumption
    <3>2. (n \div 4) * NChirp \in Nat
      BY <3>1
    <3>3. PICK e \in Nat : e = (n - 4) * NChirp
      BY SMTT(60), <2>2, <3>1
    <3>4. e \div 4 \in Nat
      BY <3>3
    <3>5. NsampFrame(n, chirp) = IF n % 8 = 0 THEN (n \div 4) * NChirp
                                 ELSE e \div 4 + 4 * NSub + TimeGap1(chirp)
      BY <3>3 DEF NsampFrame
    <3>6. PICK g \in Nat : g = TimeGap1(chirp)
      BY <2>1
    <3>7. e \div 4 + 4 * NSub + g \in Nat
      BY <3>1, <3>4
    <3> QED BY <3>2, <3>5, <3>6, <3>7
  <2> QED BY <1>3, <2>1, <2>2, <2>3 DEF Timed
<1>19. Padded(y)
  <2>1. y.phr \in Seq(Bit) /\ Len(y.phr) = PhrLen
    BY <1>1, <1>3, PhrBits
  <2>2. \E k \in Nat : z = 2 * k
    BY <1>13, EvenZeros
  <2>3. y.nsym_frame = (A + B) + c /\ Len(y.header) = A + B
    BY <1>3, <1>4, <1>6, <1>16
  <2>4. c = ((PhrLen + 8 * y.size + y.padded_zeros) * CodeLen(y)) \div (2 * y.bits_per_symbol)
    BY <1>3, <1>8, <1>12, <1>13, <1>14, <1>15
  <2> QED BY <1>3, <1>13, <2>1, <2>2, <2>3, <2>4 DEF Padded
<1> QED BY <1>10, <1>11, <1>17, <1>18, <1>19 DEF Shaped

-----------------------------------------------------------------------------
(***************************************************************************)
(* Symbols on their way: found by the detector and not yet taken by the    *)
(* frame buffer (r), in the air (a) and waiting to be sent (w). nth counts *)
(* the symbols of ph, all that were ever sent.                             *)
(***************************************************************************)
Symbol == [phase : Phase, nth : Nat]
TaggedSymbol == [phase : Phase, nth : Nat, sof : BOOLEAN]
Subchirp == [at : Int, sub : Nat, phase : Phase, nth : Nat]
Untagged(s) == [n \in 1 .. Len(s) |-> [phase |-> s[n].phase, nth |-> s[n].nth]]

Nths(s) == {s[i].nth : i \in 1 .. Len(s)}
Numbered(s) == Len(s) \in Nat /\ \A i \in 1 .. Len(s) : s[i].nth \in Nat /\ s[i].phase \in Phase
Rising(s) == \A i, j \in 1 .. Len(s) : i < j => s[i].nth < s[j].nth
Apart(s, t) == \A i \in 1 .. Len(s) : \A j \in 1 .. Len(t) : s[i].nth < t[j].nth

\* What was sent is lost or still there, if it is not before everything that is there.
Ahead(P, s) == \A i \in 1 .. Len(s) : P < s[i].nth
AllAhead(P, r, a, w) == Ahead(P, r) /\ Ahead(P, a) /\ Ahead(P, w)
Accounted(L, r, a, w, gone) ==
  \A P \in 0 .. L - 1 : \/ P \in gone \/ P \in Nths(r) \/ P \in Nths(a) \/ P \in Nths(w)
                        \/ AllAhead(P, r, a, w)
Carry(ph, rot, s) ==
  \A i \in 1 .. Len(s) : s[i].nth < Len(ph) /\ s[i].phase = Turn(ph[s[i].nth + 1] + rot)
Coming(ph, rot, r, a, w, gone) ==
  /\ r \in Seq(Symbol) /\ a \in Seq(Subchirp) /\ w \in Seq(Subchirp)
  /\ Rising(r) /\ Rising(a) /\ Rising(w) /\ Apart(r, a) /\ Apart(r, w) /\ Apart(a, w)
  /\ Carry(ph, rot, r) /\ Carry(ph, 0, a) /\ Carry(ph, 0, w)
  /\ Accounted(Len(ph), r, a, w, gone)

\* s are some of the first k items of f, in their order, with their phases turned.
Sifted(s, f, k, turn) ==
  /\ Rising(s)
  /\ \A i \in 1 .. Len(s) : \E l \in 1 .. k : /\ s[i].nth = f[l].nth
                                              /\ s[i].phase = Turn(f[l].phase + turn)
\* All of the first k items of f are in s, or lost.
Missed(s, f, k, gone) == \A l \in 1 .. k : f[l].nth \in Nths(s) \/ f[l].nth \in gone

\* Their numbers and phases.
LEMMA SymbolsNumbered ==
  ASSUME NEW r \in Seq(Symbol)
  PROVE  Numbered(r)
<1>1. Len(r) \in Nat /\ \A i \in 1 .. Len(r) : r[i] \in Symbol
  BY LenProperties
<1> QED BY <1>1 DEF Numbered, Symbol

\* Subchirps are numbered.
LEMMA SubchirpsNumbered ==
  ASSUME NEW a \in Seq(Subchirp)
  PROVE  Numbered(a)
<1>1. Len(a) \in Nat /\ \A i \in 1 .. Len(a) : a[i] \in Subchirp
  BY LenProperties
<1> QED BY <1>1 DEF Numbered, Subchirp

\* Items that follow each other in the stream are symbols sent one after the other, if none
\* of these was lost.
LEMMA Consecutive ==
  ASSUME NEW ph \in Seq(Phase), NEW rot, NEW r, NEW a, NEW w, NEW gone,
         Coming(ph, rot, r, a, w, gone),
         NEW i \in 1 .. Len(r), NEW d \in Nat, i + d <= Len(r),
         \A e \in 1 .. d : r[i].nth + e \notin gone
  PROVE  r[i + d].nth = r[i].nth + d
<1>1. Numbered(r) /\ Numbered(a) /\ Numbered(w)
  BY SymbolsNumbered, SubchirpsNumbered DEF Coming
<1>2. PICK n \in Nat, L \in Nat : n = Len(r) /\ L = Len(ph)
  BY <1>1, LenProperties DEF Numbered
<1>3. PICK A \in Nat : A = r[i].nth
  BY <1>1 DEF Numbered
<1> DEFINE S == {e \in Nat : e <= d => r[i + e].nth = A + e}
<1>4. 0 \in S
  <2>1. i + 0 = i
    BY <1>2
  <2> QED BY <1>3, <2>1
<1>5. ASSUME NEW e \in Nat, e \in S PROVE e + 1 \in S
  <2>1. SUFFICES ASSUME e + 1 <= d PROVE r[i + (e + 1)].nth = A + (e + 1)
    OBVIOUS
  <2>2. PICK j \in 1 .. n : j = i + e /\ j + 1 \in 1 .. n /\ i <= j
    BY <1>2, <2>1
  <2>3. r[j].nth = A + e
    BY <1>5, <2>1, <2>2
  <2>4. PICK x \in Nat : x = r[j + 1].nth /\ x < L
    BY <1>1, <1>2, <2>2 DEF Numbered, Coming, Carry
  <2>5. A + e < x
    BY <1>2, <2>2, <2>3, <2>4 DEF Coming, Rising
  <2>6. PICK P \in 0 .. L - 1 : P = A + e + 1 /\ P <= x
    BY SMTT(60), <2>4, <2>5
  <2>7. P \notin gone
    <3>1. e + 1 \in 1 .. d /\ A + (e + 1) = P
      BY <2>1, <2>6
    <3> QED BY <1>3, <3>1
  <2>8. ~ (P \in Nths(a))
    BY <1>2, <2>2, <2>4, <2>6 DEF Coming, Apart, Nths
  <2>9. ~ (P \in Nths(w))
    BY <1>2, <2>2, <2>4, <2>6 DEF Coming, Apart, Nths
  <2>10. ~ Ahead(P, r)
    <3>1. ~ (P < A)
      BY <2>6
    <3> QED BY <1>3, <3>1 DEF Ahead
  <2>11. P \in Nths(r)
    BY <1>2, <2>6, <2>7, <2>8, <2>9, <2>10 DEF Coming, Accounted, AllAhead
  <2>12. PICK l \in 1 .. n : r[l].nth = P
    BY <1>2, <2>11 DEF Nths
  <2>13. ~ (l < j) /\ l # j
    BY <1>2, <2>2, <2>3, <2>6, <2>12 DEF Coming, Rising
  <2>14. l = j + 1 \/ j + 1 < l
    BY <2>2, <2>13
  <2>15. ~ (j + 1 < l)
    BY <1>2, <2>2, <2>4, <2>6, <2>12 DEF Coming, Rising
  <2>16. x = A + (e + 1)
    BY <2>4, <2>6, <2>12, <2>14, <2>15
  <2>17. i + (e + 1) = j + 1
    BY <1>2, <2>2
  <2> QED BY <2>4, <2>16, <2>17
<1> HIDE DEF S
<1>6. Nat \subseteq S
  BY <1>4, <1>5, InductiveSet
<1> QED BY <1>3, <1>6 DEF S

\* A symbol sent between two items of the stream is in the stream, if it was not lost.
LEMMA Between ==
  ASSUME NEW ph \in Seq(Phase), NEW rot, NEW r, NEW a, NEW w, NEW gone,
         Coming(ph, rot, r, a, w, gone),
         NEW i \in 1 .. Len(r), NEW j \in 1 .. Len(r), NEW P \in Nat,
         r[i].nth <= P, P <= r[j].nth, P \notin gone
  PROVE  \E l \in i .. j : r[l].nth = P
<1>1. Numbered(r) /\ Numbered(a) /\ Numbered(w)
  BY SymbolsNumbered, SubchirpsNumbered DEF Coming
<1>2. PICK n \in Nat, L \in Nat : n = Len(r) /\ L = Len(ph)
  BY <1>1, LenProperties DEF Numbered
<1>3. PICK x \in Nat, z \in Nat : x = r[i].nth /\ z = r[j].nth /\ z < L /\ x <= P /\ P <= z
  BY <1>1, <1>2 DEF Numbered, Coming, Carry
<1>4. P \in 0 .. L - 1
  BY <1>3
<1>5. ~ (P \in Nths(a))
  BY SMTT(60), <1>2, <1>3 DEF Coming, Apart, Nths
<1>6. ~ (P \in Nths(w))
  BY <1>2, <1>3 DEF Coming, Apart, Nths
<1>7. ~ Ahead(P, r)
  BY <1>3 DEF Ahead
<1>8. P \in Nths(r)
  BY <1>2, <1>4, <1>5, <1>6, <1>7 DEF Coming, Accounted, AllAhead
<1>9. PICK l \in 1 .. n : r[l].nth = P
  BY <1>2, <1>8 DEF Nths
<1>10. ~ (l < i) /\ ~ (j < l)
  BY <1>2, <1>3, <1>9 DEF Coming, Rising
<1>11. l \in i .. j
  BY <1>2, <1>9, <1>10
<1> QED BY <1>9, <1>11

\* More symbols are sent.
Supplied(ph, w, out, c, ph2, w2) ==
  /\ out \in Seq(Phase) /\ c \in Seq(Subchirp) /\ Len(c) = Len(out)
  /\ \A i \in 1 .. Len(c) : c[i].nth = Len(ph) + i - 1 /\ c[i].phase = out[i]
  /\ ph2 = ph \o out /\ w2 = w \o c
AheadSame(ph, r, a, w, ph2, w2) ==
  /\ \A P \in Nat : P < Len(ph) /\ AllAhead(P, r, a, w) => AllAhead(P, r, a, w2)
  /\ \A P \in Nat : P < Len(ph2) /\ AllAhead(P, r, a, w2) => P < Len(ph) /\ AllAhead(P, r, a, w)

\* Symbols that are sent keep the order of what is on its way, and are ahead of nothing.
LEMMA SendComing ==
  ASSUME NEW ph \in Seq(Phase), NEW rot, NEW r, NEW a, NEW w, NEW gone,
         Coming(ph, rot, r, a, w, gone),
         NEW out, NEW c, NEW ph2, NEW w2, Supplied(ph, w, out, c, ph2, w2)
  PROVE  Coming(ph2, rot, r, a, w2, gone) /\ AheadSame(ph, r, a, w, ph2, w2)
<1>0. /\ out \in Seq(Phase) /\ c \in Seq(Subchirp) /\ Len(c) = Len(out)
      /\ \A i \in 1 .. Len(c) : c[i].nth = Len(ph) + i - 1 /\ c[i].phase = out[i]
      /\ ph2 = ph \o out /\ w2 = w \o c
  BY DEF Supplied
<1>1. Numbered(r) /\ Numbered(a) /\ Numbered(w) /\ Numbered(c)
  BY <1>0, SymbolsNumbered, SubchirpsNumbered DEF Coming
<1>2. PICK L \in Nat, m \in Nat, n \in Nat : L = Len(ph) /\ m = Len(out) /\ n = Len(w) /\ m = Len(c)
  BY <1>0, <1>1, LenProperties DEF Numbered
<1>3. ph2 \in Seq(Phase) /\ Len(ph2) = L + m /\ (\A i \in 1 .. L : ph2[i] = ph[i])
      /\ (\A i \in 1 .. m : ph2[L + i] = out[i])
  BY <1>0, <1>2, Concatenated
<1>4. w2 \in Seq(Subchirp) /\ Len(w2) = n + m /\ (\A i \in 1 .. n : w2[i] = w[i])
      /\ (\A i \in 1 .. m : w2[n + i] = c[i])
  <2>1. w \in Seq(Subchirp)
    BY DEF Coming
  <2>2. /\ w2 \in Seq(Subchirp) /\ Len(w2) = Len(w) + Len(c)
        /\ \A i \in 1 .. Len(w) : w2[i] = w[i]
        /\ \A i \in 1 .. Len(c) : w2[Len(w) + i] = c[i]
    BY <1>0, <2>1, Concatenated
  <2> QED BY <1>2, <2>2
<1>5. \A i \in 1 .. m : w2[n + i].nth = L + i - 1 /\ w2[n + i].phase = out[i] /\ out[i] \in Phase
  BY <1>0, <1>2, <1>4, LenProperties
<1>6. \A i \in 1 .. n : w2[i].nth = w[i].nth /\ w2[i].phase = w[i].phase /\ w[i].nth \in Nat /\ w[i].nth < L
  BY <1>1, <1>2, <1>4 DEF Coming, Carry, Numbered
<1>7. ASSUME NEW i \in 1 .. n + m
      PROVE  i \in 1 .. n \/ \E k \in 1 .. m : i = n + k
  <2>1. i \in 1 .. n \/ (i - n \in 1 .. m /\ i = n + (i - n))
    BY <1>2
  <2> QED BY <2>1
<1>8. Rising(w2)
  <2>1. SUFFICES ASSUME NEW i \in 1 .. n + m, NEW j \in 1 .. n + m, i < j PROVE w2[i].nth < w2[j].nth
    BY <1>4 DEF Rising
  <2>2. CASE j \in 1 .. n
    <3>1. i \in 1 .. n
      BY <1>2, <2>1, <2>2
    <3> QED BY <1>2, <1>6, <2>1, <2>2, <3>1 DEF Coming, Rising
  <2>3. ASSUME NEW k \in 1 .. m, j = n + k PROVE w2[i].nth < w2[j].nth
    <3>1. w2[j].nth = L + k - 1
      BY <1>5, <2>3
    <3>2. CASE i \in 1 .. n
      BY SMTT(60), <1>2, <1>6, <3>1, <3>2
    <3>3. ASSUME NEW h \in 1 .. m, i = n + h PROVE w2[i].nth < w2[j].nth
      <4>1. w2[i].nth = L + h - 1 /\ h < k
        BY <1>2, <1>5, <2>1, <2>3, <3>3
      <4> QED BY <1>2, <3>1, <4>1
    <3> QED BY <1>7, <3>2, <3>3
  <2> QED BY <1>7, <2>2, <2>3
<1>9. ASSUME NEW s, Numbered(s), Apart(s, w), \A i \in 1 .. Len(s) : s[i].nth < L
      PROVE  Apart(s, w2)
  <2>1. SUFFICES ASSUME NEW i \in 1 .. Len(s), NEW j \in 1 .. n + m PROVE s[i].nth < w2[j].nth
    BY <1>4 DEF Apart
  <2>2. PICK x \in Nat : x = s[i].nth /\ x < L
    BY <1>9 DEF Numbered
  <2>3. CASE j \in 1 .. n
    BY <1>2, <1>6, <1>9, <2>3 DEF Apart
  <2>4. ASSUME NEW k \in 1 .. m, j = n + k PROVE x < w2[j].nth
    <3>1. w2[j].nth = L + k - 1
      BY <1>5, <2>4
    <3> QED BY <1>2, <2>2, <3>1
  <2> QED BY <1>7, <2>2, <2>3, <2>4
<1>10. Apart(r, w2) /\ Apart(a, w2)
  <2>1. Apart(r, w) /\ Apart(a, w)
    BY DEF Coming
  <2>2. /\ \A i \in 1 .. Len(r) : r[i].nth < L
        /\ \A i \in 1 .. Len(a) : a[i].nth < L
    BY <1>2 DEF Coming, Carry
  <2> QED BY <1>1, <1>9, <2>1, <2>2
<1>11. ASSUME NEW s, NEW turn, Numbered(s), Carry(ph, turn, s) PROVE Carry(ph2, turn, s)
  <2>1. SUFFICES ASSUME NEW i \in 1 .. Len(s)
                 PROVE  s[i].nth < L + m /\ s[i].phase = Turn(ph2[s[i].nth + 1] + turn)
    BY <1>3 DEF Carry
  <2>2. PICK x \in Nat : x = s[i].nth /\ x < L /\ s[i].phase = Turn(ph[x + 1] + turn)
    BY <1>2, <1>11 DEF Carry, Numbered
  <2>3. ph2[x + 1] = ph[x + 1]
    BY SMTT(60), <1>2, <1>3, <2>2
  <2> QED BY <1>2, <2>2, <2>3
<1>12. Carry(ph2, 0, w2)
  <2>1. SUFFICES ASSUME NEW i \in 1 .. n + m
                 PROVE  w2[i].nth < L + m /\ w2[i].phase = Turn(ph2[w2[i].nth + 1] + 0)
    BY <1>3, <1>4 DEF Carry
  <2>2. CASE i \in 1 .. n
    <3>1. Carry(ph2, 0, w)
      BY <1>1, <1>11 DEF Coming
    <3> QED BY <1>2, <1>3, <1>6, <2>2, <3>1 DEF Carry
  <2>3. ASSUME NEW k \in 1 .. m, i = n + k
        PROVE  w2[i].nth < L + m /\ w2[i].phase = Turn(ph2[w2[i].nth + 1] + 0)
    <3>1. w2[i].nth = L + k - 1 /\ w2[i].phase = out[k] /\ out[k] \in Phase
      BY <1>5, <2>3
    <3>2. (L + k - 1) + 1 = L + k /\ L + k - 1 < L + m
      BY <1>2
    <3>3. Turn(out[k] + 0) = out[k]
      BY <3>1, TurnBack
    <3> QED BY <1>3, <3>1, <3>2, <3>3
  <2> QED BY <1>7, <2>2, <2>3
<1>13. ASSUME NEW P \in Nat, P < L, Ahead(P, w) PROVE Ahead(P, w2)
  <2>1. SUFFICES ASSUME NEW i \in 1 .. n + m PROVE P < w2[i].nth
    BY <1>4 DEF Ahead
  <2>2. CASE i \in 1 .. n
    BY <1>2, <1>6, <1>13, <2>2 DEF Ahead
  <2>3. ASSUME NEW k \in 1 .. m, i = n + k PROVE P < w2[i].nth
    BY <1>2, <1>5, <1>13, <2>3
  <2> QED BY <1>7, <2>2, <2>3
<1>14. ASSUME NEW P \in Nat, P < L + m PROVE P < L \/ (P \in Nths(w2) /\ ~ Ahead(P, w2))
  <2>1. SUFFICES ASSUME ~ (P < L) PROVE P \in Nths(w2) /\ ~ Ahead(P, w2)
    OBVIOUS
  <2>2. PICK k \in 1 .. m : k = P - L + 1
    <3>1. P - L + 1 \in 1 .. m
      BY <1>2, <1>14, <2>1
    <3> QED BY <3>1
  <2>3. n + k \in 1 .. n + m /\ w2[n + k].nth = P
    <3>1. w2[n + k].nth = L + k - 1
      BY <1>5
    <3> QED BY <1>2, <2>2, <3>1
  <2> QED BY <1>2, <1>4, <2>3 DEF Nths, Ahead
<1>15. ASSUME NEW P \in Nat, Ahead(P, w2) PROVE Ahead(P, w)
  BY <1>2, <1>4, <1>6, <1>15 DEF Ahead
<1>16. Accounted(L + m, r, a, w2, gone)
  <2>1. SUFFICES ASSUME NEW P \in 0 .. (L + m) - 1
                 PROVE  P \in gone \/ P \in Nths(r) \/ P \in Nths(a) \/ P \in Nths(w2) \/ AllAhead(P, r, a, w2)
    BY DEF Accounted
  <2>2. CASE ~ (P < L)
    BY <1>2, <1>14, <2>2
  <2>3. CASE P < L
    <3>1. P \in 0 .. L - 1 /\ P \in Nat
      BY <1>2, <2>3
    <3>2. P \in gone \/ P \in Nths(r) \/ P \in Nths(a) \/ P \in Nths(w) \/ AllAhead(P, r, a, w)
      BY <1>2, <3>1 DEF Coming, Accounted
    <3>3. P \in Nths(w) => P \in Nths(w2)
      <4>1. SUFFICES ASSUME NEW i \in 1 .. n, P = w[i].nth PROVE P \in Nths(w2)
        BY <1>2 DEF Nths
      <4>2. i \in 1 .. n + m /\ w2[i].nth = P
        BY <1>2, <1>6, <4>1
      <4> QED BY <1>4, <4>2 DEF Nths
    <3> QED BY <1>13, <2>3, <3>1, <3>2, <3>3 DEF AllAhead
  <2> QED BY <2>2, <2>3
<1>17. Coming(ph2, rot, r, a, w2, gone)
  BY <1>1, <1>3, <1>4, <1>8, <1>10, <1>11, <1>12, <1>16 DEF Coming
<1> QED BY <1>2, <1>3, <1>13, <1>14, <1>15, <1>17 DEF AllAhead, AheadSame

\* A turn after a turn.
LEMMA Turned ==
  ASSUME NEW x \in Int, NEW z \in Int
  PROVE  Turn(Turn(x + 0) + z) = Turn(x + z)
<1>1. PICK q \in Int, m \in 0 .. 3 : x = 4 * q + m
  <2>1. x \div 4 \in Int /\ x % 4 \in 0 .. 3 /\ x = 4 * (x \div 4) + (x % 4)
    OBVIOUS
  <2> QED BY <2>1
<1>2. Turn(x + 0) = m
  BY <1>1 DEF Turn
<1>3. Turn(m + z) = Turn(x + z)
  BY <1>1 DEF Turn
<1> QED BY <1>2, <1>3

\* The first k items of f go, and what is sifted from them comes behind g.
Moved(f, g, s, k, f2, g2) ==
  /\ Len(g2) = Len(g) + Len(s)
  /\ \A i \in 1 .. Len(g) : g2[i] = g[i]
  /\ \A i \in 1 .. Len(s) : g2[Len(g) + i] = s[i]
  /\ Len(f2) = Len(f) - k
  /\ \A i \in 1 .. Len(f) - k : f2[i] = f[k + i]
MovedItems(f, g, s, k, f2, g2) ==
  /\ Numbered(f2) /\ Numbered(g2)
  /\ \A i \in 1 .. Len(g2) : \/ i \in 1 .. Len(g) /\ g2[i] = g[i]
                             \/ \E j \in 1 .. Len(s) : i = Len(g) + j /\ g2[i] = s[j]
  /\ \A i \in 1 .. Len(f2) : k + i \in 1 .. Len(f) /\ f2[i] = f[k + i]
  /\ \A i \in 1 .. Len(s) : \E l \in 1 .. Len(f) : l <= k /\ s[i].nth = f[l].nth
Behind(g, f) == Rising(g) /\ Rising(f) /\ Apart(g, f)
Beside(f, g, f2, g2) ==
  \A z : /\ Apart(z, g) /\ Apart(z, f) => Apart(z, g2) /\ Apart(z, f2)
         /\ Apart(g, z) /\ Apart(f, z) => Apart(g2, z) /\ Apart(f2, z)

\* Where the items are afterwards.
LEMMA MovedFrom ==
  ASSUME NEW f, NEW g, NEW s, NEW k \in Nat, NEW f2, NEW g2, NEW turn,
         Numbered(f), Numbered(g), Numbered(s), k <= Len(f),
         Moved(f, g, s, k, f2, g2), Sifted(s, f, k, turn)
  PROVE  MovedItems(f, g, s, k, f2, g2)
<1>1. PICK F \in Nat, G \in Nat, S \in Nat : F = Len(f) /\ G = Len(g) /\ S = Len(s) /\ k <= F
  BY DEF Numbered
<1>2. Len(g2) = G + S /\ Len(f2) = F - k /\ F - k \in Nat /\ G + S \in Nat
  BY <1>1 DEF Moved
<1>3. ASSUME NEW i \in 1 .. G + S
      PROVE  (i \in 1 .. G /\ g2[i] = g[i]) \/ \E j \in 1 .. S : i = G + j /\ g2[i] = s[j]
  <2>1. CASE i \in 1 .. G
    BY <1>1, <2>1 DEF Moved
  <2>2. CASE i \notin 1 .. G
    <3>1. PICK j \in 1 .. S : i = G + j
      <4>1. i - G \in 1 .. S /\ i = G + (i - G)
        BY <1>1, <2>2
      <4> QED BY <4>1
    <3> QED BY <1>1, <3>1 DEF Moved
  <2> QED BY <2>1, <2>2
<1>4. ASSUME NEW i \in 1 .. F - k PROVE k + i \in 1 .. F /\ f2[i] = f[k + i]
  BY <1>1 DEF Moved
<1>5. Numbered(g2)
  <2>1. \A i \in 1 .. G : g[i].nth \in Nat /\ g[i].phase \in Phase
    BY <1>1 DEF Numbered
  <2>2. \A i \in 1 .. S : s[i].nth \in Nat /\ s[i].phase \in Phase
    BY <1>1 DEF Numbered
  <2> QED BY <1>2, <1>3, <2>1, <2>2 DEF Numbered
<1>6. Numbered(f2)
  <2>1. \A i \in 1 .. F : f[i].nth \in Nat /\ f[i].phase \in Phase
    BY <1>1 DEF Numbered
  <2> QED BY <1>2, <1>4, <2>1 DEF Numbered
<1>7. \A i \in 1 .. S : \E l \in 1 .. F : l <= k /\ s[i].nth = f[l].nth
  <2>1. \A l \in 1 .. k : l \in 1 .. F /\ l <= k
    BY <1>1
  <2> QED BY <1>1, <2>1 DEF Sifted
<1> QED BY <1>1, <1>2, <1>3, <1>4, <1>5, <1>6, <1>7 DEF MovedItems

\* The order stays, also to others before and behind.
LEMMA MovedOrder ==
  ASSUME NEW f, NEW g, NEW s, NEW k \in Nat, NEW f2, NEW g2, NEW turn,
         Numbered(f), Numbered(g), Numbered(s), k <= Len(f),
         Moved(f, g, s, k, f2, g2), Sifted(s, f, k, turn), Behind(g, f)
  PROVE  Behind(g2, f2) /\ Beside(f, g, f2, g2)
<1>1. PICK F \in Nat, G \in Nat, S \in Nat : F = Len(f) /\ G = Len(g) /\ S = Len(s) /\ k <= F
  BY DEF Numbered
<1>2. Len(g2) = G + S /\ Len(f2) = F - k
  BY <1>1 DEF Moved
<1>3. /\ Numbered(f2) /\ Numbered(g2)
      /\ \A i \in 1 .. G + S : (i \in 1 .. G /\ g2[i] = g[i]) \/ \E j \in 1 .. S : i = G + j /\ g2[i] = s[j]
      /\ \A i \in 1 .. F - k : k + i \in 1 .. F /\ f2[i] = f[k + i]
      /\ \A i \in 1 .. S : \E l \in 1 .. F : l <= k /\ s[i].nth = f[l].nth
  <2>1. MovedItems(f, g, s, k, f2, g2)
    BY MovedFrom
  <2> QED BY <1>1, <1>2, <2>1 DEF MovedItems
<1>4. /\ \A i \in 1 .. G : g[i].nth \in Nat
      /\ \A i \in 1 .. F : f[i].nth \in Nat
      /\ \A i \in 1 .. S : s[i].nth \in Nat
  BY <1>1 DEF Numbered
<1>5. Rising(g2)
  <2>1. SUFFICES ASSUME NEW i \in 1 .. G + S, NEW j \in 1 .. G + S, i < j PROVE g2[i].nth < g2[j].nth
    BY <1>2 DEF Rising
  <2>2. CASE j \in 1 .. G
    <3>1. i \in 1 .. G
      BY <1>1, <2>1, <2>2
    <3>2. g2[i] = g[i] /\ g2[j] = g[j]
      BY <1>1, <2>2, <3>1 DEF Moved
    <3> QED BY <1>1, <2>1, <2>2, <3>1, <3>2 DEF Behind, Rising
  <2>3. ASSUME NEW b \in 1 .. S, j = G + b, g2[j] = s[b] PROVE g2[i].nth < g2[j].nth
    <3>1. CASE i \in 1 .. G
      <4>1. PICK l \in 1 .. F : s[b].nth = f[l].nth
        BY <1>3
      <4>2. g2[i] = g[i]
        BY <1>1, <3>1 DEF Moved
      <4>3. g[i].nth < f[l].nth
        BY <1>1, <3>1 DEF Behind, Apart
      <4> QED BY <2>3, <4>1, <4>2, <4>3
    <3>2. ASSUME NEW c \in 1 .. S, i = G + c, g2[i] = s[c] PROVE g2[i].nth < g2[j].nth
      <4>1. c < b
        BY <1>1, <2>1, <2>3, <3>2
      <4>2. s[c].nth < s[b].nth
        BY <1>1, <4>1 DEF Sifted, Rising
      <4> QED BY <2>3, <3>2, <4>2
    <3> QED BY <1>3, <3>1, <3>2
  <2> QED BY <1>3, <2>2, <2>3
<1>6. Rising(f2)
  <2>1. SUFFICES ASSUME NEW i \in 1 .. F - k, NEW j \in 1 .. F - k, i < j PROVE f2[i].nth < f2[j].nth
    BY <1>2 DEF Rising
  <2>2. k + i \in 1 .. F /\ k + j \in 1 .. F /\ k + i < k + j /\ f2[i] = f[k + i] /\ f2[j] = f[k + j]
    BY <1>3, <2>1
  <2> QED BY <1>1, <2>2 DEF Behind, Rising
<1>7. Apart(g2, f2)
  <2>1. SUFFICES ASSUME NEW i \in 1 .. G + S, NEW j \in 1 .. F - k PROVE g2[i].nth < f2[j].nth
    BY <1>2 DEF Apart
  <2>2. k + j \in 1 .. F /\ f2[j] = f[k + j]
    BY <1>3
  <2>3. CASE i \in 1 .. G /\ g2[i] = g[i]
    BY <1>1, <2>2, <2>3 DEF Behind, Apart
  <2>4. ASSUME NEW c \in 1 .. S, g2[i] = s[c] PROVE g2[i].nth < f2[j].nth
    <3>1. PICK l \in 1 .. F : l <= k /\ s[c].nth = f[l].nth
      BY <1>3
    <3>2. l < k + j
      BY <3>1
    <3>3. f[l].nth < f[k + j].nth
      BY <1>1, <2>2, <3>2 DEF Behind, Rising
    <3> QED BY <2>2, <2>4, <3>1, <3>3
  <2> QED BY <1>3, <2>3, <2>4
<1>8. ASSUME NEW z, Apart(z, g), Apart(z, f) PROVE Apart(z, g2) /\ Apart(z, f2)
  <2>1. ASSUME NEW i \in 1 .. Len(z), NEW j \in 1 .. G + S PROVE z[i].nth < g2[j].nth
    <3>1. CASE j \in 1 .. G /\ g2[j] = g[j]
      BY <1>1, <1>8, <3>1 DEF Apart
    <3>2. ASSUME NEW c \in 1 .. S, g2[j] = s[c] PROVE z[i].nth < g2[j].nth
      <4>1. PICK l \in 1 .. F : s[c].nth = f[l].nth
        BY <1>3
      <4> QED BY <1>1, <1>8, <3>2, <4>1 DEF Apart
    <3> QED BY <1>3, <3>1, <3>2
  <2>2. ASSUME NEW i \in 1 .. Len(z), NEW j \in 1 .. F - k PROVE z[i].nth < f2[j].nth
    BY <1>1, <1>3, <1>8 DEF Apart
  <2> QED BY <1>2, <2>1, <2>2 DEF Apart
<1>9. ASSUME NEW z, Apart(g, z), Apart(f, z) PROVE Apart(g2, z) /\ Apart(f2, z)
  <2>1. ASSUME NEW j \in 1 .. Len(z), NEW i \in 1 .. G + S PROVE g2[i].nth < z[j].nth
    <3>1. CASE i \in 1 .. G /\ g2[i] = g[i]
      BY <1>1, <1>9, <3>1 DEF Apart
    <3>2. ASSUME NEW c \in 1 .. S, g2[i] = s[c] PROVE g2[i].nth < z[j].nth
      <4>1. PICK l \in 1 .. F : s[c].nth = f[l].nth
        BY <1>3
      <4> QED BY <1>1, <1>9, <3>2, <4>1 DEF Apart
    <3> QED BY <1>3, <3>1, <3>2
  <2>2. ASSUME NEW j \in 1 .. Len(z), NEW i \in 1 .. F - k PROVE f2[i].nth < z[j].nth
    BY <1>1, <1>3, <1>9 DEF Apart
  <2> QED BY <1>2, <2>1, <2>2 DEF Apart
<1> QED BY <1>5, <1>6, <1>7, <1>8, <1>9 DEF Behind, Beside

\* They still carry the phases sent.
LEMMA MovedPhases ==
  ASSUME NEW f, NEW g, NEW s, NEW k \in Nat, NEW f2, NEW g2, NEW turn \in Int,
         Numbered(f), Numbered(g), Numbered(s), k <= Len(f),
         Moved(f, g, s, k, f2, g2), Sifted(s, f, k, turn),
         NEW ph \in Seq(Phase), Carry(ph, 0, f), Carry(ph, turn, g)
  PROVE  Carry(ph, 0, f2) /\ Carry(ph, turn, g2)
<1>1. PICK F \in Nat, G \in Nat, S \in Nat, L \in Nat :
        F = Len(f) /\ G = Len(g) /\ S = Len(s) /\ k <= F /\ L = Len(ph)
  BY LenProperties DEF Numbered
<1>2. Len(g2) = G + S /\ Len(f2) = F - k
  BY <1>1 DEF Moved
<1>3. /\ \A i \in 1 .. G + S : (i \in 1 .. G /\ g2[i] = g[i]) \/ \E j \in 1 .. S : i = G + j /\ g2[i] = s[j]
      /\ \A i \in 1 .. F - k : k + i \in 1 .. F /\ f2[i] = f[k + i]
  <2>1. MovedItems(f, g, s, k, f2, g2)
    BY MovedFrom
  <2> QED BY <1>1, <1>2, <2>1 DEF MovedItems
<1>4. Carry(ph, 0, f2)
  BY <1>1, <1>2, <1>3 DEF Carry
<1>5. ASSUME NEW j \in 1 .. S PROVE s[j].nth < L /\ s[j].phase = Turn(ph[s[j].nth + 1] + turn)
  <2>1. PICK l \in 1 .. F : s[j].nth = f[l].nth /\ s[j].phase = Turn(f[l].phase + turn)
    <3>1. \A l \in 1 .. k : l \in 1 .. F
      BY <1>1
    <3> QED BY <1>1, <3>1 DEF Sifted
  <2>2. PICK x \in Nat : x = f[l].nth /\ x < L /\ f[l].phase = Turn(ph[x + 1] + 0)
    BY <1>1 DEF Numbered, Carry
  <2>3. PICK p \in Phase : p = ph[x + 1]
    <3>1. x + 1 \in 1 .. L
      BY <1>1, <2>2
    <3> QED BY <1>1, <3>1, LenProperties
  <2>4. Turn(Turn(p + 0) + turn) = Turn(p + turn)
    <3>1. p \in Int
      BY DEF Phase
    <3> QED BY <3>1, Turned
  <2> QED BY <2>1, <2>2, <2>3, <2>4
<1>6. \A i \in 1 .. G : g[i].nth < L /\ g[i].phase = Turn(ph[g[i].nth + 1] + turn)
  BY <1>1 DEF Carry
<1>7. \A i \in 1 .. G + S : g2[i].nth < L /\ g2[i].phase = Turn(ph[g2[i].nth + 1] + turn)
  BY <1>3, <1>5, <1>6
<1> QED BY <1>1, <1>2, <1>4, <1>7 DEF Carry

\* None of them is gone unless it was lost.
LEMMA MovedAll ==
  ASSUME NEW f, NEW g, NEW s, NEW k \in Nat, NEW f2, NEW g2, NEW turn, NEW gone,
         Numbered(f), Numbered(g), Numbered(s), k <= Len(f),
         Moved(f, g, s, k, f2, g2), Sifted(s, f, k, turn), Missed(s, f, k, gone)
  PROVE  /\ \A P : P \in Nths(g) => P \in Nths(g2)
         /\ \A P : P \in Nths(f) => P \in gone \/ P \in Nths(g2) \/ P \in Nths(f2)
         /\ \A P : Ahead(P, g) /\ Ahead(P, f) => Ahead(P, g2) /\ Ahead(P, f2)
<1>1. PICK F \in Nat, G \in Nat, S \in Nat : F = Len(f) /\ G = Len(g) /\ S = Len(s) /\ k <= F
  BY DEF Numbered
<1>2. Len(g2) = G + S /\ Len(f2) = F - k
  BY <1>1 DEF Moved
<1>3. /\ \A i \in 1 .. G + S : (i \in 1 .. G /\ g2[i] = g[i]) \/ \E j \in 1 .. S : i = G + j /\ g2[i] = s[j]
      /\ \A i \in 1 .. F - k : k + i \in 1 .. F /\ f2[i] = f[k + i]
      /\ \A i \in 1 .. S : \E l \in 1 .. F : l <= k /\ s[i].nth = f[l].nth
  <2>1. MovedItems(f, g, s, k, f2, g2)
    BY MovedFrom
  <2> QED BY <1>1, <1>2, <2>1 DEF MovedItems
<1>4. ASSUME NEW i \in 1 .. G PROVE g[i].nth \in Nths(g2)
  <2>1. i \in 1 .. G + S /\ g2[i] = g[i]
    BY <1>1 DEF Moved
  <2> QED BY <1>2, <2>1 DEF Nths
<1>5. ASSUME NEW i \in 1 .. S PROVE s[i].nth \in Nths(g2)
  <2>1. G + i \in 1 .. G + S /\ g2[G + i] = s[i]
    BY <1>1 DEF Moved
  <2> QED BY <1>2, <2>1 DEF Nths
<1>6. ASSUME NEW i \in 1 .. F PROVE f[i].nth \in gone \/ f[i].nth \in Nths(g2) \/ f[i].nth \in Nths(f2)
  <2>1. CASE i <= k
    <3>1. i \in 1 .. k
      BY <2>1
    <3>2. f[i].nth \in Nths(s) \/ f[i].nth \in gone
      BY <3>1 DEF Missed
    <3> QED BY <1>1, <1>5, <3>2 DEF Nths
  <2>2. CASE ~ (i <= k)
    <3>1. PICK j \in 1 .. F - k : i = k + j
      <4>1. i - k \in 1 .. F - k /\ i = k + (i - k)
        BY <1>1, <2>2
      <4> QED BY <4>1
    <3>2. f2[j] = f[i]
      BY <1>3, <3>1
    <3> QED BY <1>2, <3>2 DEF Nths
  <2> QED BY <2>1, <2>2
<1>7. ASSUME NEW P, Ahead(P, g), Ahead(P, f) PROVE Ahead(P, g2) /\ Ahead(P, f2)
  <2>1. \A i \in 1 .. S : P < s[i].nth
    BY <1>1, <1>3, <1>7 DEF Ahead
  <2>2. \A i \in 1 .. G + S : P < g2[i].nth
    BY <1>1, <1>3, <1>7, <2>1 DEF Ahead
  <2>3. \A i \in 1 .. F - k : P < f2[i].nth
    BY <1>1, <1>3, <1>7 DEF Ahead
  <2> QED BY <1>2, <2>2, <2>3 DEF Ahead
<1>8. \A P : P \in Nths(g) => P \in Nths(g2)
  BY <1>1, <1>4 DEF Nths
<1>9. \A P : P \in Nths(f) => P \in gone \/ P \in Nths(g2) \/ P \in Nths(f2)
  BY <1>1, <1>6 DEF Nths
<1> QED BY <1>7, <1>8, <1>9

\* A number in a stream is not ahead of it.
LEMMA NotAhead ==
  ASSUME NEW s, Numbered(s), NEW P \in Nths(s)
  PROVE  ~ Ahead(P, s)
<1>1. PICK i \in 1 .. Len(s) : P = s[i].nth
  BY DEF Nths
<1>2. P \in Nat
  BY <1>1 DEF Numbered
<1> QED BY <1>1, <1>2 DEF Ahead

\* What is behind a step of the stream: what was ahead of everything still is, and nothing
\* else becomes so unless it was lost.
Advanced(L, r, a, w, r2, a2, w2, gone2) ==
  /\ \A P \in Nat : AllAhead(P, r, a, w) => AllAhead(P, r2, a2, w2)
  /\ \A P \in Nat : P < L /\ AllAhead(P, r2, a2, w2) => AllAhead(P, r, a, w) \/ P \in gone2

\* A burst.
LEMMA TransmitComing ==
  ASSUME NEW ph \in Seq(Phase), NEW rot, NEW r, NEW a, NEW w, NEW gone,
         Coming(ph, rot, r, a, w, gone), NEW k \in Nat, k <= Len(w),
         NEW s \in Seq(Subchirp), Sifted(s, w, k, 0),
         NEW gone2, gone \subseteq gone2, Missed(s, w, k, gone2),
         NEW a2, a2 = a \o s, NEW w2, w2 = SubSeq(w, k + 1, Len(w))
  PROVE  /\ Coming(ph, rot, r, a2, w2, gone2)
         /\ Advanced(Len(ph), r, a, w, r, a2, w2, gone2)
<1>1. Numbered(r) /\ Numbered(a) /\ Numbered(w) /\ Numbered(s)
  BY SymbolsNumbered, SubchirpsNumbered DEF Coming
<1>2. a2 \in Seq(Subchirp) /\ w2 \in Seq(Subchirp) /\ Moved(w, a, s, k, w2, a2)
  <2>1. a \in Seq(Subchirp) /\ w \in Seq(Subchirp)
    BY DEF Coming
  <2>2. /\ a2 \in Seq(Subchirp) /\ Len(a2) = Len(a) + Len(s)
        /\ \A i \in 1 .. Len(a) : a2[i] = a[i]
        /\ \A i \in 1 .. Len(s) : a2[Len(a) + i] = s[i]
    BY <2>1, Concatenated
  <2>3. PICK W \in Nat : W = Len(w) /\ k <= W
    BY <1>1 DEF Numbered
  <2>4. /\ SubSeq(w, k + 1, W) \in Seq(Subchirp) /\ Len(SubSeq(w, k + 1, W)) = W - (k + 1) + 1
        /\ \A i \in 1 .. W - (k + 1) + 1 : SubSeq(w, k + 1, W)[i] = w[(k + 1) - 1 + i]
    <3>1. k + 1 \in Nat \ {0} /\ k + 1 <= W + 1
      BY <2>3
    <3> QED BY <2>1, <2>3, <3>1, Stretch
  <2>5. W - (k + 1) + 1 = W - k /\ \A i \in Nat : (k + 1) - 1 + i = k + i
    BY <2>3
  <2>6. w2 \in Seq(Subchirp) /\ Len(w2) = W - k /\ \A i \in 1 .. W - k : w2[i] = w[k + i]
    BY <2>3, <2>4, <2>5
  <2> QED BY <2>2, <2>3, <2>6 DEF Moved
<1>3. Behind(a, w) /\ Apart(r, a) /\ Apart(r, w)
  BY DEF Coming, Behind
<1>4. Behind(a2, w2)
  BY <1>1, <1>2, <1>3, MovedOrder
<1>5. Apart(r, a2) /\ Apart(r, w2)
  <2>1. Beside(w, a, w2, a2)
    BY <1>1, <1>2, <1>3, MovedOrder
  <2> QED BY <1>3, <2>1 DEF Beside
<1>6. Carry(ph, 0, a2) /\ Carry(ph, 0, w2)
  BY <1>1, <1>2, MovedPhases DEF Coming
<1>7. \A P : P \in Nths(a) => P \in Nths(a2)
  BY <1>1, <1>2, MovedAll
<1>8. \A P : P \in Nths(w) => P \in gone2 \/ P \in Nths(a2) \/ P \in Nths(w2)
  BY <1>1, <1>2, MovedAll
<1>9. \A P : Ahead(P, a) /\ Ahead(P, w) => Ahead(P, a2) /\ Ahead(P, w2)
  BY <1>1, <1>2, MovedAll
<1>10. \A P \in 0 .. Len(ph) - 1 :
         \/ P \in gone \/ P \in Nths(r) \/ P \in Nths(a) \/ P \in Nths(w) \/ AllAhead(P, r, a, w)
  BY DEF Coming, Accounted
<1>11. Accounted(Len(ph), r, a2, w2, gone2)
  BY <1>7, <1>8, <1>9, <1>10 DEF Accounted, AllAhead
<1>12. Numbered(a2) /\ Numbered(w2)
  BY <1>2, SubchirpsNumbered
<1>13. ASSUME NEW P \in Nat, P < Len(ph), AllAhead(P, r, a2, w2) PROVE AllAhead(P, r, a, w) \/ P \in gone2
  <2>1. P \in 0 .. Len(ph) - 1
    BY <1>13, LenProperties
  <2>2. ~ (P \in Nths(r)) /\ ~ (P \in Nths(a2)) /\ ~ (P \in Nths(w2))
    BY <1>1, <1>12, <1>13, NotAhead DEF AllAhead
  <2> QED BY <1>7, <1>8, <1>10, <2>1, <2>2
<1>14. Advanced(Len(ph), r, a, w, r, a2, w2, gone2)
  BY <1>9, <1>13 DEF Advanced, AllAhead
<1>15. Coming(ph, rot, r, a2, w2, gone2)
  BY <1>2, <1>4, <1>5, <1>6, <1>11 DEF Coming, Behind
<1> QED BY <1>14, <1>15

\* What the chirp detector hears.
LEMMA ListenComing ==
  ASSUME NEW ph \in Seq(Phase), NEW rot \in Int, NEW r, NEW a, NEW w, NEW gone,
         Coming(ph, rot, r, a, w, gone), NEW k \in Nat, k <= Len(a),
         NEW s \in Seq(Symbol), Sifted(s, a, k, rot),
         NEW gone2, gone \subseteq gone2, Missed(s, a, k, gone2),
         NEW r2, r2 = r \o s, NEW a2, a2 = SubSeq(a, k + 1, Len(a))
  PROVE  /\ Coming(ph, rot, r2, a2, w, gone2)
         /\ Advanced(Len(ph), r, a, w, r2, a2, w, gone2)
<1>1. Numbered(r) /\ Numbered(a) /\ Numbered(w) /\ Numbered(s)
  BY SymbolsNumbered, SubchirpsNumbered DEF Coming
<1>2. r2 \in Seq(Symbol) /\ a2 \in Seq(Subchirp) /\ Moved(a, r, s, k, a2, r2)
  <2>1. r \in Seq(Symbol) /\ a \in Seq(Subchirp)
    BY DEF Coming
  <2>2. /\ r2 \in Seq(Symbol) /\ Len(r2) = Len(r) + Len(s)
        /\ \A i \in 1 .. Len(r) : r2[i] = r[i]
        /\ \A i \in 1 .. Len(s) : r2[Len(r) + i] = s[i]
    BY <2>1, Concatenated
  <2>3. PICK W \in Nat : W = Len(a) /\ k <= W
    BY <1>1 DEF Numbered
  <2>4. /\ SubSeq(a, k + 1, W) \in Seq(Subchirp) /\ Len(SubSeq(a, k + 1, W)) = W - (k + 1) + 1
        /\ \A i \in 1 .. W - (k + 1) + 1 : SubSeq(a, k + 1, W)[i] = a[(k + 1) - 1 + i]
    <3>1. k + 1 \in Nat \ {0} /\ k + 1 <= W + 1
      BY <2>3
    <3> QED BY <2>1, <2>3, <3>1, Stretch
  <2>5. W - (k + 1) + 1 = W - k /\ \A i \in Nat : (k + 1) - 1 + i = k + i
    BY <2>3
  <2>6. a2 \in Seq(Subchirp) /\ Len(a2) = W - k /\ \A i \in 1 .. W - k : a2[i] = a[k + i]
    BY <2>3, <2>4, <2>5
  <2> QED BY <2>2, <2>3, <2>6 DEF Moved
<1>3. Behind(r, a) /\ Apart(r, w) /\ Apart(a, w)
  BY DEF Coming, Behind
<1>4. Behind(r2, a2)
  BY <1>1, <1>2, <1>3, MovedOrder
<1>5. Apart(r2, w) /\ Apart(a2, w)
  <2>1. Beside(a, r, a2, r2)
    BY <1>1, <1>2, <1>3, MovedOrder
  <2> QED BY <1>3, <2>1 DEF Beside
<1>6. Carry(ph, rot, r2) /\ Carry(ph, 0, a2)
  BY <1>1, <1>2, MovedPhases DEF Coming
<1>7. \A P : P \in Nths(r) => P \in Nths(r2)
  BY <1>1, <1>2, MovedAll
<1>8. \A P : P \in Nths(a) => P \in gone2 \/ P \in Nths(r2) \/ P \in Nths(a2)
  BY <1>1, <1>2, MovedAll
<1>9. \A P : Ahead(P, r) /\ Ahead(P, a) => Ahead(P, r2) /\ Ahead(P, a2)
  BY <1>1, <1>2, MovedAll
<1>10. \A P \in 0 .. Len(ph) - 1 :
         \/ P \in gone \/ P \in Nths(r) \/ P \in Nths(a) \/ P \in Nths(w) \/ AllAhead(P, r, a, w)
  BY DEF Coming, Accounted
<1>11. Accounted(Len(ph), r2, a2, w, gone2)
  BY <1>7, <1>8, <1>9, <1>10 DEF Accounted, AllAhead
<1>12. Numbered(r2) /\ Numbered(a2)
  BY <1>2, SubchirpsNumbered, SymbolsNumbered
<1>13. ASSUME NEW P \in Nat, P < Len(ph), AllAhead(P, r2, a2, w) PROVE AllAhead(P, r, a, w) \/ P \in gone2
  <2>1. P \in 0 .. Len(ph) - 1
    BY <1>13, LenProperties
  <2>2. ~ (P \in Nths(r2)) /\ ~ (P \in Nths(a2)) /\ ~ (P \in Nths(w))
    BY <1>1, <1>12, <1>13, NotAhead DEF AllAhead
  <2> QED BY <1>7, <1>8, <1>10, <2>1, <2>2
<1>14. Advanced(Len(ph), r, a, w, r2, a2, w, gone2)
  BY <1>9, <1>13 DEF Advanced, AllAhead
<1>15. Coming(ph, rot, r2, a2, w, gone2)
  BY <1>2, <1>4, <1>5, <1>6, <1>11 DEF Coming, Behind
<1> QED BY <1>14, <1>15

\* What the frame buffer takes: only what it takes is no longer there.
LEMMA DropComing ==
  ASSUME NEW ph \in Seq(Phase), NEW rot, NEW r, NEW a, NEW w, NEW gone,
         Coming(ph, rot, r, a, w, gone), NEW k \in Nat, k <= Len(r),
         NEW r2, r2 \in Seq(Symbol), Len(r2) = Len(r) - k, \A i \in 1 .. Len(r) - k : r2[i] = r[k + i]
  PROVE  /\ Coming(ph, rot, r2, a, w, gone)
         /\ \A P \in Nat : AllAhead(P, r, a, w) => AllAhead(P, r2, a, w)
         /\ \A P \in Nat : P < Len(ph) /\ AllAhead(P, r2, a, w) =>
              AllAhead(P, r, a, w) \/ P \in gone \/ \E i \in 1 .. Len(r) : i <= k /\ P = r[i].nth
         /\ \A i \in 1 .. Len(r) : i <= k => AllAhead(r[i].nth, r2, a, w)
<1>1. Numbered(r) /\ Numbered(a) /\ Numbered(w) /\ Numbered(r2)
  BY SymbolsNumbered, SubchirpsNumbered DEF Coming
<1>2. PICK n \in Nat, L \in Nat : n = Len(r) /\ L = Len(ph) /\ k <= n
  BY <1>1, LenProperties DEF Numbered
<1>3. \A i \in 1 .. n - k : k + i \in 1 .. n /\ r2[i] = r[k + i]
  BY <1>2
<1>4. Rising(r2)
  <2>1. SUFFICES ASSUME NEW i \in 1 .. n - k, NEW j \in 1 .. n - k, i < j PROVE r2[i].nth < r2[j].nth
    BY <1>2 DEF Rising
  <2>2. k + i \in 1 .. n /\ k + j \in 1 .. n /\ k + i < k + j
    BY <1>3, <2>1
  <2> QED BY <1>2, <1>3, <2>2 DEF Coming, Rising
<1>5. Apart(r2, a) /\ Apart(r2, w)
  BY <1>2, <1>3 DEF Coming, Apart
<1>6. Carry(ph, rot, r2)
  <2>1. \A i \in 1 .. n : r[i].nth < L /\ r[i].phase = Turn(ph[r[i].nth + 1] + rot)
    BY <1>2 DEF Coming, Carry
  <2>2. \A i \in 1 .. n - k : r2[i].nth < L /\ r2[i].phase = Turn(ph[r2[i].nth + 1] + rot)
    BY ZenonT(60), <1>3, <2>1
  <2> QED BY <1>2, <2>2 DEF Carry
<1>7. ASSUME NEW i \in 1 .. n, i <= k PROVE AllAhead(r[i].nth, r2, a, w)
  <2>1. \A j \in 1 .. n - k : r[i].nth < r2[j].nth
    <3>1. SUFFICES ASSUME NEW j \in 1 .. n - k PROVE r[i].nth < r2[j].nth
      OBVIOUS
    <3>2. k + j \in 1 .. n /\ i < k + j /\ r2[j] = r[k + j]
      BY <1>3, <1>7
    <3> QED BY <1>2, <3>2 DEF Coming, Rising
  <2> QED BY <1>2, <2>1 DEF Coming, Apart, AllAhead, Ahead
<1>8. ASSUME NEW P, P \in Nths(r) PROVE P \in Nths(r2) \/ \E i \in 1 .. n : i <= k /\ P = r[i].nth
  <2>1. PICK i \in 1 .. n : P = r[i].nth
    BY <1>2, <1>8 DEF Nths
  <2>2. CASE ~ (i <= k)
    <3>1. PICK j \in 1 .. n - k : i = k + j
      <4>1. i - k \in 1 .. n - k /\ i = k + (i - k)
        BY <1>2, <2>2
      <4> QED BY <4>1
    <3> QED BY <1>2, <1>3, <2>1, <3>1 DEF Nths
  <2> QED BY <2>1, <2>2
<1>9. ASSUME NEW P, AllAhead(P, r, a, w) PROVE AllAhead(P, r2, a, w)
  BY <1>2, <1>3, <1>9 DEF AllAhead, Ahead
<1>10. \A P \in 0 .. L - 1 :
         \/ P \in gone \/ P \in Nths(r) \/ P \in Nths(a) \/ P \in Nths(w) \/ AllAhead(P, r, a, w)
  BY <1>2 DEF Coming, Accounted
<1>11. Accounted(L, r2, a, w, gone)
  BY <1>7, <1>8, <1>9, <1>10 DEF Accounted
<1>12. ASSUME NEW P \in Nat, P < L, AllAhead(P, r2, a, w)
       PROVE  AllAhead(P, r, a, w) \/ P \in gone \/ \E i \in 1 .. n : i <= k /\ P = r[i].nth
  <2>1. P \in 0 .. L - 1
    BY <1>12
  <2>2. ~ (P \in Nths(r2)) /\ ~ (P \in Nths(a)) /\ ~ (P \in Nths(w))
    BY <1>1, <1>12, NotAhead DEF AllAhead
  <2> QED BY <1>8, <1>10, <2>1, <2>2
<1>13. Coming(ph, rot, r2, a, w, gone)
  BY <1>2, <1>4, <1>5, <1>6, <1>11 DEF Coming
<1> QED BY <1>2, <1>7, <1>9, <1>12, <1>13

-----------------------------------------------------------------------------
(***************************************************************************)
(* Items picked from a sequence, in their order.                           *)
(***************************************************************************)

\* The items of p are some of the first k of s, in their order: item i is the one at g[i].
DrawnAt(p, s, k, g) ==
  /\ \A i \in 1 .. Len(p) : g[i] \in 1 .. k /\ p[i] = s[g[i]]
  /\ \A i, j \in 1 .. Len(p) : i < j => g[i] < g[j]
Drawn(p, s, k) == \E g : DrawnAt(p, s, k, g)

\* Nothing is drawn from a sequence by none of its places.
LEMMA NoneDrawn ==
  ASSUME NEW s
  PROVE  Drawn(<< >>, s, 0)
<1> DEFINE g == [i \in 1 .. 0 |-> 0]
<1>1. DrawnAt(<< >>, s, 0, g)
  BY DEF DrawnAt
<1> HIDE DEF g
<1> QED BY <1>1 DEF Drawn

\* One item more is taken or passed over.
LEMMA DrawnOn ==
  ASSUME NEW S, NEW p \in Seq(S), NEW s, NEW k \in Nat, Drawn(p, s, k)
  PROVE  /\ Drawn(p, s, k + 1)
         /\ \A x \in S : x = s[k + 1] => Drawn(p \o <<x>>, s, k + 1)
<1>1. PICK g : DrawnAt(p, s, k, g)
  BY DEF Drawn
<1>2. PICK n \in Nat : n = Len(p)
  BY LenProperties
<1>3. /\ \A i \in 1 .. n : g[i] \in 1 .. k /\ p[i] = s[g[i]]
      /\ \A i, j \in 1 .. n : i < j => g[i] < g[j]
  BY <1>1, <1>2 DEF DrawnAt
<1>4. \A i \in 1 .. n : g[i] \in 1 .. k + 1
  BY <1>3
<1>5. DrawnAt(p, s, k + 1, g)
  BY <1>2, <1>3, <1>4 DEF DrawnAt
<1>6. ASSUME NEW x \in S, x = s[k + 1] PROVE Drawn(p \o <<x>>, s, k + 1)
  <2>1. PICK q : q = p \o <<x>>
    OBVIOUS
  <2>2. Len(q) = n + 1 /\ (\A i \in 1 .. n : q[i] = p[i]) /\ q[n + 1] = x
    BY <1>2, <2>1, OneItemMore
  <2> DEFINE h == [i \in 1 .. n + 1 |-> IF i = n + 1 THEN k + 1 ELSE g[i]]
  <2>3. h[n + 1] = k + 1 /\ \A i \in 1 .. n : h[i] = g[i]
    BY <1>2
  <2> HIDE DEF h
  <2>4. ASSUME NEW i \in 1 .. n + 1 PROVE h[i] \in 1 .. k + 1 /\ q[i] = s[h[i]]
    <3>1. CASE i = n + 1
      BY <1>6, <2>2, <2>3, <3>1
    <3>2. CASE i \in 1 .. n
      BY <1>3, <1>4, <2>2, <2>3, <3>2
    <3> QED BY <1>2, <3>1, <3>2
  <2>5. ASSUME NEW i \in 1 .. n + 1, NEW j \in 1 .. n + 1, i < j PROVE h[i] < h[j]
    <3>1. i \in 1 .. n
      BY <1>2, <2>5
    <3>2. CASE j = n + 1
      BY <1>3, <2>3, <3>1, <3>2
    <3>3. CASE j \in 1 .. n
      BY <1>3, <2>3, <2>5, <3>1, <3>3
    <3> QED BY <1>2, <3>2, <3>3
  <2>6. DrawnAt(q, s, k + 1, h)
    BY <2>2, <2>4, <2>5 DEF DrawnAt
  <2> QED BY <2>1, <2>6 DEF Drawn
<1> QED BY <1>5, <1>6 DEF Drawn

PickedTrace(S, s, places, u) ==
  /\ u[0] = << >>
  /\ \A i \in 1 .. Len(s) : u[i] = u[i - 1] \o (IF i \in places THEN <<s[i]>> ELSE << >>)
  /\ \A i \in 0 .. Len(s) : u[i] \in Seq(S)

\* Picked, item by item.
LEMMA PickedSteps ==
  ASSUME NEW S, NEW s \in Seq(S), NEW places
  PROVE  \E u : PickedTrace(S, s, places, u) /\ Picked(s, places) = u[Len(s)]
<1> DEFINE N == Len(s)
           X == Seq(S)
           x0 == << >>
           After(r, k) == r \o (IF k \in places THEN <<s[k]>> ELSE << >>)
           h == [k \in 1 .. N |-> [r \in X |-> After(r, k)]]
           Body(f) == [k \in 0 .. N |-> IF k = 0 THEN x0 ELSE After(f[k - 1], k)]
           u == CHOOSE f : f = Body(f)
<1>1. N \in Nat /\ x0 \in X /\ \A k \in 1 .. N : s[k] \in S
  BY LenProperties
<1>2. ASSUME NEW r \in X, NEW k \in 1 .. N PROVE After(r, k) \in X
  <2>1. <<s[k]>> \in Seq(S) /\ << >> \in Seq(S)
    BY <1>1
  <2>2. PICK t \in Seq(S) : t = IF k \in places THEN <<s[k]>> ELSE << >>
    BY <2>1
  <2>3. r \o t \in Seq(S)
    BY Concatenated
  <2> QED BY <2>2, <2>3
<1>3. Picked(s, places) = u[N]
  BY DEF Picked
<1> HIDE DEF X, x0, After
<1>4. h \in [1 .. N -> [X -> X]]
  BY <1>2
<1> HIDE DEF h, N
<1>5. PICK g : Iterated(N, X, x0, h, g)
  BY <1>1, <1>4, Iterates
<1>6. g = Body(g)
  <2>1. g \in [0 .. N -> X] /\ g[0] = x0
    BY <1>5 DEF Iterated
  <2>2. ASSUME NEW k \in 1 .. N PROVE g[k] = After(g[k - 1], k)
    <3>1. g[k - 1] \in X /\ g[k] = h[k][g[k - 1]]
      BY <1>1, <1>5 DEF Iterated
    <3> QED BY <3>1 DEF h
  <2>3. \A k \in 0 .. N : g[k] = IF k = 0 THEN x0 ELSE After(g[k - 1], k)
    BY <1>1, <2>1, <2>2
  <2> QED BY <2>1, <2>3
<1>7. u = Body(u)
  <2> HIDE DEF Body
  <2> QED BY <1>6, Zenon
<1> HIDE DEF u
<1>8. u[0] = x0 /\ \A k \in 1 .. N : u[k] = After(u[k - 1], k)
  BY <1>1, <1>7
<1>9. \A k \in 0 .. N : u[k] \in X
  BY <1>1, <1>2, <1>8, Throughout
<1>10. PickedTrace(S, s, places, u)
  BY <1>8, <1>9 DEF PickedTrace, After, x0, X, N
<1> QED BY <1>3, <1>10 DEF N

\* What is picked are items of the sequence, in their order.
LEMMA PickedDrawn ==
  ASSUME NEW S, NEW s \in Seq(S), NEW places
  PROVE  Picked(s, places) \in Seq(S) /\ Drawn(Picked(s, places), s, Len(s))
<1>1. PICK u : PickedTrace(S, s, places, u) /\ Picked(s, places) = u[Len(s)]
  BY PickedSteps
<1>2. PICK N \in Nat : N = Len(s)
  BY LenProperties
<1>3. \A i \in 1 .. N : s[i] \in S
  BY <1>2, LenProperties
<1> DEFINE P == {k \in Nat : k <= N => Drawn(u[k], s, k)}
<1>4. 0 \in P
  BY <1>1, NoneDrawn DEF PickedTrace
<1>5. ASSUME NEW k \in Nat, k \in P PROVE k + 1 \in P
  <2>1. SUFFICES ASSUME k + 1 <= N PROVE Drawn(u[k + 1], s, k + 1)
    OBVIOUS
  <2>2. k + 1 \in 1 .. N /\ (k + 1) - 1 = k /\ k \in 0 .. N /\ Drawn(u[k], s, k)
    BY <1>5, <2>1
  <2>3. PICK p \in Seq(S) : p = u[k]
    BY <1>1, <1>2, <2>2 DEF PickedTrace
  <2>4. u[k + 1] = p \o (IF k + 1 \in places THEN <<s[k + 1]>> ELSE << >>)
    BY <1>1, <1>2, <2>2, <2>3 DEF PickedTrace
  <2>5. PICK x \in S : x = s[k + 1]
    BY <1>3, <2>2
  <2>6. Drawn(p, s, k + 1) /\ Drawn(p \o <<x>>, s, k + 1)
    BY <2>2, <2>3, <2>5, DrawnOn
  <2>7. p \o << >> = p
    BY ConcatEmptySeq
  <2> QED BY <2>4, <2>5, <2>6, <2>7
<1> HIDE DEF P
<1>6. Nat \subseteq P
  BY <1>4, <1>5, InductiveSet
<1>7. Drawn(u[N], s, N)
  BY <1>6 DEF P
<1>8. u[N] \in Seq(S)
  BY <1>1, <1>2 DEF PickedTrace
<1> QED BY <1>1, <1>2, <1>7, <1>8

\* Places that follow each other.
LEMMA PickedStretch ==
  ASSUME NEW S, NEW s \in Seq(S), NEW places, NEW from \in Nat, NEW to \in Nat, from <= to, to <= Len(s),
         \A i \in 1 .. Len(s) : i \in places <=> (from < i /\ i <= to)
  PROVE  Picked(s, places) = SubSeq(s, from + 1, to)
<1>1. PICK u : PickedTrace(S, s, places, u) /\ Picked(s, places) = u[Len(s)]
  BY PickedSteps
<1>2. PICK N \in Nat : N = Len(s) /\ to <= N
  BY LenProperties
<1>3. \A i \in 1 .. N : s[i] \in S
  BY <1>2, LenProperties
<1> DEFINE Upto(k) == IF k <= from THEN 0 ELSE IF k <= to THEN k - from ELSE to - from
           P == {k \in Nat : k <= N => Len(u[k]) = Upto(k) /\ \A j \in 1 .. Upto(k) : u[k][j] = s[from + j]}
<1>4. 0 \in P
  <2>1. Upto(0) = 0 /\ Len(<< >>) = 0
    OBVIOUS
  <2> QED BY <1>1, <2>1 DEF PickedTrace
<1>5. ASSUME NEW k \in Nat, k \in P PROVE k + 1 \in P
  <2>1. SUFFICES ASSUME k + 1 <= N
                 PROVE  Len(u[k + 1]) = Upto(k + 1) /\ \A j \in 1 .. Upto(k + 1) : u[k + 1][j] = s[from + j]
    OBVIOUS
  <2>2. k + 1 \in 1 .. N /\ (k + 1) - 1 = k /\ k \in 0 .. N
    BY <2>1
  <2>3. PICK p \in Seq(S) : p = u[k]
    BY <1>1, <1>2, <2>2 DEF PickedTrace
  <2>4. u[k + 1] = p \o (IF k + 1 \in places THEN <<s[k + 1]>> ELSE << >>)
    BY <1>1, <1>2, <2>2, <2>3 DEF PickedTrace
  <2>5. PICK n \in Nat : n = Upto(k)
    <3>1. Upto(k) \in Nat
      OBVIOUS
    <3> QED BY <3>1
  <2>6. Len(p) = n /\ \A j \in 1 .. n : p[j] = s[from + j]
    BY <1>5, <2>1, <2>3, <2>5
  <2>7. CASE k + 1 \in places
    <3>1. from < k + 1 /\ k + 1 <= to
      BY <1>2, <2>2, <2>7
    <3>2. n = k - from /\ Upto(k + 1) = n + 1 /\ from + (n + 1) = k + 1
      BY <2>5, <3>1
    <3>3. PICK x \in S : x = s[k + 1]
      BY <1>3, <2>2
    <3>4. PICK q : q = p \o <<x>>
      OBVIOUS
    <3>5. Len(q) = n + 1 /\ (\A j \in 1 .. n : q[j] = p[j]) /\ q[n + 1] = x
      BY SMTT(60), <2>6, <3>4, OneItemMore
    <3>6. u[k + 1] = q
      BY <2>4, <2>7, <3>3, <3>4
    <3>7. ASSUME NEW j \in 1 .. n + 1 PROVE q[j] = s[from + j]
      <4>1. CASE j = n + 1
        BY <3>2, <3>3, <3>5, <4>1
      <4>2. CASE j \in 1 .. n
        BY <2>6, <3>5, <4>2
      <4> QED BY <4>1, <4>2
    <3> HIDE DEF Upto
    <3> QED BY <3>2, <3>5, <3>6, <3>7
  <2>8. CASE k + 1 \notin places
    <3>1. ~ (from < k + 1 /\ k + 1 <= to)
      BY <1>2, <2>2, <2>8
    <3>2. Upto(k + 1) = n
      BY <2>5, <3>1
    <3>3. u[k + 1] = p
      BY <2>4, <2>8, ConcatEmptySeq
    <3> HIDE DEF Upto
    <3> QED BY <2>6, <3>2, <3>3
  <2> QED BY <2>7, <2>8
<1> HIDE DEF P
<1>6. Nat \subseteq P
  BY <1>4, <1>5, InductiveSet
<1>7. Upto(N) = to - from
  BY <1>2
<1>8. Len(u[N]) = to - from /\ \A j \in 1 .. to - from : u[N][j] = s[from + j]
  <2> HIDE DEF Upto
  <2> QED BY SMTT(60), <1>6, <1>7 DEF P
<1>9. u[N] \in Seq(S)
  BY <1>1, <1>2 DEF PickedTrace
<1>10. PICK t : t = SubSeq(s, from + 1, to)
  OBVIOUS
<1>11. t \in Seq(S) /\ Len(t) = to - (from + 1) + 1 /\ \A i \in 1 .. to - (from + 1) + 1 : t[i] = s[(from + 1) - 1 + i]
  <2>1. from + 1 \in Nat \ {0} /\ from + 1 <= to + 1
    OBVIOUS
  <2> QED BY <1>2, <1>10, <2>1, Stretch
<1>12. to - (from + 1) + 1 = to - from /\ \A i \in Nat : (from + 1) - 1 + i = from + i
  OBVIOUS
<1>13. Len(t) = to - from /\ \A i \in 1 .. to - from : t[i] = s[from + i]
  <2>1. Len(t) = to - from
    BY <1>11, <1>12
  <2>2. ASSUME NEW i \in 1 .. to - from PROVE t[i] = s[from + i]
    <3>1. i \in 1 .. to - (from + 1) + 1 /\ (from + 1) - 1 + i = from + i
      OBVIOUS
    <3> QED BY <1>11, <3>1
  <2> QED BY <2>1, <2>2
<1>14. u[N] = t
  BY <1>8, <1>9, <1>11, <1>13, SeqEqual
<1> QED BY <1>1, <1>2, <1>10, <1>14

-----------------------------------------------------------------------------
(***************************************************************************)
(* Chirps made and detected.                                               *)
(***************************************************************************)
Detectors == [tracking : BOOLEAN, pos : Int, sub : Nat, chirp : Int]
Counters == [sym : Nat, sub : Nat, chirp : Nat, pos : Int, nth : Nat]

\* A step of the detector puts out the subchirp or nothing.
LEMMA DetectorType ==
  ASSUME NEW y, Timed(y), NEW d \in Detectors, NEW s \in Subchirp
  PROVE  /\ DetectorStep(y, d, s).state \in Detectors
         /\ DetectorStep(y, d, s).out \in Seq(Subchirp)
         /\ DetectorStep(y, d, s).out = <<s>> \/ DetectorStep(y, d, s).out = << >>
<1>1. NSub \in Int /\ y.gap1 \in Int /\ y.gap2 \in Int /\ s.at \in Int
  BY CssAssumption DEF Timed, Subchirp
<1>2. \A z \in Int : Searching(z) \in Detectors
  BY DEF Searching, Detectors
<1>3. ASSUME NEW n \in Detectors PROVE Found(y, n, s.at) \in Detectors
  <2>1. n.sub \in Nat /\ n.chirp \in Int
    BY DEF Detectors
  <2>2. PICK gap \in Int :
          gap = IF ~(n.sub + 1 = NSubchirps) THEN 0 ELSE IF n.chirp = 0 THEN y.gap1 ELSE y.gap2
    BY <1>1
  <2>3. s.at + NSub + gap \in Int /\ n.sub + 1 \in Nat /\ 1 - n.chirp \in Int
    BY <1>1, <2>1
  <2> QED BY <2>1, <2>2, <2>3 DEF Found, Detectors
<1>4. PICK n \in Detectors :
        n = IF d.tracking /\ (d.pos < s.at \/ (d.pos = s.at /\ d.sub # s.sub))
            THEN Searching(d.pos + 1) ELSE d
  <2>1. d.pos + 1 \in Int
    BY DEF Detectors
  <2> QED BY <1>2, <2>1
<1>5. PICK hit \in BOOLEAN : hit = IF n.tracking THEN n.pos = s.at ELSE n.pos <= s.at /\ s.sub = 0
  <2>1. n.tracking \in BOOLEAN
    BY DEF Detectors
  <2> QED BY <2>1
<1>6. DetectorStep(y, d, s) = [state |-> IF hit THEN Found(y, n, s.at) ELSE n,
                               out |-> IF hit THEN <<s>> ELSE << >>]
  BY <1>4, <1>5 DEF DetectorStep
<1>7. <<s>> \in Seq(Subchirp) /\ << >> \in Seq(Subchirp)
  OBVIOUS
<1> QED BY <1>3, <1>6, <1>7

\* A step of the mapper puts out one subchirp, and the next one comes later.
LEMMA DqcskType ==
  ASSUME NEW y, Timed(y), NEW s \in Counters, NEW x \in Phase
  PROVE  /\ DqcskStep(y, s, x).state \in Counters
         /\ DqcskStep(y, s, x).state.nth = s.nth + 1
         /\ DqcskStep(y, s, x).state.pos > s.pos
         /\ DqcskStep(y, s, x).out \in Seq(Subchirp)
         /\ \E c \in Subchirp : /\ DqcskStep(y, s, x).out = <<c>>
                                 /\ c.at = s.pos /\ c.phase = x /\ c.nth = s.nth
<1>1. NSub \in Nat \ {0} /\ y.gap1 \in Nat /\ y.gap2 \in Nat
  BY CssAssumption DEF Timed
<1>2. s.sym \in Nat /\ s.sub \in Nat /\ s.chirp \in Nat /\ s.pos \in Int /\ s.nth \in Nat
  BY DEF Counters
<1>3. PICK gap \in Nat : gap = IF ~(s.sub + 1 = 4) THEN 0 ELSE IF s.chirp = 0 THEN y.gap1 ELSE y.gap2
  BY <1>1
<1>4. PICK c : c = [at |-> s.pos, sub |-> s.sub, phase |-> x, nth |-> s.nth]
  OBVIOUS
<1>5. c \in Subchirp /\ c.at = s.pos /\ c.phase = x /\ c.nth = s.nth
  BY <1>2, <1>4 DEF Subchirp
<1>6. DqcskStep(y, s, x).out = <<c>>
  BY <1>4 DEF DqcskStep
<1>7. <<c>> \in Seq(Subchirp)
  BY <1>5
<1>8. PICK t : t = DqcskStep(y, s, x).state
  OBVIOUS
<1>9. /\ t.pos = s.pos + NSub + gap /\ t.nth = s.nth + 1
      /\ t.sym \in {0, s.sym + 1} /\ t.sub \in {0, s.sub + 1}
      /\ t.chirp \in {0, (s.chirp + 1) % 2, s.chirp}
      /\ t = [sym |-> t.sym, sub |-> t.sub, chirp |-> t.chirp, pos |-> t.pos, nth |-> t.nth]
  BY <1>3, <1>8 DEF DqcskStep
<1>10. s.pos + NSub + gap \in Int /\ s.pos + NSub + gap > s.pos
  BY <1>1, <1>2
<1>11. s.sym + 1 \in Nat /\ s.sub + 1 \in Nat /\ (s.chirp + 1) % 2 \in Nat /\ s.nth + 1 \in Nat
  BY <1>2
<1>12. t.sym \in Nat /\ t.sub \in Nat /\ t.chirp \in Nat /\ t.pos \in Int /\ t.nth \in Nat
  BY <1>2, <1>9, <1>10, <1>11
<1>13. t \in Counters
  BY <1>9, <1>12 DEF Counters
<1> QED BY <1>5, <1>6, <1>7, <1>8, <1>9, <1>10, <1>13

\* multiuser_chirp_detector_cc on a stream.
RunDetector(y, s0, in) == Run(LAMBDA d, s : DetectorStep(y, d, s), s0, in)

DetectorTrace(y, s0, in, u) ==
  /\ u[0] = [out |-> << >>, state |-> s0]
  /\ \A k \in 1 .. Len(in) :
       LET next == DetectorStep(y, u[k - 1].state, in[k])
       IN  u[k] = [out |-> u[k - 1].out \o next.out, state |-> next.state]
  /\ \A k \in 0 .. Len(in) : u[k] \in Results(Subchirp, Detectors)

\* Its work() on a stream, item by item.
LEMMA DetectorRun ==
  ASSUME NEW y, Timed(y), NEW s0 \in Detectors, NEW in \in Seq(Subchirp)
  PROVE  \E u : /\ DetectorTrace(y, s0, in, u)
                /\ RunDetector(y, s0, in) = u[Len(in)]
<1> DEFINE N == Len(in)
           X == Results(Subchirp, Detectors)
           x0 == [out |-> << >>, state |-> s0]
           After(r, k) == LET next == DetectorStep(y, r.state, in[k])
                          IN  [out |-> r.out \o next.out, state |-> next.state]
           h == [k \in 1 .. N |-> [r \in X |-> After(r, k)]]
           Body(f) == [k \in 0 .. N |-> IF k = 0 THEN x0 ELSE After(f[k - 1], k)]
           u == CHOOSE f : f = Body(f)
<1>1. N \in Nat /\ x0 \in X /\ \A k \in 1 .. N : in[k] \in Subchirp
  BY LenProperties DEF Results
<1>2. ASSUME NEW r \in X, NEW k \in 1 .. N PROVE After(r, k) \in X
  <2>1. r.out \in Seq(Subchirp) /\ r.state \in Detectors
    BY DEF Results
  <2>2. PICK d : d = DetectorStep(y, r.state, in[k])
    OBVIOUS
  <2>3. d.out \in Seq(Subchirp) /\ d.state \in Detectors
    BY <1>1, <2>1, <2>2, DetectorType
  <2>4. r.out \o d.out \in Seq(Subchirp)
    BY <2>1, <2>3, Concatenated
  <2> QED BY <2>2, <2>3, <2>4 DEF Results
<1>3. RunDetector(y, s0, in) = u[N]
  BY DEF RunDetector, Run
<1> HIDE DEF X, x0, After
<1>4. h \in [1 .. N -> [X -> X]]
  BY <1>2
<1> HIDE DEF h, N
<1>5. PICK g : Iterated(N, X, x0, h, g)
  BY <1>1, <1>4, Iterates
<1>6. g = Body(g)
  <2>1. g \in [0 .. N -> X] /\ g[0] = x0
    BY <1>5 DEF Iterated
  <2>2. ASSUME NEW k \in 1 .. N PROVE g[k] = After(g[k - 1], k)
    <3>1. g[k - 1] \in X /\ g[k] = h[k][g[k - 1]]
      BY <1>1, <1>5 DEF Iterated
    <3> QED BY <3>1 DEF h
  <2>3. \A k \in 0 .. N : g[k] = IF k = 0 THEN x0 ELSE After(g[k - 1], k)
    BY <1>1, <2>1, <2>2
  <2> QED BY <2>1, <2>3
<1>7. u = Body(u)
  <2> HIDE DEF Body
  <2> QED BY <1>6, Zenon
<1> HIDE DEF u
<1>8. u[0] = x0 /\ \A k \in 1 .. N : u[k] = After(u[k - 1], k)
  BY <1>1, <1>7
<1>9. \A k \in 0 .. N : u[k] \in X
  BY <1>1, <1>2, <1>8, Throughout
<1>10. DetectorTrace(y, s0, in, u)
  BY <1>8, <1>9 DEF DetectorTrace, After, x0, X, N
<1> QED BY <1>3, <1>10 DEF N

\* dqcsk_mapper_fc on a stream.
RunDqcsk(y, s0, in) == Run(LAMBDA s, x : DqcskStep(y, s, x), s0, in)

DqcskTrace(y, s0, in, u) ==
  /\ u[0] = [out |-> << >>, state |-> s0]
  /\ \A k \in 1 .. Len(in) :
       LET next == DqcskStep(y, u[k - 1].state, in[k])
       IN  u[k] = [out |-> u[k - 1].out \o next.out, state |-> next.state]
  /\ \A k \in 0 .. Len(in) : u[k] \in Results(Subchirp, Counters)

\* Its work() on a stream, item by item.
LEMMA DqcskRun ==
  ASSUME NEW y, Timed(y), NEW s0 \in Counters, NEW in \in Seq(Phase)
  PROVE  \E u : /\ DqcskTrace(y, s0, in, u)
                /\ RunDqcsk(y, s0, in) = u[Len(in)]
<1> DEFINE N == Len(in)
           X == Results(Subchirp, Counters)
           x0 == [out |-> << >>, state |-> s0]
           After(r, k) == LET next == DqcskStep(y, r.state, in[k])
                          IN  [out |-> r.out \o next.out, state |-> next.state]
           h == [k \in 1 .. N |-> [r \in X |-> After(r, k)]]
           Body(f) == [k \in 0 .. N |-> IF k = 0 THEN x0 ELSE After(f[k - 1], k)]
           u == CHOOSE f : f = Body(f)
<1>1. N \in Nat /\ x0 \in X /\ \A k \in 1 .. N : in[k] \in Phase
  BY LenProperties DEF Results
<1>2. ASSUME NEW r \in X, NEW k \in 1 .. N PROVE After(r, k) \in X
  <2>1. r.out \in Seq(Subchirp) /\ r.state \in Counters
    BY DEF Results
  <2>2. PICK d : d = DqcskStep(y, r.state, in[k])
    OBVIOUS
  <2>3. d.out \in Seq(Subchirp) /\ d.state \in Counters
    BY <1>1, <2>1, <2>2, DqcskType
  <2>4. r.out \o d.out \in Seq(Subchirp)
    BY <2>1, <2>3, Concatenated
  <2> QED BY <2>2, <2>3, <2>4 DEF Results
<1>3. RunDqcsk(y, s0, in) = u[N]
  BY DEF RunDqcsk, Run
<1> HIDE DEF X, x0, After
<1>4. h \in [1 .. N -> [X -> X]]
  BY <1>2
<1> HIDE DEF h, N
<1>5. PICK g : Iterated(N, X, x0, h, g)
  BY <1>1, <1>4, Iterates
<1>6. g = Body(g)
  <2>1. g \in [0 .. N -> X] /\ g[0] = x0
    BY <1>5 DEF Iterated
  <2>2. ASSUME NEW k \in 1 .. N PROVE g[k] = After(g[k - 1], k)
    <3>1. g[k - 1] \in X /\ g[k] = h[k][g[k - 1]]
      BY <1>1, <1>5 DEF Iterated
    <3> QED BY <3>1 DEF h
  <2>3. \A k \in 0 .. N : g[k] = IF k = 0 THEN x0 ELSE After(g[k - 1], k)
    BY <1>1, <2>1, <2>2
  <2> QED BY <2>1, <2>3
<1>7. u = Body(u)
  <2> HIDE DEF Body
  <2> QED BY <1>6, Zenon
<1> HIDE DEF u
<1>8. u[0] = x0 /\ \A k \in 1 .. N : u[k] = After(u[k - 1], k)
  BY <1>1, <1>7
<1>9. \A k \in 0 .. N : u[k] \in X
  BY <1>1, <1>2, <1>8, Throughout
<1>10. DqcskTrace(y, s0, in, u)
  BY <1>8, <1>9 DEF DqcskTrace, After, x0, X, N
<1> QED BY <1>3, <1>10 DEF N

\* What the detector puts out are subchirps it got, in their order.
LEMMA Detected ==
  ASSUME NEW y, Timed(y), NEW d \in Detectors, NEW in \in Seq(Subchirp), NEW r, r = RunDetector(y, d, in)
  PROVE  r.state \in Detectors /\ r.out \in Seq(Subchirp) /\ Drawn(r.out, in, Len(in))
<1>1. PICK u : DetectorTrace(y, d, in, u) /\ r = u[Len(in)]
  BY DetectorRun
<1>2. PICK N \in Nat : N = Len(in)
  BY LenProperties
<1>3. \A i \in 1 .. N : in[i] \in Subchirp
  BY <1>2, LenProperties
<1> DEFINE P == {k \in Nat : k <= N => Drawn(u[k].out, in, k)}
<1>4. 0 \in P
  BY <1>1, NoneDrawn DEF DetectorTrace
<1>5. ASSUME NEW k \in Nat, k \in P PROVE k + 1 \in P
  <2>1. SUFFICES ASSUME k + 1 <= N PROVE Drawn(u[k + 1].out, in, k + 1)
    OBVIOUS
  <2>2. k + 1 \in 1 .. N /\ (k + 1) - 1 = k /\ k \in 0 .. N /\ Drawn(u[k].out, in, k)
    BY <1>5, <2>1
  <2>3. PICK p \in Seq(Subchirp), t \in Detectors : p = u[k].out /\ t = u[k].state
    BY <1>1, <1>2, <2>2 DEF DetectorTrace, Results
  <2>4. PICK x \in Subchirp : x = in[k + 1]
    BY <1>3, <2>2
  <2>5. PICK o : o = DetectorStep(y, t, x).out
    OBVIOUS
  <2>6. u[k + 1].out = p \o o
    <3>1. PICK j \in 1 .. N : j = k + 1 /\ j - 1 = k
      BY <2>2
    <3>2. LET next == DetectorStep(y, u[j - 1].state, in[j])
          IN  u[j] = [out |-> u[j - 1].out \o next.out, state |-> next.state]
      BY <1>1, <1>2 DEF DetectorTrace
    <3>3. u[j - 1].out = p /\ u[j - 1].state = t /\ in[j] = x /\ u[j] = u[k + 1]
      BY <2>3, <2>4, <3>1
    <3> QED BY SMTT(60), <2>5, <3>2, <3>3
  <2>7. o = <<x>> \/ o = << >>
    BY <2>5, DetectorType
  <2>8. Drawn(p, in, k + 1) /\ Drawn(p \o <<x>>, in, k + 1)
    BY <2>2, <2>3, <2>4, DrawnOn
  <2>9. p \o << >> = p
    BY ConcatEmptySeq
  <2> QED BY <2>6, <2>7, <2>8, <2>9
<1> HIDE DEF P
<1>6. Nat \subseteq P
  BY <1>4, <1>5, InductiveSet
<1>7. Drawn(u[N].out, in, N)
  BY <1>6 DEF P
<1>8. u[N] \in Results(Subchirp, Detectors)
  BY <1>1, <1>2 DEF DetectorTrace
<1> QED BY <1>1, <1>2, <1>7, <1>8 DEF Results

\* Samples are in order, from one position on and before another.
Later(s) == \A i, j \in 1 .. Len(s) : i < j => s[i].at < s[j].at
Within(s, from, to) == \A i \in 1 .. Len(s) : from <= s[i].at /\ s[i].at < to

\* A subchirp for every phase, each with the next number and later than the one before.
Chirped(in, s0, r) ==
  /\ r.state \in Counters /\ r.state.nth = s0.nth + Len(in) /\ s0.pos <= r.state.pos
  /\ r.out \in Seq(Subchirp) /\ Len(r.out) = Len(in)
  /\ \A i \in 1 .. Len(in) : r.out[i].nth = s0.nth + i - 1 /\ r.out[i].phase = in[i]
  /\ Later(r.out) /\ Within(r.out, s0.pos, r.state.pos)

\* dqcsk_mapper_fc makes such subchirps of any phases.
LEMMA ChirpsMade ==
  ASSUME NEW y, Timed(y), NEW s0 \in Counters, NEW in \in Seq(Phase), NEW r, r = RunDqcsk(y, s0, in)
  PROVE  Chirped(in, s0, r)
<1>1. PICK u : DqcskTrace(y, s0, in, u) /\ r = u[Len(in)]
  BY DqcskRun
<1>2. PICK N \in Nat : N = Len(in)
  BY LenProperties
<1>3. \A i \in 1 .. N : in[i] \in Phase
  BY <1>2, LenProperties
<1>4. PICK n0 \in Nat, p0 \in Int : n0 = s0.nth /\ p0 = s0.pos
  BY DEF Counters
<1> DEFINE Q(k) == /\ Len(u[k].out) = k /\ u[k].state.nth = n0 + k /\ p0 <= u[k].state.pos
                   /\ \A i \in 1 .. k : u[k].out[i].nth = n0 + i - 1 /\ u[k].out[i].phase = in[i]
                   /\ Later(u[k].out) /\ Within(u[k].out, p0, u[k].state.pos)
           P == {k \in Nat : k <= N => Q(k)}
<1>5. 0 \in P
  <2>1. u[0].out = << >> /\ u[0].state = s0
    BY <1>1 DEF DqcskTrace
  <2>2. Len(<< >>) = 0
    OBVIOUS
  <2>3. p0 <= p0 /\ n0 + 0 = n0
    OBVIOUS
  <2> QED BY <1>4, <2>1, <2>2, <2>3 DEF Later, Within
<1>6. ASSUME NEW k \in Nat, k \in P PROVE k + 1 \in P
  <2>1. SUFFICES ASSUME k + 1 <= N PROVE Q(k + 1)
    <3> HIDE DEF Q
    <3> QED OBVIOUS
  <2>2. k + 1 \in 1 .. N /\ (k + 1) - 1 = k /\ k \in 0 .. N /\ Q(k)
    BY SMTT(60), <1>6, <2>1
  <2>3. PICK p \in Seq(Subchirp), t \in Counters : p = u[k].out /\ t = u[k].state
    BY <1>1, <1>2, <2>2 DEF DqcskTrace, Results
  <2>4. PICK x \in Phase : x = in[k + 1]
    BY <1>3, <2>2
  <2>5. PICK c \in Subchirp, t2 \in Counters :
          /\ DqcskStep(y, t, x).out = <<c>> /\ c.at = t.pos /\ c.phase = x /\ c.nth = t.nth
          /\ DqcskStep(y, t, x).state = t2 /\ t2.nth = t.nth + 1 /\ t2.pos > t.pos
    BY DqcskType
  <2>6. u[k + 1].out = p \o <<c>> /\ u[k + 1].state = t2
    <3>1. PICK j \in 1 .. N : j = k + 1 /\ j - 1 = k
      BY <2>2
    <3>2. LET next == DqcskStep(y, u[j - 1].state, in[j])
          IN  u[j] = [out |-> u[j - 1].out \o next.out, state |-> next.state]
      BY <1>1, <1>2 DEF DqcskTrace
    <3>3. u[j - 1].out = p /\ u[j - 1].state = t /\ in[j] = x /\ u[j] = u[k + 1]
      BY <2>3, <2>4, <3>1
    <3>4. PICK d : d = DqcskStep(y, t, x)
      OBVIOUS
    <3>5. u[j] = [out |-> p \o d.out, state |-> d.state]
      BY <3>2, <3>3, <3>4
    <3>6. d.out = <<c>> /\ d.state = t2
      BY <2>5, <3>4
    <3> QED BY <3>3, <3>5, <3>6
  <2>7. PICK q : q = p \o <<c>>
    OBVIOUS
  <2>8. PICK z \in Int, z2 \in Int : z = t.pos /\ z2 = t2.pos /\ z < z2 /\ p0 <= z
    BY <2>2, <2>3, <2>5 DEF Counters
  <2>9. Len(p) = k /\ t.nth = n0 + k /\ Later(p) /\ Within(p, p0, z)
        /\ \A i \in 1 .. k : p[i].nth = n0 + i - 1 /\ p[i].phase = in[i]
    BY <2>2, <2>3, <2>8
  <2>10. Len(q) = k + 1 /\ (\A i \in 1 .. k : q[i] = p[i]) /\ q[k + 1] = c
    BY <2>7, <2>9, OneItemMore
  <2>11. \A i \in 1 .. k : p0 <= p[i].at /\ p[i].at < z /\ p[i].at \in Int
    <3>1. \A i \in 1 .. k : p[i] \in Subchirp
      BY <2>9, LenProperties
    <3> QED BY <2>9, <3>1 DEF Within, Subchirp
  <2>12. \A i \in 1 .. k + 1 : i \in 1 .. k \/ i = k + 1
    OBVIOUS
  <2>13. \A i \in 1 .. k + 1 : q[i].nth = n0 + i - 1 /\ q[i].phase = in[i]
    <3>1. c.nth = n0 + (k + 1) - 1
      BY <2>5, <2>9
    <3> QED BY <2>4, <2>5, <2>9, <2>10, <2>12, <3>1
  <2>14. Within(q, p0, z2)
    <3>1. \A i \in 1 .. k : p0 <= q[i].at /\ q[i].at < z2
      BY SMTT(60), <2>8, <2>10, <2>11
    <3>2. p0 <= q[k + 1].at /\ q[k + 1].at < z2
      BY <2>5, <2>8, <2>10
    <3>3. \A i \in 1 .. k + 1 : p0 <= q[i].at /\ q[i].at < z2
      BY <2>12, <3>1, <3>2
    <3> QED BY <2>10, <3>3 DEF Within
  <2>15. Later(q)
    <3>1. SUFFICES ASSUME NEW i \in 1 .. k + 1, NEW j \in 1 .. k + 1, i < j PROVE q[i].at < q[j].at
      BY <2>10 DEF Later
    <3>2. i \in 1 .. k
      BY <3>1
    <3>3. CASE j \in 1 .. k
      BY <2>9, <2>10, <3>1, <3>2, <3>3 DEF Later
    <3>4. CASE j = k + 1
      BY <2>5, <2>8, <2>10, <2>11, <3>2, <3>4
    <3> QED BY <2>12, <3>3, <3>4
  <2>16. t2.nth = n0 + (k + 1) /\ p0 <= z2
    BY <2>5, <2>8, <2>9
  <2>17. u[k + 1].out = q /\ u[k + 1].state.pos = z2 /\ u[k + 1].state.nth = n0 + (k + 1)
    BY <2>6, <2>7, <2>8, <2>16
  <2>18. PICK v : v = u[k + 1].out
    OBVIOUS
  <2>19. v = q
    BY <2>17, <2>18
  <2> QED BY <2>10, <2>13, <2>14, <2>15, <2>16, <2>17, <2>18, <2>19
<1> HIDE DEF P
<1>7. Nat \subseteq P
  BY <1>5, <1>6, InductiveSet
<1>8. Q(N)
  BY <1>7 DEF P
<1>9. u[N] \in Results(Subchirp, Counters)
  BY <1>1, <1>2 DEF DqcskTrace
<1> QED BY <1>1, <1>2, <1>4, <1>8, <1>9 DEF Results, Chirped

\* What is drawn from a stream in order is in order.
LEMMA DrawnInOrder ==
  ASSUME NEW p, NEW s, NEW k \in Nat, Drawn(p, s, k), k <= Len(s), Numbered(s), Rising(s)
  PROVE  /\ Rising(p)
         /\ \A i \in 1 .. Len(p) : \E l \in 1 .. k : p[i] = s[l]
         /\ Later(s) => Later(p)
         /\ \A from, to : Within(s, from, to) => Within(p, from, to)
<1>1. PICK g : DrawnAt(p, s, k, g)
  BY DEF Drawn
<1>2. PICK n \in Nat : n = Len(s) /\ k <= n
  BY DEF Numbered
<1>3. \A i \in 1 .. Len(p) : g[i] \in 1 .. n /\ g[i] \in 1 .. k /\ p[i] = s[g[i]]
  BY <1>1, <1>2 DEF DrawnAt
<1>4. \A i, j \in 1 .. Len(p) : i < j => g[i] < g[j]
  BY <1>1 DEF DrawnAt
<1>5. Rising(p)
  BY <1>2, <1>3, <1>4 DEF Rising
<1>6. Later(s) => Later(p)
  BY <1>2, <1>3, <1>4 DEF Later
<1>7. \A from, to : Within(s, from, to) => Within(p, from, to)
  BY <1>2, <1>3 DEF Within
<1> QED BY <1>3, <1>5, <1>6, <1>7

-----------------------------------------------------------------------------
(***************************************************************************)
(* The preamble tagger: a place is tagged only if as many symbols as a     *)
(* preamble pass its test there and the one behind them turns; and it is   *)
(* if none of them turns at all.                                           *)
(***************************************************************************)
Small(half) == {0, 3} \cup (IF half THEN {2} ELSE {})
WindowTurn(window, i) == Turn(window[i + 1] - window[i])
TagsRight(n, window, half, tags) ==
  /\ \A t \in tags : /\ t \in 0 .. n - 1
                     /\ \A m \in 1 .. n - 1 : WindowTurn(window, t + m) \in Small(half)
                     /\ WindowTurn(window, t + n) # 0
  /\ \A t \in 0 .. n - 1 :
       (\A m \in 1 .. n - 1 : WindowTurn(window, t + m) = 0) /\ WindowTurn(window, t + n) # 0 => t \in tags

\* The tagger at item k, with what it has counted and tagged before.
Counted == [ctr : Nat, tags : SUBSET Int]
TagStep(n, window, half, b, k) ==
  LET ctr == IF WindowTurn(window, k) \in Small(half) THEN b.ctr + 1 ELSE 1
  IN  IF ctr >= n /\ WindowTurn(window, k + 1) # 0
      THEN [ctr |-> 1, tags |-> b.tags \cup {k - (n - 1)}]
      ELSE [ctr |-> ctr, tags |-> b.tags]
TagTrace(n, window, half, u) ==
  /\ u[0] = [ctr |-> 1, tags |-> {}]
  /\ \A k \in 1 .. 2 * n - 2 : u[k] = TagStep(n, window, half, u[k - 1], k)
  /\ \A k \in 0 .. 2 * n - 2 : u[k] \in Counted

\* The tagger's count, place by place.
LEMMA TagSteps ==
  ASSUME NEW y, NEW n \in Nat, n >= 2, n = y.len_preamble, NEW window, NEW half \in BOOLEAN
  PROVE  \E u : TagTrace(n, window, half, u) /\ Tags(y, window, half) = u[2 * n - 2].tags
<1> DEFINE N == 2 * n - 2
           X == Counted
           x0 == [ctr |-> 1, tags |-> {}]
           turn(i) == Turn(window[i + 1] - window[i])
           small(i) == turn(i) \in {0, 3} \/ (turn(i) = 2 /\ half)
           After(b, i) == LET ctr == IF small(i) THEN b.ctr + 1 ELSE 1
                          IN  IF ctr >= n /\ turn(i + 1) # 0
                              THEN [ctr |-> 1, tags |-> b.tags \cup {i - (n - 1)}]
                              ELSE [ctr |-> ctr, tags |-> b.tags]
           h == [k \in 1 .. N |-> [r \in X |-> After(r, k)]]
           Body(f) == [k \in 0 .. N |-> IF k = 0 THEN x0 ELSE After(f[k - 1], k)]
           u == CHOOSE f : f = Body(f)
<1>1. N \in Nat /\ x0 \in X
  BY DEF Counted
<1>2. ASSUME NEW r \in X, NEW k \in 1 .. N PROVE After(r, k) \in X
  <2>1. r.ctr \in Nat /\ r.tags \in SUBSET Int
    BY DEF Counted
  <2>2. PICK c \in Nat : c = IF small(k) THEN r.ctr + 1 ELSE 1
    <3>1. r.ctr + 1 \in Nat /\ 1 \in Nat
      BY <2>1
    <3> QED BY <3>1
  <2>3. r.tags \cup {k - (n - 1)} \in SUBSET Int
    BY <2>1
  <2>4. After(r, k) = IF c >= n /\ turn(k + 1) # 0
                      THEN [ctr |-> 1, tags |-> r.tags \cup {k - (n - 1)}]
                      ELSE [ctr |-> c, tags |-> r.tags]
    BY <2>2
  <2> HIDE DEF After
  <2> QED BY <2>1, <2>2, <2>3, <2>4 DEF Counted
<1>3. Tags(y, window, half) = u[N].tags
  BY DEF Tags
<1>4. ASSUME NEW b, NEW k PROVE After(b, k) = TagStep(n, window, half, b, k)
  <2>1. turn(k) = WindowTurn(window, k) /\ turn(k + 1) = WindowTurn(window, k + 1)
    BY DEF WindowTurn
  <2>2. small(k) <=> WindowTurn(window, k) \in Small(half)
    BY <2>1 DEF Small
  <2> QED BY <2>1, <2>2 DEF TagStep
<1> HIDE DEF X, x0, After
<1>5. h \in [1 .. N -> [X -> X]]
  BY <1>2
<1> HIDE DEF h, N
<1>6. PICK g : Iterated(N, X, x0, h, g)
  BY <1>1, <1>5, Iterates
<1>7. g = Body(g)
  <2>1. g \in [0 .. N -> X] /\ g[0] = x0
    BY <1>6 DEF Iterated
  <2>2. ASSUME NEW k \in 1 .. N PROVE g[k] = After(g[k - 1], k)
    <3>1. g[k - 1] \in X /\ g[k] = h[k][g[k - 1]]
      BY <1>1, <1>6 DEF Iterated
    <3> QED BY <3>1 DEF h
  <2>3. \A k \in 0 .. N : g[k] = IF k = 0 THEN x0 ELSE After(g[k - 1], k)
    BY <1>1, <2>1, <2>2
  <2> QED BY <2>1, <2>3
<1>8. u = Body(u)
  <2> HIDE DEF Body
  <2> QED BY <1>7, Zenon
<1> HIDE DEF u
<1>9. u[0] = x0 /\ \A k \in 1 .. N : u[k] = After(u[k - 1], k)
  BY <1>1, <1>8
<1>10. \A k \in 0 .. N : u[k] \in X
  <2>1. u[0] \in X
    BY <1>1, <1>9
  <2>2. ASSUME NEW k \in 1 .. N, u[k - 1] \in X PROVE u[k] \in X
    BY <1>2, <1>9, <2>2
  <2> QED BY <1>1, <2>1, <2>2, Throughout
<1>11. TagTrace(n, window, half, u)
  BY <1>4, <1>9, <1>10 DEF TagTrace, x0, X, N
<1> QED BY <1>3, <1>11 DEF N

\* preamble_tagger_cc tags the places behind which len_preamble - 1 turns are small and
\* the next one is not zero.
LEMMA TagsPlaces ==
  ASSUME NEW y, NEW n \in Nat, n >= 2, n = y.len_preamble, NEW window, NEW half \in BOOLEAN
  PROVE  TagsRight(n, window, half, Tags(y, window, half))
<1>1. PICK u : TagTrace(n, window, half, u) /\ Tags(y, window, half) = u[2 * n - 2].tags
  BY TagSteps
<1>2. PICK N \in Nat : N = 2 * n - 2
  OBVIOUS
<1> DEFINE T(i) == WindowTurn(window, i)
           Ran(c, i) == \A j \in 1 .. i : i < j + (c - 1) => T(j) \in Small(half)
           Good(t) == /\ t \in 0 .. n - 1
                      /\ \A m \in 1 .. n - 1 : T(t + m) \in Small(half)
                      /\ T(t + n) # 0
           Still(t) == (\A m \in 1 .. n - 1 : T(t + m) = 0) /\ T(t + n) # 0
           Q(k) == /\ u[k].ctr \in Nat /\ 1 <= u[k].ctr /\ u[k].ctr <= k + 1 /\ Ran(u[k].ctr, k)
                   /\ \A t \in u[k].tags : Good(t)
                   /\ \A t \in 0 .. n - 1 : Still(t) =>
                        /\ t <= k /\ k < t + (n - 1) => k - t < u[k].ctr
                        /\ t + (n - 1) <= k => t \in u[k].tags
           P == {k \in Nat : k <= N => Q(k)}
<1> HIDE DEF T
<1>3. 0 \in P
  <2>1. u[0].ctr = 1 /\ u[0].tags = {}
    BY <1>1 DEF TagTrace
  <2>2. Q(0)
    BY <2>1
  <2> QED BY <2>2
<1>4. ASSUME NEW k \in Nat, k \in P PROVE k + 1 \in P
  <2>1. SUFFICES ASSUME k + 1 <= N PROVE Q(k + 1)
    <3> HIDE DEF Q
    <3> QED OBVIOUS
  <2>2. PICK i \in 1 .. N : i = k + 1 /\ i - 1 = k
    BY <2>1
  <2>3. PICK c \in Nat : c = u[k].ctr /\ 1 <= c /\ c <= k + 1 /\ Ran(c, k)
    BY <1>4, <2>1
  <2>4. PICK tags : tags = u[k].tags /\ \A t \in tags : Good(t)
    BY <1>4, <2>1
  <2>5. \A t \in 0 .. n - 1 : Still(t) => /\ t <= k /\ k < t + (n - 1) => k - t < c
                                          /\ t + (n - 1) <= k => t \in tags
    BY <1>4, <2>1, <2>3, <2>4
  <2>6. u[i] = TagStep(n, window, half, u[k], i)
    <3>1. u[i] = TagStep(n, window, half, u[i - 1], i)
      BY <1>1, <1>2 DEF TagTrace
    <3> QED BY <2>2, <3>1
  <2>7. PICK d \in Nat : d = IF T(i) \in Small(half) THEN c + 1 ELSE 1
    <3>1. c + 1 \in Nat /\ 1 \in Nat
      OBVIOUS
    <3> QED BY <3>1
  <2>8. u[i] = IF d >= n /\ T(i + 1) # 0 THEN [ctr |-> 1, tags |-> tags \cup {i - (n - 1)}]
                                         ELSE [ctr |-> d, tags |-> tags]
    BY <2>3, <2>4, <2>6, <2>7 DEF TagStep, T
  <2>9. 1 <= d /\ d <= i + 1
    BY <2>2, <2>3, <2>7
  <2>10. Ran(d, i)
    <3>1. SUFFICES ASSUME NEW j \in 1 .. i, i < j + (d - 1) PROVE T(j) \in Small(half)
      OBVIOUS
    <3>2. CASE T(i) \in Small(half)
      <4>1. d = c + 1
        BY <2>7, <3>2
      <4>2. CASE j = i
        BY <3>2, <4>2
      <4>3. CASE j # i
        <5>1. j \in 1 .. k /\ k < j + (c - 1)
          BY <2>2, <3>1, <4>1, <4>3
        <5> QED BY <2>3, <5>1
      <4> QED BY <4>2, <4>3
    <3>3. CASE ~ (T(i) \in Small(half))
      <4>1. d = 1
        BY <2>7, <3>3
      <4> QED BY <3>1, <4>1
    <3> QED BY <3>2, <3>3
  <2>11. ASSUME d >= n, T(i + 1) # 0 PROVE Good(i - (n - 1))
    <3>1. i - (n - 1) \in 0 .. n - 1
      BY <1>2, <2>2, <2>9, <2>11
    <3>2. ASSUME NEW m \in 1 .. n - 1 PROVE T((i - (n - 1)) + m) \in Small(half)
      <4>1. PICK j \in 1 .. i : j = (i - (n - 1)) + m
        BY <3>1
      <4>2. i < j + (d - 1)
        BY <2>11, <4>1
      <4> QED BY <2>10, <4>1, <4>2
    <3>3. (i - (n - 1)) + n = i + 1
      OBVIOUS
    <3>4. T((i - (n - 1)) + n) # 0
      BY <2>11, <3>3
    <3> QED BY <3>1, <3>2, <3>4
  <2>12. ASSUME NEW t \in 0 .. n - 1, Still(t), t <= i, i < t + (n - 1)
         PROVE  T(i + 1) = 0 /\ i - t < d
    <3>1. i + 1 = t + (i + 1 - t) /\ i + 1 - t \in 1 .. n - 1
      BY <2>12
    <3>2. T(i + 1) = 0
      BY <2>12, <3>1
    <3>3. CASE t = i
      <4>1. i - t = 0
        BY <3>3
      <4> QED BY <2>9, <3>2, <4>1
    <3>4. CASE t # i
      <4>1. t <= k /\ k < t + (n - 1) /\ i = t + (i - t) /\ i - t \in 1 .. n - 1
        BY <2>2, <2>12, <3>4
      <4>2. k - t < c
        BY <2>5, <2>12, <4>1
      <4>3. T(i) = 0
        BY <2>12, <4>1
      <4>4. d = c + 1
        BY <2>7, <4>3 DEF Small
      <4>5. i - t < d
        BY <2>2, <4>2, <4>4
      <4> QED BY <3>2, <4>5
    <3> QED BY <3>2, <3>3, <3>4
  <2>13. ASSUME NEW t \in 0 .. n - 1, Still(t), t + (n - 1) <= i
         PROVE  t \in tags \/ (t = i - (n - 1) /\ d >= n /\ T(i + 1) # 0)
    <3>1. CASE t + (n - 1) <= k
      BY <2>5, <2>13, <3>1
    <3>2. CASE ~ (t + (n - 1) <= k)
      <4>1. t + (n - 1) = i
        <5>1. t + (n - 1) <= i
          BY <2>13
        <5> QED BY <2>2, <3>2, <5>1
      <4>2. t <= k /\ k < t + (n - 1) /\ n - 1 \in 1 .. n - 1 /\ i + 1 = t + n
        BY <2>2, <4>1
      <4>3. k - t < c
        BY <2>5, <2>13, <4>2
      <4>4. T(i) = 0 /\ T(i + 1) # 0
        BY <2>13, <4>1, <4>2
      <4>5. d = c + 1
        BY <2>7, <4>4 DEF Small
      <4> QED BY <2>2, <4>1, <4>3, <4>4, <4>5
    <3> QED BY <3>1, <3>2
  <2>14. CASE d >= n /\ T(i + 1) # 0
    <3>1. u[i].ctr = 1 /\ u[i].tags = tags \cup {i - (n - 1)}
      BY <2>8, <2>14
    <3>2. Ran(1, i)
      OBVIOUS
    <3>3. \A t \in u[i].tags : Good(t)
      <4> HIDE DEF Good
      <4> QED BY <2>4, <2>11, <2>14, <3>1
    <3>4. ASSUME NEW t \in 0 .. n - 1, Still(t)
          PROVE  /\ t <= i /\ i < t + (n - 1) => i - t < 1
                 /\ t + (n - 1) <= i => t \in u[i].tags
      <4> HIDE DEF Still
      <4> QED BY <2>12, <2>13, <2>14, <3>1, <3>4
    <3>5. 1 \in Nat /\ 1 <= 1 /\ 1 <= i + 1
      OBVIOUS
    <3> HIDE DEF Ran, Good, Still
    <3> QED BY <2>2, <3>1, <3>2, <3>3, <3>4, <3>5
  <2>15. CASE ~ (d >= n /\ T(i + 1) # 0)
    <3>1. u[i].ctr = d /\ u[i].tags = tags
      BY <2>8, <2>15
    <3>2. ASSUME NEW t \in 0 .. n - 1, Still(t)
          PROVE  /\ t <= i /\ i < t + (n - 1) => i - t < d
                 /\ t + (n - 1) <= i => t \in tags
      <4> HIDE DEF Still
      <4> QED BY <2>12, <2>13, <2>15, <3>2
    <3> HIDE DEF Ran, Good, Still
    <3> QED BY <2>2, <2>4, <2>9, <2>10, <3>1, <3>2
  <2> QED BY <2>14, <2>15
<1> HIDE DEF P
<1>5. Nat \subseteq P
  BY <1>3, <1>4, InductiveSet
<1>6. Q(N)
  <2> HIDE DEF Q
  <2> QED BY <1>5 DEF P
<1>7. \A t \in 0 .. n - 1 : t + (n - 1) <= N
  BY <1>2
<1>8. PICK tags : tags = Tags(y, window, half) /\ tags = u[N].tags
  BY <1>1, <1>2
<1>9. \A t \in tags : Good(t)
  BY <1>6, <1>8
<1>10. \A t \in 0 .. n - 1 : Still(t) => t \in tags
  BY <1>6, <1>7, <1>8
<1> QED BY <1>8, <1>9, <1>10 DEF TagsRight, T

\* Frames begin with the preamble, in phase, and half a turn at the SFD.
Headed(y, ph) ==
  \A P \in 0 .. Len(ph) - 1 : /\ P % y.nsym_frame < y.len_preamble => ph[P + 1] = 0
                              /\ P % y.nsym_frame = y.len_preamble => ph[P + 1] = 2

\* What a tag tells about the symbols from there on; and a frame of which nothing is lost
\* has one.
TurnAt(r, i) == Turn(r[i].phase - r[i - 1].phase)
RunAt(n, half, r, i) ==
  /\ i + n <= Len(r)
  /\ \A m \in 1 .. n - 1 : TurnAt(r, i + m) \in Small(half)
  /\ TurnAt(r, i + n) # 0
HitIn(N, gone, k) == \E P \in gone : P \div N = k
TagsTell(y, half, t, r, gone) ==
  \A i \in 1 .. Len(t) :
    /\ t[i].sof => RunAt(y.len_preamble, half, r, i)
    /\ t[i].nth % y.nsym_frame = 0 /\ ~ HitIn(y.nsym_frame, gone, t[i].nth \div y.nsym_frame) => t[i].sof

\* The turns received are the turns sent.
LEMMA TurnsCarried ==
  ASSUME NEW ph \in Seq(Phase), NEW rot \in Phase, NEW r, Numbered(r), Carry(ph, rot, r),
         NEW i \in 1 .. Len(r), i # 1
  PROVE  TurnAt(r, i) = Turn(ph[r[i].nth + 1] - ph[r[i - 1].nth + 1])
<1>1. i - 1 \in 1 .. Len(r)
  BY DEF Numbered
<1>2. PICK x \in Nat, z \in Nat : x = r[i].nth /\ z = r[i - 1].nth /\ x < Len(ph) /\ z < Len(ph)
        /\ r[i].phase = Turn(ph[x + 1] + rot) /\ r[i - 1].phase = Turn(ph[z + 1] + rot)
  BY <1>1 DEF Numbered, Carry
<1>3. PICK L \in Nat : L = Len(ph)
  BY LenProperties
<1>4. PICK p \in Phase, q \in Phase : p = ph[x + 1] /\ q = ph[z + 1]
  <2>1. x + 1 \in 1 .. L /\ z + 1 \in 1 .. L
    BY <1>2, <1>3
  <2> QED BY <1>3, <2>1, LenProperties
<1>5. Turn(Turn(p + rot) - Turn(q + rot)) = Turn(p - q)
  <2>1. p \in {0, 1, 2, 3} /\ q \in {0, 1, 2, 3} /\ rot \in {0, 1, 2, 3}
    BY DEF Phase
  <2> QED BY <2>1 DEF Turn
<1> QED BY <1>2, <1>4, <1>5 DEF TurnAt

\* More symbols behind, or more of them lost.
LEMMA TagsKept ==
  ASSUME NEW y, NEW half, NEW t, NEW r, Len(r) \in Nat, NEW gone, TagsTell(y, half, t, r, gone),
         NEW gone2, gone \subseteq gone2, Len(t) <= Len(r), Len(t) \in Nat,
         y.len_preamble \in Nat, y.len_preamble >= 1,
         NEW r2, Len(r2) \in Nat, Len(r) <= Len(r2), \A i \in 1 .. Len(r) : r2[i] = r[i]
  PROVE  TagsTell(y, half, t, r2, gone2)
<1>1. PICK n \in Nat, R \in Nat, T \in Nat : n = y.len_preamble /\ R = Len(r) /\ T = Len(t) /\ T <= R /\ 1 <= n
  OBVIOUS
<1>2. SUFFICES ASSUME NEW i \in 1 .. T
               PROVE  /\ t[i].sof => RunAt(n, half, r2, i)
                      /\ t[i].nth % y.nsym_frame = 0 /\ ~ HitIn(y.nsym_frame, gone2, t[i].nth \div y.nsym_frame) => t[i].sof
  BY <1>1 DEF TagsTell
<1>3. ASSUME t[i].sof PROVE RunAt(n, half, r2, i)
  <2>1. RunAt(n, half, r, i)
    BY <1>1, <1>3 DEF TagsTell
  <2>2. i + n <= R
    BY <1>1, <2>1 DEF RunAt
  <2>3. ASSUME NEW m \in 1 .. n PROVE TurnAt(r2, i + m) = TurnAt(r, i + m)
    <3>1. i + m \in 1 .. R /\ (i + m) - 1 \in 1 .. R
      BY <1>1, <2>2
    <3> QED BY <1>1, <3>1 DEF TurnAt
  <2>4. \A m \in 1 .. n - 1 : m \in 1 .. n
    OBVIOUS
  <2>5. n \in 1 .. n /\ i + n <= Len(r2)
    BY <1>1, <2>2
  <2> QED BY <2>1, <2>3, <2>4, <2>5 DEF RunAt
<1>4. ~ HitIn(y.nsym_frame, gone2, t[i].nth \div y.nsym_frame) => ~ HitIn(y.nsym_frame, gone, t[i].nth \div y.nsym_frame)
  BY DEF HitIn
<1> QED BY <1>1, <1>3, <1>4 DEF TagsTell

\* Symbols in front go.
LEMMA TagsDropped ==
  ASSUME NEW y, NEW half, NEW t, NEW r, Len(r) \in Nat, NEW gone, TagsTell(y, half, t, r, gone),
         Len(t) \in Nat, Len(t) <= Len(r), NEW k \in Nat, k <= Len(t),
         y.len_preamble \in Nat, y.len_preamble >= 1,
         NEW r2, Len(r2) = Len(r) - k, \A i \in 1 .. Len(r) - k : r2[i] = r[k + i],
         NEW t2, Len(t2) = Len(t) - k, \A i \in 1 .. Len(t) - k : t2[i] = t[k + i]
  PROVE  TagsTell(y, half, t2, r2, gone)
<1>1. PICK n \in Nat, R \in Nat, T \in Nat : n = y.len_preamble /\ R = Len(r) /\ T = Len(t) /\ T <= R /\ 1 <= n /\ k <= T
  OBVIOUS
<1>2. SUFFICES ASSUME NEW i \in 1 .. T - k
               PROVE  /\ t2[i].sof => RunAt(n, half, r2, i)
                      /\ t2[i].nth % y.nsym_frame = 0 /\ ~ HitIn(y.nsym_frame, gone, t2[i].nth \div y.nsym_frame) => t2[i].sof
  BY <1>1 DEF TagsTell
<1>3. PICK j \in 1 .. T : j = k + i /\ t2[i] = t[j]
  <2>1. k + i \in 1 .. T /\ i \in 1 .. Len(t) - k
    BY <1>1
  <2>2. t2[i] = t[k + i]
    BY <2>1
  <2> QED BY <2>1, <2>2
<1>4. ASSUME t[j].sof PROVE RunAt(n, half, r2, i)
  <2>1. RunAt(n, half, r, j)
    BY <1>1, <1>3, <1>4 DEF TagsTell
  <2>2. j + n <= R
    BY <1>1, <2>1 DEF RunAt
  <2>3. ASSUME NEW m \in 1 .. n PROVE TurnAt(r2, i + m) = TurnAt(r, j + m)
    <3>1. /\ i + m \in 1 .. R - k /\ (i + m) - 1 \in 1 .. R - k
          /\ k + (i + m) = j + m /\ k + ((i + m) - 1) = (j + m) - 1
      BY <1>1, <1>3, <2>2
    <3>2. r2[i + m] = r[j + m] /\ r2[(i + m) - 1] = r[(j + m) - 1]
      BY <1>1, <3>1
    <3> QED BY <3>2 DEF TurnAt
  <2>4. \A m \in 1 .. n - 1 : m \in 1 .. n
    OBVIOUS
  <2>5. n \in 1 .. n /\ i + n <= R - k
    BY <1>1, <1>3, <2>2
  <2>6. \A m \in 1 .. n - 1 : TurnAt(r2, i + m) \in Small(half)
    BY <2>1, <2>3, <2>4 DEF RunAt
  <2>7. TurnAt(r2, i + n) # 0
    BY <2>1, <2>3, <2>5 DEF RunAt
  <2> QED BY <1>1, <2>5, <2>6, <2>7 DEF RunAt
<1> QED BY <1>1, <1>3, <1>4 DEF TagsTell

\* The preamble of a frame of which nothing is lost does not turn, and the SFD does.
LEMMA PreambleTurns ==
  ASSUME NEW y, Started(y), NEW ph \in Seq(Phase), Headed(y, ph), NEW rot \in Phase,
         NEW r, NEW a, NEW w, NEW gone, Coming(ph, rot, r, a, w, gone),
         NEW i \in 1 .. Len(r), r[i].nth % y.nsym_frame = 0,
         ~ HitIn(y.nsym_frame, gone, r[i].nth \div y.nsym_frame), i + y.len_preamble <= Len(r)
  PROVE  /\ \A m \in 1 .. y.len_preamble - 1 : TurnAt(r, i + m) = 0
         /\ TurnAt(r, i + y.len_preamble) = 2
<1>0. ASSUME NEW d \in Nat, i + d <= Len(r), \A e \in 1 .. d : r[i].nth + e \notin gone
      PROVE  r[i + d].nth = r[i].nth + d
  BY <1>0, Consecutive
<1>1. Numbered(r) /\ Carry(ph, rot, r)
  BY SymbolsNumbered DEF Coming
<1>2. PICK n \in Nat, N \in Nat \ {0}, R \in Nat, L \in Nat :
        n = y.len_preamble /\ N = y.nsym_frame /\ R = Len(r) /\ n < N /\ L = Len(ph) /\ 2 <= n
  <2>1. PICK n \in Nat, N \in Nat \ {0} : n = y.len_preamble /\ N = y.nsym_frame /\ n < N /\ 2 <= n
    BY SizesOf
  <2>2. PICK R \in Nat : R = Len(r)
    BY <1>1 DEF Numbered
  <2>3. PICK L \in Nat : L = Len(ph)
    BY LenProperties
  <2> QED BY <2>1, <2>2, <2>3
<1>3. PICK A \in Nat : A = r[i].nth
  BY <1>1 DEF Numbered
<1>4. PICK c \in Nat : A = N * c /\ A \div N = c
  <2>0. A % N = 0
    BY <1>2, <1>3
  <2>1. A \div N \in Nat /\ A = N * (A \div N) + (A % N)
    <3> HIDE <1>2
    <3> QED OBVIOUS
  <2>2. PICK c \in Nat : c = A \div N
    BY <2>1
  <2>3. A = N * c
    BY <2>0, <2>1, <2>2
  <2> QED BY <2>2, <2>3
<1>5. ASSUME NEW e \in 0 .. N - 1 PROVE (A + e) \div N = c /\ (A + e) % N = e
  <2>1. (N * c + e) \div N = c /\ (N * c + e) % N = e
    BY Division
  <2> QED BY <1>4, <2>1
<1>6. ASSUME NEW e \in 0 .. N - 1 PROVE A + e \notin gone
  <2>1. ~ HitIn(N, gone, c)
    BY <1>2, <1>3, <1>4
  <2> QED BY <1>5, <2>1 DEF HitIn
<1>7. ASSUME NEW m \in 0 .. n PROVE i + m \in 1 .. R /\ r[i + m].nth = A + m /\ A + m < L
  <2>1. i + m <= R /\ i + m \in 1 .. R
    BY <1>2
  <2>2. \A e \in 1 .. m : A + e \notin gone
    <3>1. \A e \in 1 .. m : e \in 0 .. N - 1
      BY <1>2
    <3> QED BY <1>6, <3>1
  <2>3. r[i + m].nth = r[i].nth + m
    <3>1. m \in Nat /\ i + m <= Len(r)
      BY <1>2, <2>1
    <3>2. \A e \in 1 .. m : r[i].nth + e \notin gone
      BY <1>3, <2>2
    <3> HIDE <1>1, <1>2, <1>3, <1>4, <1>5, <1>6, <2>1, <2>2
    <3> QED BY <3>1, <3>2, <1>0
  <2> QED BY <1>1, <1>2, <1>3, <2>1, <2>3 DEF Carry
<1>8. ASSUME NEW m \in 1 .. n PROVE TurnAt(r, i + m) = Turn(ph[A + m + 1] - ph[A + (m - 1) + 1])
  <2>1. m \in 0 .. n /\ m - 1 \in 0 .. n /\ i + m # 1 /\ (i + m) - 1 = i + (m - 1)
    BY SMTT(60), <1>2
  <2>2. i + m \in 1 .. R /\ r[i + m].nth = A + m /\ r[i + (m - 1)].nth = A + (m - 1)
    BY <1>7, <2>1
  <2>3. TurnAt(r, i + m) = Turn(ph[r[i + m].nth + 1] - ph[r[(i + m) - 1].nth + 1])
    <3>1. i + m \in 1 .. Len(r) /\ i + m # 1
      BY <1>2, <2>1, <2>2
    <3> HIDE <1>2, <1>3, <1>4, <1>5, <1>6, <1>7, <2>1, <2>2
    <3> QED BY <1>1, <3>1, TurnsCarried
  <2> QED BY <2>1, <2>2, <2>3
<1>9. ASSUME NEW m \in 0 .. n PROVE ph[A + m + 1] = IF m < n THEN 0 ELSE 2
  <2>1. A + m \in 0 .. L - 1 /\ (A + m) % N = m
    <3>1. m \in 0 .. N - 1
      BY <1>2
    <3>2. (A + m) % N = m
      BY <1>5, <3>1
    <3>3. A + m < L /\ A + m \in Nat
      <4>1. A + m < L
        BY <1>7
      <4>2. A + m \in Nat
        OBVIOUS
      <4> QED BY <4>1, <4>2
    <3>4. A + m \in 0 .. L - 1
      BY <3>3
    <3> QED BY <3>2, <3>4
  <2>2. PICK P \in 0 .. L - 1 : P = A + m /\ P % N = m
    BY <2>1
  <2>3. (P % N < n => ph[P + 1] = 0) /\ (P % N = n => ph[P + 1] = 2)
    BY <1>2 DEF Headed
  <2>4. CASE m < n
    <3>1. P % N < n
      BY <2>2, <2>4
    <3> QED BY <3>1, <2>2, <2>3, <2>4
  <2>5. CASE m = n
    <3>1. P % N = n /\ ~ (m < n)
      BY <2>2, <2>5
    <3> QED BY <3>1, <2>2, <2>3
  <2>6. m < n \/ m = n
    BY <1>2
  <2> QED BY <2>4, <2>5, <2>6
<1>10. ASSUME NEW m \in 1 .. n - 1 PROVE TurnAt(r, i + m) = 0
  <2>1. ph[A + m + 1] = 0 /\ ph[A + (m - 1) + 1] = 0
    <3>1. m \in 0 .. n /\ m - 1 \in 0 .. n /\ m < n /\ m - 1 < n
      BY SMTT(60), <1>2
    <3> QED BY <1>9, <3>1
  <2>2. Turn(0 - 0) = 0
    BY DEF Turn
  <2>3. m \in 1 .. n
    BY <1>2
  <2> QED BY <1>8, <2>1, <2>2, <2>3
<1>11. TurnAt(r, i + n) = 2
  <2>1. ph[A + n + 1] = 2 /\ ph[A + (n - 1) + 1] = 0
    <3>1. n \in 0 .. n /\ n - 1 \in 0 .. n /\ ~(n < n) /\ n - 1 < n
      BY SMTT(60), <1>2
    <3> QED BY <1>9, <3>1
  <2>2. Turn(2 - 0) = 2
    BY DEF Turn
  <2>3. n \in 1 .. n
    BY <1>2
  <2> QED BY <1>8, <2>1, <2>2, <2>3
<1> QED BY <1>2, <1>10, <1>11

\* A sequence without its first items.
LEMMA WithoutFirst ==
  ASSUME NEW S, NEW s \in Seq(S), NEW k \in Nat, k <= Len(s)
  PROVE  /\ SubSeq(s, k + 1, Len(s)) \in Seq(S)
         /\ Len(SubSeq(s, k + 1, Len(s))) = Len(s) - k
         /\ \A i \in 1 .. Len(s) - k : SubSeq(s, k + 1, Len(s))[i] = s[k + i]
<1>1. PICK L \in Nat : L = Len(s) /\ k <= L
  BY LenProperties
<1>2. PICK from \in Nat \ {0} : from = k + 1
  OBVIOUS
<1>3. /\ SubSeq(s, from, L) \in Seq(S)
      /\ Len(SubSeq(s, from, L)) = L - from + 1
      /\ \A i \in 1 .. L - from + 1 : SubSeq(s, from, L)[i] = s[from - 1 + i]
  <2>1. from <= L + 1
    BY <1>1, <1>2
  <2> QED BY <1>1, <2>1, Stretch
<1>4. L - from + 1 = L - k /\ from - 1 = k
  BY <1>1, <1>2
<1> QED BY <1>1, <1>2, <1>3, <1>4

\* The symbols before the frame buffer and before the tagger, as one stream.
Stream(t, sy) == Untagged(t) \o sy

\* The items of the stream that the tagger and the frame buffer hold.
LEMMA StreamItems ==
  ASSUME NEW t \in Seq(TaggedSymbol), NEW sy \in Seq(Symbol)
  PROVE  /\ Stream(t, sy) \in Seq(Symbol) /\ Len(Stream(t, sy)) = Len(t) + Len(sy)
         /\ \A i \in 1 .. Len(t) : Stream(t, sy)[i] = [phase |-> t[i].phase, nth |-> t[i].nth]
         /\ \A i \in 1 .. Len(sy) : Stream(t, sy)[Len(t) + i] = sy[i]
<1>1. PICK T \in Nat : T = Len(t) /\ \A i \in 1 .. T : t[i] \in TaggedSymbol
  BY LenProperties, ElementOfSeq
<1>2. Untagged(t) \in Seq(Symbol) /\ Len(Untagged(t)) = T
  <2>1. \A i \in 1 .. T : [phase |-> t[i].phase, nth |-> t[i].nth] \in Symbol
    BY <1>1 DEF TaggedSymbol, Symbol
  <2> QED BY <1>1, <2>1, IsASeq, LenProperties DEF Untagged
<1>3. \A i \in 1 .. T : Untagged(t)[i] = [phase |-> t[i].phase, nth |-> t[i].nth]
  BY <1>1 DEF Untagged
<1>4. PICK f \in Seq(Symbol) : f = Untagged(t)
  BY <1>2
<1>5. /\ f \o sy \in Seq(Symbol) /\ Len(f \o sy) = Len(f) + Len(sy)
      /\ \A i \in 1 .. Len(f) : (f \o sy)[i] = f[i]
      /\ \A i \in 1 .. Len(sy) : (f \o sy)[Len(f) + i] = sy[i]
  BY Concatenated
<1> QED BY <1>1, <1>2, <1>3, <1>4, <1>5 DEF Stream

\* preamble_tagger_cc::work(): the stream stays as it is, and the tags keep their meaning.
NewlyTagged(y, half, sy) ==
  [n \in 1 .. y.len_preamble |->
     [phase |-> sy[n].phase, nth |-> sy[n].nth,
      sof |-> n - 1 \in Tags(y, [m \in 1 .. 2 * y.len_preamble |-> sy[m].phase], half)]]
Retagged(y, half, t, sy, t2, sy2) ==
  /\ 2 * y.len_preamble <= Len(sy)
  /\ t2 = t \o NewlyTagged(y, half, sy) /\ sy2 = SubSeq(sy, y.len_preamble + 1, Len(sy))

\* A pass of the tagger.
LEMMA TagsAdded ==
  ASSUME NEW y, Started(y), NEW half \in BOOLEAN, NEW ph \in Seq(Phase), Headed(y, ph), NEW rot \in Phase,
         NEW t \in Seq(TaggedSymbol), NEW sy \in Seq(Symbol), NEW a, NEW w, NEW gone,
         Coming(ph, rot, Stream(t, sy), a, w, gone), TagsTell(y, half, t, Stream(t, sy), gone),
         NEW t2, NEW sy2, Retagged(y, half, t, sy, t2, sy2)
  PROVE  /\ t2 \in Seq(TaggedSymbol) /\ sy2 \in Seq(Symbol)
         /\ Stream(t2, sy2) = Stream(t, sy)
         /\ TagsTell(y, half, t2, Stream(t, sy), gone)
<1>1. PICK n \in Nat, T \in Nat, Z \in Nat :
        n = y.len_preamble /\ 2 <= n /\ T = Len(t) /\ Z = Len(sy) /\ n + n <= Z /\ n <= Z
  <2>1. PICK n \in Nat : n = y.len_preamble /\ 2 <= n
    BY DEF Started
  <2>2. PICK T \in Nat, Z \in Nat : T = Len(t) /\ Z = Len(sy)
    BY LenProperties
  <2>3. 2 * n <= Z
    BY <2>1, <2>2 DEF Retagged
  <2>4. n + n <= Z /\ n <= Z
    BY <2>3
  <2> QED BY <2>1, <2>2, <2>4
<1>a. \A i \in 1 .. Z : sy[i] \in Symbol
  BY <1>1, ElementOfSeq
<1>2. PICK r \in Seq(Symbol) : /\ r = Stream(t, sy) /\ Len(r) = T + Z
                               /\ \A i \in 1 .. T : r[i] = [phase |-> t[i].phase, nth |-> t[i].nth]
                               /\ \A i \in 1 .. Z : r[T + i] = sy[i]
  BY <1>1, StreamItems
<1>3. PICK window, tags : /\ window = [m \in 1 .. 2 * n |-> sy[m].phase] /\ tags = Tags(y, window, half)
                          /\ TagsRight(n, window, half, tags)
  BY <1>1, TagsPlaces
<1>4. PICK new \in Seq(TaggedSymbol) :
        /\ new = NewlyTagged(y, half, sy) /\ Len(new) = n
        /\ \A m \in 1 .. n : new[m] = [phase |-> sy[m].phase, nth |-> sy[m].nth, sof |-> m - 1 \in tags]
  <2> DEFINE f == [m \in 1 .. n |-> [phase |-> sy[m].phase, nth |-> sy[m].nth, sof |-> m - 1 \in tags]]
  <2>1. f = NewlyTagged(y, half, sy)
    BY <1>1, <1>3 DEF NewlyTagged
  <2>2. \A m \in 1 .. n : f[m] \in TaggedSymbol
    <3> SUFFICES ASSUME NEW m \in 1 .. n PROVE f[m] \in TaggedSymbol
      OBVIOUS
    <3>1. m \in 1 .. Z
      BY <1>1
    <3>2. sy[m] \in Symbol
      BY <1>a, <3>1
    <3> QED BY <3>2 DEF Symbol, TaggedSymbol
  <2>3. f \in Seq(TaggedSymbol) /\ Len(f) = n
    BY <2>2, IsASeq, LenProperties
  <2>4. \A m \in 1 .. n : f[m] = [phase |-> sy[m].phase, nth |-> sy[m].nth, sof |-> m - 1 \in tags]
    OBVIOUS
  <2> QED BY <2>1, <2>3, <2>4
<1>5. /\ t2 \in Seq(TaggedSymbol) /\ Len(t2) = T + n
      /\ \A i \in 1 .. T : t2[i] = t[i]
      /\ \A i \in 1 .. n : t2[T + i] = new[i]
  <2>1. t2 = t \o new /\ Len(t) = T /\ Len(new) = n
    BY <1>1, <1>4 DEF Retagged
  <2>2. t \o new \in Seq(TaggedSymbol) /\ Len(t \o new) = Len(t) + Len(new)
        /\ (\A i \in 1 .. Len(t) : (t \o new)[i] = t[i])
        /\ \A i \in 1 .. Len(new) : (t \o new)[Len(t) + i] = new[i]
    BY Concatenated
  <2> QED BY <2>1, <2>2
<1>6. /\ sy2 \in Seq(Symbol) /\ Len(sy2) = Z - n
      /\ \A i \in 1 .. Z - n : sy2[i] = sy[n + i]
  <2>1. sy2 = SubSeq(sy, n + 1, Len(sy)) /\ Len(sy) = Z /\ n <= Len(sy)
    BY <1>1 DEF Retagged
  <2> QED BY <2>1, WithoutFirst
<1>7. Stream(t2, sy2) = r
  <2>0. PICK K \in Nat, M \in Nat : K = T + n /\ M = Z - n
    <3>1. T + n \in Nat /\ Z - n \in Nat
      BY <1>1
    <3> QED BY <3>1
  <2>1. PICK r2 \in Seq(Symbol) :
          /\ r2 = Stream(t2, sy2) /\ Len(r2) = K + M
          /\ \A i \in 1 .. K : r2[i] = [phase |-> t2[i].phase, nth |-> t2[i].nth]
          /\ \A i \in 1 .. M : r2[K + i] = sy2[i]
    <3>1. Len(t2) = K /\ Len(sy2) = M
      BY <1>5, <1>6, <2>0
    <3>2. /\ Stream(t2, sy2) \in Seq(Symbol) /\ Len(Stream(t2, sy2)) = Len(t2) + Len(sy2)
          /\ \A i \in 1 .. Len(t2) : Stream(t2, sy2)[i] = [phase |-> t2[i].phase, nth |-> t2[i].nth]
          /\ \A i \in 1 .. Len(sy2) : Stream(t2, sy2)[Len(t2) + i] = sy2[i]
      BY <1>5, <1>6, StreamItems
    <3> QED BY <3>1, <3>2
  <2>2. Len(r2) = Len(r)
    <3>1. K + M = T + Z
      BY <2>0
    <3> QED BY <1>2, <2>1, <3>1
  <2>3. ASSUME NEW i \in 1 .. T + Z PROVE r2[i] = r[i]
    <3>1. CASE i <= T
      <4>1. i \in 1 .. T /\ i \in 1 .. K
        BY <2>0, <3>1
      <4> QED BY ZenonT(60), <1>2, <1>5, <2>1, <4>1
    <3>2. CASE T < i /\ i <= T + n
      <4>1. PICK e \in 1 .. n : i = T + e /\ i \in 1 .. K /\ e \in 1 .. Z
        <5>1. i \in Nat
          OBVIOUS
        <5>2. PICK e \in Nat : i = T + e
          <6>1. i - T \in Nat /\ i = T + (i - T)
            BY <3>2, <5>1
          <6> QED BY <6>1
        <5>3. e \in 1 .. n /\ e \in 1 .. Z
          BY SMTT(60), <1>1, <3>2, <5>2
        <5>4. i \in 1 .. K
          BY <2>0, <3>2, <5>1
        <5> QED BY <5>2, <5>3, <5>4
      <4>2. r2[i] = [phase |-> sy[e].phase, nth |-> sy[e].nth]
        <5>1. t2[i] = new[e]
          BY <1>5, <4>1
        <5>2. new[e].phase = sy[e].phase /\ new[e].nth = sy[e].nth
          BY <1>4
        <5>3. r2[i] = [phase |-> t2[i].phase, nth |-> t2[i].nth]
          BY <2>1, <4>1
        <5> QED BY <5>1, <5>2, <5>3
      <4>3. r[i] = sy[e] /\ sy[e] \in Symbol
        BY <1>a, <1>2, <4>1
      <4> QED BY <4>2, <4>3 DEF Symbol
    <3>3. CASE T + n < i
      <4>1. PICK e \in 1 .. M : i = K + e
        <5>1. i - K \in 1 .. M /\ i = K + (i - K)
          BY <2>0, <3>3
        <5> QED BY <5>1
      <4>2. r2[i] = sy[n + e]
        BY <1>6, <2>0, <2>1, <4>1
      <4>3. n + e \in 1 .. Z /\ i = T + (n + e)
        BY <2>0, <4>1
      <4>4. r[i] = sy[n + e]
        BY <1>2, <4>3
      <4> QED BY <4>2, <4>4
    <3> QED BY <3>1, <3>2, <3>3
  <2> QED BY <1>2, <2>1, <2>2, <2>3, SeqEqual
<1>8. ASSUME NEW i \in 1 .. T
      PROVE  /\ t2[i].sof => RunAt(n, half, r, i)
             /\ t2[i].nth % y.nsym_frame = 0 /\ ~ HitIn(y.nsym_frame, gone, t2[i].nth \div y.nsym_frame) => t2[i].sof
  <2>1. t2[i] = t[i] /\ i \in 1 .. Len(t)
    BY <1>1, <1>5
  <2> QED BY <1>1, <1>2, <2>1 DEF TagsTell
<1>9. ASSUME NEW m \in 1 .. n, NEW i \in Nat, i = T + m
      PROVE  /\ t2[i].sof => RunAt(n, half, r, i)
             /\ t2[i].nth % y.nsym_frame = 0 /\ ~ HitIn(y.nsym_frame, gone, t2[i].nth \div y.nsym_frame) => t2[i].sof
  <2>1. i + n <= Len(r) /\ i \in 1 .. Len(r)
    <3>1. i + n <= T + Z /\ i \in 1 .. T + Z
      BY SMTT(60), <1>1, <1>9
    <3> QED BY <1>2, <3>1
  <2>2. t2[i].sof = (m - 1 \in tags) /\ t2[i].nth = sy[m].nth /\ r[i] = sy[m]
    <3>1. t2[i] = new[m]
      BY <1>5, <1>9
    <3>2. m \in 1 .. Z
      BY <1>1
    <3>3. r[i] = sy[m]
      BY <1>2, <1>9, <3>2
    <3> QED BY <1>4, <3>1, <3>3
  <2>3. ASSUME NEW e \in 1 .. n PROVE TurnAt(r, i + e) = WindowTurn(window, (m - 1) + e)
    <3>1. /\ m + e \in 1 .. Z /\ (m + e) - 1 \in 1 .. Z
          /\ i + e = T + (m + e) /\ (i + e) - 1 = T + ((m + e) - 1)
      BY SMTT(60), <1>1, <1>9
    <3>2. r[i + e] = sy[m + e] /\ r[(i + e) - 1] = sy[(m + e) - 1]
      BY <1>2, <3>1
    <3>3. PICK k \in Nat : k = (m - 1) + e /\ k + 1 = m + e /\ k = (m + e) - 1 /\ k \in 1 .. 2 * n /\ k + 1 \in 1 .. 2 * n
      BY SMTT(60), <1>1
    <3>4. window[k + 1] = sy[m + e].phase /\ window[k] = sy[(m + e) - 1].phase
      BY <1>3, <3>3
    <3> QED BY <3>2, <3>3, <3>4 DEF TurnAt, WindowTurn
  <2>4. m - 1 \in 0 .. n - 1
    BY <1>1
  <2>5. \A e \in 1 .. n - 1 : e \in 1 .. n
    BY <1>1
  <2>6. ASSUME t2[i].sof PROVE RunAt(n, half, r, i)
    <3>1. /\ \A e \in 1 .. n - 1 : WindowTurn(window, (m - 1) + e) \in Small(half)
          /\ WindowTurn(window, (m - 1) + n) # 0
      BY <1>3, <2>2, <2>6 DEF TagsRight
    <3>2. \A e \in 1 .. n - 1 : TurnAt(r, i + e) \in Small(half)
      BY <2>3, <2>5, <3>1
    <3>3. n \in 1 .. n
      BY <1>1
    <3>4. TurnAt(r, i + n) # 0
      BY <2>3, <3>1, <3>3
    <3> QED BY <2>1, <3>2, <3>4 DEF RunAt
  <2>7. ASSUME t2[i].nth % y.nsym_frame = 0, ~ HitIn(y.nsym_frame, gone, t2[i].nth \div y.nsym_frame)
        PROVE  t2[i].sof
    <3>1. /\ r[i].nth % y.nsym_frame = 0 /\ ~ HitIn(y.nsym_frame, gone, r[i].nth \div y.nsym_frame)
          /\ Coming(ph, rot, r, a, w, gone) /\ i + y.len_preamble <= Len(r)
      BY <1>1, <1>2, <2>1, <2>2, <2>7
    <3>2. /\ \A e \in 1 .. y.len_preamble - 1 : TurnAt(r, i + e) = 0
          /\ TurnAt(r, i + y.len_preamble) = 2
      <4> HIDE <1>1, <1>2, <1>3, <1>4, <1>5, <1>6, <2>7, <2>2
      <4> QED BY <2>1, <3>1, PreambleTurns
    <3>3. n \in 1 .. n
      BY <1>1
    <3>4. /\ \A e \in 1 .. n - 1 : WindowTurn(window, (m - 1) + e) = 0
          /\ WindowTurn(window, (m - 1) + n) # 0
      <4>1. (\A e \in 1 .. n - 1 : TurnAt(r, i + e) = 0) /\ TurnAt(r, i + n) = 2
        BY <1>1, <3>2
      <4>2. \A e \in 1 .. n - 1 : WindowTurn(window, (m - 1) + e) = 0
        BY <2>3, <2>5, <4>1
      <4>3. WindowTurn(window, (m - 1) + n) = 2
        BY <2>3, <3>3, <4>1
      <4> QED BY <4>2, <4>3
    <3>5. m - 1 \in tags
      BY <1>3, <2>4, <3>4 DEF TagsRight
    <3> QED BY <2>2, <3>5
  <2> QED BY <2>6, <2>7
<1>10. ASSUME NEW i \in 1 .. T + n
       PROVE  /\ t2[i].sof => RunAt(n, half, r, i)
              /\ t2[i].nth % y.nsym_frame = 0 /\ ~ HitIn(y.nsym_frame, gone, t2[i].nth \div y.nsym_frame) => t2[i].sof
  <2>1. CASE i <= T
    BY <1>8, <2>1
  <2>2. CASE T < i
    <3>1. PICK m \in 1 .. n : i = T + m
      <4>1. i - T \in 1 .. n /\ i = T + (i - T)
        BY <2>2
      <4> QED BY <4>1
    <3>2. i \in Nat
      BY <1>1
    <3> QED BY <1>9, <3>1, <3>2
  <2> QED BY <1>1, <2>1, <2>2
<1>11. TagsTell(y, half, t2, r, gone)
  BY <1>1, <1>5, <1>10 DEF TagsTell
<1> QED BY <1>2, <1>5, <1>6, <1>7, <1>11

-----------------------------------------------------------------------------
(***************************************************************************)
(* How many chips come from how many bits, whatever the packets are.       *)
(***************************************************************************)

\* The places of the words.
Placing(m, N) ==
  \A k \in 1 .. N : \A j \in 1 .. m :
    \A i : i = m * (k - 1) + j => i \in 1 .. m * N /\ (i - 1) \div m + 1 = k /\ ((i - 1) % m) + 1 = j

\* They lie where quotient and remainder say.
LEMMA PlacesPlaced ==
  ASSUME NEW m \in Nat \ {0}, NEW N \in Nat
  PROVE  Placing(m, N)
<1>1. ASSUME NEW k \in 1 .. N, NEW j \in 1 .. m, NEW i, i = m * (k - 1) + j
      PROVE  i \in 1 .. m * N /\ (i - 1) \div m + 1 = k /\ ((i - 1) % m) + 1 = j
  BY <1>1, Places
<1> QED BY <1>1, Zenon DEF Placing

\* Words of m items one behind the other.
Laid(word, m, N) == [i \in 1 .. m * N |-> word[(i - 1) \div m + 1][((i - 1) % m) + 1]]
Words(S, word, m, N) == \A k \in 1 .. N : word[k] \in Seq(S) /\ Len(word[k]) = m

\* So laid, they are a sequence.
LEMMA WordsLaid ==
  ASSUME NEW S, NEW m \in Nat \ {0}, NEW N \in Nat, NEW word,
         Words(S, word, m, N), NEW c, c = Laid(word, m, N)
  PROVE  c \in Seq(S) /\ Len(c) = m * N
<1>9. Placing(m, N)
  BY PlacesPlaced
<1>0. ASSUME NEW k \in 1 .. N, NEW j \in 1 .. m PROVE c[m * (k - 1) + j] = word[k][j]
  <2>1. PICK i : i = m * (k - 1) + j
    OBVIOUS
  <2>4. \A h \in 1 .. m : \A l : l = m * (k - 1) + h => l \in 1 .. m * N /\ (l - 1) \div m + 1 = k /\ ((l - 1) % m) + 1 = h
    BY <1>9, Zenon DEF Placing
  <2>5. \A l : l = m * (k - 1) + j => l \in 1 .. m * N /\ (l - 1) \div m + 1 = k /\ ((l - 1) % m) + 1 = j
    BY <2>4, Zenon
  <2>2. i \in 1 .. m * N /\ (i - 1) \div m + 1 = k /\ ((i - 1) % m) + 1 = j
    BY <2>1, <2>5, Zenon
  <2>3. c[i] = word[k][j]
    BY <2>2 DEF Laid
  <2> QED BY <2>1, <2>3
<1>1. ASSUME NEW i \in 1 .. m * N PROVE c[i] \in S
  <2>1. PICK k \in 1 .. N : \E j \in 1 .. m : i = m * (k - 1) + j
    BY PlaceOf
  <2>2. PICK j \in 1 .. m : i = m * (k - 1) + j
    BY <2>1
  <2>4. c[i] = word[k][j]
    BY <1>0, <2>2
  <2>5. PICK w \in Seq(S) : w = word[k] /\ Len(w) = m
    BY DEF Words
  <2>6. w[j] \in S
    BY <2>5, LenProperties
  <2> QED BY <2>4, <2>5, <2>6
<1>2. m * N \in Nat
  OBVIOUS
<1>3. c = [i \in 1 .. m * N |-> c[i]]
  BY DEF Laid
<1>4. [i \in 1 .. m * N |-> c[i]] \in Seq(S)
  BY <1>1, <1>2, IsASeq
<1>5. c \in Seq(S) /\ DOMAIN c = 1 .. m * N
  BY <1>3, <1>4
<1> QED BY <1>2, <1>5, LenProperties

\* The whole groups of a sequence, and what is left behind them.
CutOff(S, s, n, G) ==
  /\ G \in Nat /\ Groups(s, n) = G /\ n * G \in Nat /\ n * G <= Len(s) /\ Len(s) < n * G + n
  /\ Whole(s, n) \in Seq(S) /\ Len(Whole(s, n)) = n * G
  /\ Rest(s, n) \in Seq(S) /\ Len(Rest(s, n)) = Len(s) - n * G
  /\ \A k \in 1 .. G : Group(s, n, k) \in Seq(S) /\ Len(Group(s, n, k)) = n

\* Groups, Whole and Rest cut a sequence so.
LEMMA WholeAndRest ==
  ASSUME NEW S, NEW s \in Seq(S), NEW n \in Nat \ {0}
  PROVE  \E G \in Nat : G = Len(s) \div n /\ CutOff(S, s, n, G)
<1>1. PICK L \in Nat : L = Len(s)
  BY LenProperties
<1>2. PICK G \in Nat : G = L \div n
  <2>1. L \div n \in Nat
    OBVIOUS
  <2> QED BY <2>1
<1>3. PICK K \in Nat : K = n * G /\ K <= L /\ L < K + n /\ K = G * n
  <2>1. L = n * (L \div n) + (L % n) /\ L % n \in 0 .. n - 1
    OBVIOUS
  <2>2. PICK K \in Nat : K = n * G
    OBVIOUS
  <2>3. PICK R \in 0 .. n - 1 : R = L % n
    BY <2>1
  <2>4. L = K + R
    BY <1>2, <2>1, <2>2, <2>3
  <2>5. K = G * n
    BY <2>2
  <2> QED BY <2>2, <2>4, <2>5
<1>4. Groups(s, n) = G
  BY <1>1, <1>2 DEF Groups
<1>5. Whole(s, n) \in Seq(S) /\ Len(Whole(s, n)) = K
  <2>1. Whole(s, n) = SubSeq(s, 1, K)
    BY <1>3, <1>4 DEF Whole
  <2>2. SubSeq(s, 1, K) \in Seq(S) /\ Len(SubSeq(s, 1, K)) = K - 1 + 1
    <3>1. 1 \in Nat \ {0} /\ 1 <= K + 1 /\ K <= Len(s)
      BY <1>1, <1>3
    <3> QED BY <3>1, Stretch
  <2> QED BY <2>1, <2>2
<1>6. Rest(s, n) \in Seq(S) /\ Len(Rest(s, n)) = L - K
  <2>1. Rest(s, n) = SubSeq(s, K + 1, Len(s))
    BY <1>3, <1>4 DEF Rest
  <2> QED BY <1>1, <1>3, <2>1, WithoutFirst
<1>7. ASSUME NEW k \in 1 .. G PROVE Group(s, n, k) \in Seq(S) /\ Len(Group(s, n, k)) = n
  <2>1. PICK a \in Nat : a = n * (k - 1)
    <3>1. k - 1 \in Nat
      OBVIOUS
    <3>2. n * (k - 1) \in Nat
      BY <3>1
    <3> QED BY <3>2
  <2>2. (k - 1) * n + 1 = a + 1 /\ k * n = a + n
    BY <2>1
  <2>3. a + n <= L
    <3>1. n \in 1 .. n
      OBVIOUS
    <3>2. a + n \in 1 .. n * G
      BY <2>1, <3>1, Places
    <3> QED BY <1>3, <3>2
  <2>4. Group(s, n, k) = SubSeq(s, a + 1, a + n)
    BY <2>2 DEF Group
  <2>5. SubSeq(s, a + 1, a + n) \in Seq(S) /\ Len(SubSeq(s, a + 1, a + n)) = (a + n) - (a + 1) + 1
    <3>1. a + 1 \in Nat \ {0} /\ a + n \in Nat /\ a + 1 <= (a + n) + 1 /\ a + n <= Len(s)
      BY <1>1, <2>3
    <3> QED BY <3>1, Stretch
  <2>6. (a + n) - (a + 1) + 1 = n
    OBVIOUS
  <2> QED BY <2>4, <2>5, <2>6
<1> QED BY <1>1, <1>2, <1>3, <1>4, <1>5, <1>6, <1>7 DEF CutOff

\* bin2dec() of as many bits as a codeword takes.
LEMMA BitsNumber ==
  ASSUME NEW g \in Seq(Bit), NEW n \in 1 .. 6, Len(g) = n
  PROVE  Bin2Dec(g) \in Nat /\ Bin2Dec(g) < 2^n
<1> DEFINE Body(f) == [i \in 0 .. Len(g) |-> IF i = 0 THEN 0 ELSE 2 * f[i - 1] + g[i]]
           u == CHOOSE f : f = Body(f)
           w == [i \in 0 .. n |-> IF i = 0 THEN 0
                                  ELSE IF i = 1 THEN 2 * 0 + g[1]
                                  ELSE IF i = 2 THEN 2 * (2 * 0 + g[1]) + g[2]
                                  ELSE IF i = 3 THEN 2 * (2 * (2 * 0 + g[1]) + g[2]) + g[3]
                                  ELSE IF i = 4 THEN 2 * (2 * (2 * (2 * 0 + g[1]) + g[2]) + g[3]) + g[4]
                                  ELSE IF i = 5 THEN 2 * (2 * (2 * (2 * (2 * 0 + g[1]) + g[2]) + g[3]) + g[4]) + g[5]
                                  ELSE 2 * (2 * (2 * (2 * (2 * (2 * 0 + g[1]) + g[2]) + g[3]) + g[4]) + g[5]) + g[6]]
<1>1. \A i \in 1 .. n : g[i] \in 0 .. 1
  <2>1. Bit = 0 .. 1
    BY DEF Bit
  <2> QED BY <2>1, LenProperties
<1>2. w = Body(w)
  <2>1. ASSUME NEW i \in 0 .. n PROVE w[i] = IF i = 0 THEN 0 ELSE 2 * w[i - 1] + g[i]
    <3>1. i = 0 \/ i = 1 \/ i = 2 \/ i = 3 \/ i = 4 \/ i = 5 \/ i = 6
      OBVIOUS
    <3>2. i # 0 => i - 1 \in 0 .. n
      OBVIOUS
    <3> QED BY <3>1, <3>2
  <2>2. w = [i \in 0 .. n |-> w[i]]
    OBVIOUS
  <2> HIDE DEF w
  <2> QED BY <2>1, <2>2
<1>3. Bin2Dec(g) = u[n]
  BY DEF Bin2Dec
<1>4. u = Body(u)
  <2> HIDE DEF Body, w
  <2> QED BY <1>2, Zenon
<1> HIDE DEF u
<1>5. \A i \in 0 .. n : u[i] = IF i = 0 THEN 0 ELSE 2 * u[i - 1] + g[i]
  BY <1>4
<1> HIDE DEF Body, w
<1>6. u[0] = 0
  BY <1>5
<1>7. ASSUME NEW i \in 1 .. n, NEW m \in Nat, u[i - 1] \in 0 .. m - 1 PROVE u[i] \in 0 .. 2 * m - 1
  <2>1. u[i] = 2 * u[i - 1] + g[i]
    BY <1>5
  <2>2. PICK x \in 0 .. m - 1, z \in 0 .. 1 : x = u[i - 1] /\ z = g[i]
    BY <1>1, <1>7
  <2> QED BY SMTT(60), <2>1, <2>2
<1>11. u[1] \in 0 .. 1
  <2>1. u[1 - 1] \in 0 .. 1 - 1 /\ 1 \in 1 .. n
    BY <1>6
  <2>2. u[1] \in 0 .. 2 * 1 - 1
    BY <1>7, <2>1
  <2> QED BY <2>2
<1>12. n >= 2 => u[2] \in 0 .. 3
  <2> SUFFICES ASSUME n >= 2 PROVE u[2] \in 0 .. 3
    OBVIOUS
  <2>1. u[2 - 1] \in 0 .. 2 - 1 /\ 2 \in 1 .. n
    BY <1>11
  <2>2. u[2] \in 0 .. 2 * 2 - 1
    BY <1>7, <2>1
  <2> QED BY <2>2
<1>13. n >= 3 => u[3] \in 0 .. 7
  <2> SUFFICES ASSUME n >= 3 PROVE u[3] \in 0 .. 7
    OBVIOUS
  <2>1. u[3 - 1] \in 0 .. 4 - 1 /\ 3 \in 1 .. n
    BY <1>12
  <2>2. u[3] \in 0 .. 2 * 4 - 1
    BY <1>7, <2>1
  <2> QED BY <2>2
<1>14. n >= 4 => u[4] \in 0 .. 15
  <2> SUFFICES ASSUME n >= 4 PROVE u[4] \in 0 .. 15
    OBVIOUS
  <2>1. u[4 - 1] \in 0 .. 8 - 1 /\ 4 \in 1 .. n
    BY <1>13
  <2>2. u[4] \in 0 .. 2 * 8 - 1
    BY <1>7, <2>1
  <2> QED BY <2>2
<1>15. n >= 5 => u[5] \in 0 .. 31
  <2> SUFFICES ASSUME n >= 5 PROVE u[5] \in 0 .. 31
    OBVIOUS
  <2>1. u[5 - 1] \in 0 .. 16 - 1 /\ 5 \in 1 .. n
    BY <1>14
  <2>2. u[5] \in 0 .. 2 * 16 - 1
    BY <1>7, <2>1
  <2> QED BY <2>2
<1>16. n >= 6 => u[6] \in 0 .. 63
  <2> SUFFICES ASSUME n >= 6 PROVE u[6] \in 0 .. 63
    OBVIOUS
  <2>1. u[6 - 1] \in 0 .. 32 - 1 /\ 6 \in 1 .. n
    BY <1>15
  <2>2. u[6] \in 0 .. 2 * 32 - 1
    BY <1>7, <2>1
  <2> QED BY <2>2
<1>17. n = 1 \/ n = 2 \/ n = 3 \/ n = 4 \/ n = 5 \/ n = 6
  OBVIOUS
<1>18. u[n] \in Nat /\ u[n] < 2^n
  <2>1. CASE n = 1
    BY 2^1 = 2, <1>11, <2>1
  <2>2. CASE n = 2
    BY 2^2 = 4, <1>12, <2>2
  <2>3. CASE n = 3
    BY 2^3 = 8, <1>13, <2>3
  <2>4. CASE n = 4
    <3>1. u[4] \in 0 .. 15
      BY <1>14, <2>4
    <3>2. u[4] \in Nat /\ u[4] < 16
      <4>1. PICK x \in 0 .. 15 : x = u[4]
        BY <3>1
      <4>2. x \in Nat /\ x < 16
        OBVIOUS
      <4> QED BY <4>1, <4>2
    <3>3. 2^4 = 16
      OBVIOUS
    <3> QED BY <2>4, <3>2, <3>3
  <2>5. CASE n = 5
    <3>1. u[5] \in 0 .. 31
      BY <1>15, <2>5
    <3>2. u[5] \in Nat /\ u[5] < 32
      <4>1. PICK x \in 0 .. 31 : x = u[5]
        BY <3>1
      <4>2. x \in Nat /\ x < 32
        OBVIOUS
      <4> QED BY <4>1, <4>2
    <3>3. 2^5 = 32
      OBVIOUS
    <3> QED BY <2>5, <3>2, <3>3
  <2>6. CASE n = 6
    <3>1. u[6] \in 0 .. 63
      BY <1>16, <2>6
    <3>2. u[6] \in Nat /\ u[6] < 64
      <4>1. PICK x \in 0 .. 63 : x = u[6]
        BY <3>1
      <4>2. x \in Nat /\ x < 64
        OBVIOUS
      <4> QED BY <4>1, <4>2
    <3>3. 2^6 = 64
      OBVIOUS
    <3> QED BY <2>6, <3>2, <3>3
  <2> QED BY <1>17, <2>1, <2>2, <2>3, <2>4, <2>5, <2>6
<1> QED BY <1>3, <1>18

\* codeword_mapper_bi gives a codeword for every whole group of bits.
LEMMA MapperChips ==
  ASSUME NEW y, Worded(y), NEW s \in Seq(Bit)
  PROVE  /\ CodewordMapper(y, s) \in Seq(Chip)
         /\ Len(CodewordMapper(y, s)) = CodeLen(y) * (Len(s) \div y.bits_per_symbol)
<1>1. PICK m \in Nat \ {0}, n \in 1 .. 6 : m = CodeLen(y) /\ n = y.bits_per_symbol
  BY DEF Worded
<1>2. PICK w : w = y.codewords
  OBVIOUS
<1>3. PICK G \in Nat : G = Len(s) \div n /\ CutOff(Bit, s, n, G)
  <2>1. n \in Nat \ {0}
    OBVIOUS
  <2> QED BY <2>1, WholeAndRest
<1> DEFINE Word(k) == w[Bin2Dec(Group(s, n, k)) + 1]
           words == [k \in 1 .. G |-> Word(k)]
<1>4. CodewordMapper(y, s) = Laid(words, m, G)
  <2>1. CodewordMapper(y, s) = MapGroups(LAMBDA g : w[Bin2Dec(g) + 1], s, n, m)
    BY <1>1, <1>2 DEF CodewordMapper, CodeLen
  <2>2. CodewordMapper(y, s) =
          [i \in 1 .. m * Groups(s, n) |->
             [k \in 1 .. Groups(s, n) |-> Word(k)][(i - 1) \div m + 1][((i - 1) % m) + 1]]
    BY <2>1 DEF MapGroups
  <2>3. Groups(s, n) = G
    BY <1>3 DEF CutOff
  <2> HIDE DEF Word
  <2> QED BY <2>2, <2>3, SMTT(40) DEF Laid
<1>5. Words(Chip, words, m, G)
  <2>1. ASSUME NEW k \in 1 .. G PROVE Word(k) \in Seq(Chip) /\ Len(Word(k)) = m
    <3>1. PICK g \in Seq(Bit) : g = Group(s, n, k) /\ Len(g) = n
      BY <1>3 DEF CutOff
    <3>2. Bin2Dec(g) \in Nat /\ Bin2Dec(g) < 2^n
      BY <3>1, BitsNumber
    <3>3. PICK M \in Nat : M = 2^n
      <4>1. n \in 0 .. 7
        OBVIOUS
      <4>2. 2^n \in Nat \ {0}
        BY <4>1, Powers
      <4> QED BY <4>2
    <3>4. PICK d \in 1 .. M : d = Bin2Dec(g) + 1
      <4>1. PICK x \in Nat : x = Bin2Dec(g) /\ x < M
        BY <3>2, <3>3
      <4>2. x + 1 \in 1 .. M
        BY <4>1
      <4> QED BY <4>1, <4>2
    <3>5. w \in Seq(Seq(Chip)) /\ Len(w) = M /\ Len(w[d]) = m
      <4>1. w \in Seq(Seq(Chip)) /\ Len(w) = M
        BY <1>1, <1>2, <3>3 DEF Worded
      <4>2. \A i \in 1 .. Len(w) : Len(w[i]) = m
        BY <1>1, <1>2 DEF Worded
      <4> QED BY <4>1, <4>2
    <3>6. w[d] \in Seq(Chip)
      BY <3>5, LenProperties
    <3> QED BY <3>1, <3>4, <3>5, <3>6
  <2> HIDE DEF Word
  <2> QED BY <2>1 DEF Words
<1> HIDE DEF words
<1>6. Laid(words, m, G) \in Seq(Chip) /\ Len(Laid(words, m, G)) = m * G
  BY SMTT(60), <1>5, WordsLaid
<1> QED BY <1>1, <1>3, <1>4, <1>6

\* interleaver_ii moves the chips of whole blocks about.
LEMMA InterleaverChips ==
  ASSUME NEW q, Permuting(q), NEW s \in Seq(Chip), NEW N \in Nat, Len(s) = BlockLen(q) * N
  PROVE  /\ Interleaver(q, s) \in Seq(Chip)
         /\ Len(Interleaver(q, s)) = Len(s)
<1>1. CASE q = << >>
  BY ZenonT(30), <1>1 DEF Interleaver
<1>2. CASE q # << >>
  <2>1. PICK m \in Nat \ {0} : m = Len(q) /\ BlockLen(q) = m /\ q \in Seq(Nat) /\ DOMAIN q = 1 .. m
    <3>1. q \in Seq(Nat)
      BY DEF Permuting
    <3>2. PICK t \in Seq(Nat) : t = q
      BY <3>1
    <3>3. Len(t) \in Nat /\ DOMAIN t = 1 .. Len(t)
      BY LenProperties
    <3>4. Len(t) # 0
      BY <1>2, <3>2, <3>3, EmptySeq
    <3> QED BY ZenonT(30), <1>2, <3>1, <3>2, <3>3, <3>4 DEF BlockLen
  <2>2. CutUp(Chip, s, m, N)
    BY <2>1, GroupOf
  <2> DEFINE Block(k) == [i \in DOMAIN q |-> Group(s, m, k)[q[i] + 1]]
             words == [k \in 1 .. N |-> Block(k)]
  <2>3. Interleaver(q, s) = Laid(words, m, N)
    <3>1. Interleaver(q, s) = MapGroups(LAMBDA g : [i \in DOMAIN q |-> g[q[i] + 1]], s, m, m)
      BY ZenonT(30), <1>2, <2>1 DEF Interleaver
    <3>2. Interleaver(q, s) =
            [i \in 1 .. m * Groups(s, m) |->
               [k \in 1 .. Groups(s, m) |-> Block(k)][(i - 1) \div m + 1][((i - 1) % m) + 1]]
      BY <3>1 DEF MapGroups
    <3>3. Groups(s, m) = N
      BY <2>2 DEF CutUp
    <3> HIDE DEF Block
    <3> QED BY <3>2, <3>3, SMTT(40) DEF Laid
  <2>4. Words(Chip, words, m, N)
    <3>1. ASSUME NEW k \in 1 .. N PROVE Block(k) \in Seq(Chip) /\ Len(Block(k)) = m
      <4>1. PICK g \in Seq(Chip) : g = Group(s, m, k) /\ Len(g) = m
        BY <2>2 DEF CutUp
      <4>2. ASSUME NEW i \in 1 .. m PROVE g[q[i] + 1] \in Chip
        <5>1. PICK x \in Nat : x = q[i] /\ x < m
          <6>1. q[i] < m
            BY <2>1 DEF Permuting
          <6>2. q[i] \in Nat
            BY <2>1, LenProperties
          <6> QED BY <6>1, <6>2
        <5>2. x + 1 \in 1 .. Len(g)
          BY <4>1, <5>1
        <5>3. g[x + 1] \in Chip
          BY <5>2, LenProperties
        <5> QED BY <5>1, <5>3
      <4>3. Block(k) = [i \in 1 .. m |-> g[q[i] + 1]]
        BY <2>1, <4>1
      <4>4. [i \in 1 .. m |-> g[q[i] + 1]] \in Seq(Chip)
        BY <4>2, IsASeq
      <4>5. DOMAIN Block(k) = 1 .. m
        BY <4>3
      <4> HIDE DEF Block
      <4> QED BY <4>3, <4>4, <4>5, LenProperties
    <3> HIDE DEF Block
    <3> QED BY <3>1 DEF Words
  <2> HIDE DEF words
  <2>5. Laid(words, m, N) \in Seq(Chip) /\ Len(Laid(words, m, N)) = m * N
    BY <2>4, WordsLaid
  <2> QED BY SMTT(60), <2>1, <2>3, <2>5
<1> QED BY <1>1, <1>2

-----------------------------------------------------------------------------
(***************************************************************************)
(* What the sender holds of packets of any size: both ports get as many    *)
(* bits, and put out as many chips.                                        *)
(***************************************************************************)
EvenBits(s) == s \in Seq(Bit) /\ \E h \in Nat : Len(s) = 2 * h
Messages(msgs) == msgs \in Seq(Seq(Bit)) /\ \A i \in 1 .. Len(msgs) : EvenBits(msgs[i])
Twins(S, c) == c[0] \in Seq(S) /\ c[1] \in Seq(S) /\ Len(c[0]) = Len(c[1])
Intake ==
  /\ Twins(Bit, toMapper) /\ Twins(Chip, toIntlv) /\ Twins(Chip, toPrefixer)
  /\ EvenBits(dbuf) /\ Messages(toPad)

\* Even numbers of bits, one behind the other.
LEMMA EvenSum ==
  ASSUME NEW s, EvenBits(s), NEW t, EvenBits(t)
  PROVE  EvenBits(s \o t)
<1>1. PICK a \in Nat, b \in Nat : Len(s) = 2 * a /\ Len(t) = 2 * b
  BY DEF EvenBits
<1>2. s \in Seq(Bit) /\ t \in Seq(Bit)
  BY DEF EvenBits
<1>3. s \o t \in Seq(Bit) /\ Len(s \o t) = Len(s) + Len(t)
  BY <1>2, Concatenated
<1>4. PICK h \in Nat : h = a + b /\ 2 * h = 2 * a + 2 * b
  <2>1. a + b \in Nat /\ 2 * (a + b) = 2 * a + 2 * b
    OBVIOUS
  <2> QED BY <2>1
<1> QED BY <1>1, <1>3, <1>4 DEF EvenBits

\* Messages are added behind and taken in front.
LEMMA MessageAdded ==
  ASSUME NEW msgs, Messages(msgs), NEW b, EvenBits(b)
  PROVE  Messages(Append(msgs, b))
<1>1. msgs \in Seq(Seq(Bit)) /\ b \in Seq(Bit)
  BY DEF Messages, EvenBits
<1>2. PICK N \in Nat : N = Len(msgs)
  BY <1>1, LenProperties
<1>3. PICK m2 : m2 = Append(msgs, b)
  OBVIOUS
<1>4. m2 \in Seq(Seq(Bit)) /\ Len(m2) = N + 1 /\ (\A i \in 1 .. N : m2[i] = msgs[i]) /\ m2[N + 1] = b
  BY <1>1, <1>2, <1>3, AppendProperties
<1>5. ASSUME NEW i \in 1 .. N + 1 PROVE EvenBits(m2[i])
  <2>1. CASE i = N + 1
    BY <1>4, <2>1
  <2>2. CASE i \in 1 .. N
    <3>1. EvenBits(msgs[i])
      BY <1>2, <2>2 DEF Messages
    <3> QED BY <1>4, <2>2, <3>1
  <2> QED BY <2>1, <2>2
<1> QED BY <1>3, <1>4, <1>5 DEF Messages

\* A message taken from the port leaves messages there.
LEMMA MessageTaken ==
  ASSUME NEW msgs, Messages(msgs), msgs # << >>
  PROVE  EvenBits(Head(msgs)) /\ Messages(Tail(msgs))
<1>1. msgs \in Seq(Seq(Bit))
  BY DEF Messages
<1>2. PICK N \in Nat \ {0} : N = Len(msgs)
  BY <1>1, EmptySeq
<1>3. PICK t : t = Tail(msgs)
  OBVIOUS
<1>4. t \in Seq(Seq(Bit)) /\ Len(t) = N - 1 /\ \A i \in 1 .. N - 1 : t[i] = msgs[i + 1]
  BY <1>1, <1>2, <1>3, HeadTailProperties
<1>5. ASSUME NEW i \in 1 .. N - 1 PROVE EvenBits(t[i])
  <2>1. i + 1 \in 1 .. N
    OBVIOUS
  <2>2. EvenBits(msgs[i + 1])
    BY <1>2, <2>1 DEF Messages
  <2> QED BY <1>4, <2>2
<1>6. EvenBits(Head(msgs))
  <2>1. Head(msgs) = msgs[1] /\ 1 \in 1 .. N
    BY <1>1, <1>2
  <2>2. EvenBits(msgs[1])
    BY <1>2, <2>1 DEF Messages
  <2> QED BY <2>1, <2>2
<1> QED BY <1>3, <1>4, <1>5, <1>6 DEF Messages

\* phr_prefixer accepts a packet, or the end of the file.
LEMMA IntakeAccepts ==
  ASSUME Intake, Shaped(phy), NEW p \in Seq(Byte), PrefixPhrHandler(p)
  PROVE  Intake'
<1>1. EvenBits(PrefixPhr(phy.phr, p))
  <2>1. EvenBits(phy.phr)
    <3>1. phy.phr \in Seq(Bit) /\ Len(phy.phr) = 12
      BY DEF Shaped, Padded, PhrLen
    <3>2. 12 = 2 * 6 /\ 6 \in Nat
      OBVIOUS
    <3> QED BY <3>1, <3>2 DEF EvenBits
  <2>2. EvenBits(Unpack(p))
    <3>1. Unpack(p) \in Seq(Bit) /\ Len(Unpack(p)) = 8 * Len(p)
      BY UnpackedBits DEF Byte
    <3>2. PICK L \in Nat : L = Len(p)
      BY LenProperties
    <3>3. 8 * L = 2 * (4 * L) /\ 4 * L \in Nat
      OBVIOUS
    <3> QED BY <3>1, <3>2, <3>3 DEF EvenBits
  <2> QED BY <2>1, <2>2, EvenSum DEF PrefixPhr
<1>2. Messages(toPad')
  <2>1. Messages(toPad) /\ toPad' = Append(toPad, PrefixPhr(phy.phr, p))
    BY DEF Intake, PrefixPhrHandler
  <2> QED BY <1>1, <2>1, MessageAdded
<1>3. toMapper' = toMapper /\ toIntlv' = toIntlv /\ toPrefixer' = toPrefixer /\ dbuf' = dbuf
  BY DEF PrefixPhrHandler
<1> QED BY <1>2, <1>3 DEF Intake

\* phr_prefixer at the end of the file.
LEMMA IntakeEnds ==
  ASSUME Intake, PrefixPhrEof
  PROVE  Intake'
<1>1. EvenBits(EOF)
  <2>1. << >> \in Seq(Bit) /\ Len(<< >>) = 0 /\ 0 = 2 * 0
    OBVIOUS
  <2> QED BY <2>1 DEF EvenBits, EOF
<1>2. Messages(toPad')
  <2>1. Messages(toPad) /\ toPad' = Append(toPad, EOF)
    BY DEF Intake, PrefixPhrEof
  <2> QED BY <1>1, <2>1, MessageAdded
<1>3. toMapper' = toMapper /\ toIntlv' = toIntlv /\ toPrefixer' = toPrefixer /\ dbuf' = dbuf
  BY DEF PrefixPhrEof
<1> QED BY <1>2, <1>3 DEF Intake

\* zeropadding_b takes a message.
LEMMA IntakePads ==
  ASSUME Intake, Shaped(phy), PadZeros
  PROVE  Intake'
<1>1. EvenBits(Head(toPad)) /\ Messages(Tail(toPad))
  <2>1. Messages(toPad) /\ toPad # << >>
    BY DEF Intake, PadZeros
  <2> QED BY <2>1, MessageTaken
<1>2. EvenBits([i \in 1 .. phy.padded_zeros |-> 0])
  <2>1. PICK z \in Nat : z = phy.padded_zeros /\ \E h \in Nat : z = 2 * h
    BY DEF Shaped, Padded
  <2>2. PICK s : s = [i \in 1 .. z |-> 0]
    OBVIOUS
  <2>3. s \in Seq(Bit) /\ DOMAIN s = 1 .. z
    <3>1. 0 \in Bit
      BY DEF Bit
    <3> QED BY <2>2, <3>1, IsASeq
  <2>4. Len(s) = z
    BY <2>3, LenProperties
  <2> QED BY <2>1, <2>2, <2>3, <2>4 DEF EvenBits
<1>3. EvenBits(dbuf')
  <2>1. CASE Head(toPad) = EOF
    BY <2>1 DEF PadZeros, Intake
  <2>2. CASE Head(toPad) # EOF
    <3>1. dbuf' = dbuf \o Head(toPad) \o [i \in 1 .. phy.padded_zeros |-> 0]
      BY <2>2 DEF PadZeros
    <3>2. EvenBits(dbuf \o Head(toPad))
      BY <1>1, EvenSum DEF Intake
    <3> QED BY <1>2, <3>1, <3>2, EvenSum
  <2> QED BY <2>1, <2>2
<1>4. toMapper' = toMapper /\ toIntlv' = toIntlv /\ toPrefixer' = toPrefixer /\ toPad' = Tail(toPad)
  BY DEF PadZeros
<1> QED BY <1>1, <1>3, <1>4 DEF Intake

\* zeropadding_b puts out what it holds, through the codeword mapper and the interleaver of
\* a port; all the lengths follow from those of the input.
MappedLengths(b, c, d, m) ==
  /\ m.bits \in Seq(Bit) /\ m.chips \in Seq(Chip) /\ m.out \in Seq(Chip)
  /\ \E n \in Nat \ {0}, k \in Nat \ {0}, x \in Nat \ {0} :
       /\ n = phy.bits_per_symbol /\ k = CodeLen(phy) /\ x = BlockLen(phy.intlv_seq)
       /\ \E B \in Nat, C \in Nat :
            /\ B = b + (d \div 2) /\ C = c + k * (B \div n)
            /\ Len(m.bits) = B - n * (B \div n)
            /\ Len(m.chips) = C - x * (C \div x)
            /\ Len(m.out) = x * (C \div x)

\* These are the lengths of what Mapped makes of input bits.
LEMMA MappedFrom ==
  ASSUME Intake, Shaped(phy), NEW p \in Ports
  PROVE  MappedLengths(Len(toMapper[0]), Len(toIntlv[0]), Len(dbuf), Mapped(p))
<1>1. p \in {0, 1}
  BY DEF Ports
<1>2. PICK h \in Nat : Len(dbuf) = 2 * h /\ dbuf \in Seq(Bit) /\ Len(dbuf) \div 2 = h
  <2>1. PICK h \in Nat : Len(dbuf) = 2 * h /\ dbuf \in Seq(Bit)
    BY DEF Intake, EvenBits
  <2>2. (2 * h) \div 2 = h
    BY <2>1
  <2> QED BY <2>1, <2>2
<1>3. toMapper[p] \in Seq(Bit) /\ Len(toMapper[p]) = Len(toMapper[0])
      /\ toIntlv[p] \in Seq(Chip) /\ Len(toIntlv[p]) = Len(toIntlv[0])
  BY <1>1 DEF Intake, Twins
<1>4. PICK half \in Seq(Bit) : half = Deinterleave(dbuf, p) /\ Len(half) = h
  <2>1. Half(Bit, h, dbuf, p, Deinterleave(dbuf, p))
    BY <1>1, <1>2, Halves
  <2> QED BY <2>1 DEF Half
<1>5. PICK bits \in Seq(Bit) : bits = toMapper[p] \o half /\ Len(bits) = Len(toMapper[0]) + h
  <2>1. PICK s \in Seq(Bit) : s = toMapper[p]
    BY <1>3
  <2>2. s \o half \in Seq(Bit) /\ Len(s \o half) = Len(s) + Len(half)
    BY Concatenated
  <2> QED BY <1>3, <1>4, <2>1, <2>2
<1>6. PICK n \in Nat \ {0}, k \in Nat \ {0} : n = phy.bits_per_symbol /\ k = CodeLen(phy)
  BY DEF Shaped, Worded
<1>7. PICK x \in Nat \ {0} : x = BlockLen(phy.intlv_seq)
  <2>1. CASE phy.intlv_seq = << >>
    BY <2>1 DEF BlockLen
  <2>2. CASE phy.intlv_seq # << >>
    <3>1. phy.intlv_seq \in Seq(Nat)
      BY DEF Shaped, Permuting
    <3> QED BY <2>2, <3>1, EmptySeq DEF BlockLen
  <2> QED BY <2>1, <2>2
<1>8. PICK c1 \in Seq(Chip) : c1 = CodewordMapper(phy, bits) /\ Len(c1) = k * (Len(bits) \div n)
  BY <1>6, MapperChips DEF Shaped
<1>9. PICK c2 \in Seq(Chip) : c2 = toIntlv[p] \o c1 /\ Len(c2) = Len(toIntlv[0]) + k * (Len(bits) \div n)
  <2>1. PICK s \in Seq(Chip) : s = toIntlv[p]
    BY <1>3
  <2>2. s \o c1 \in Seq(Chip) /\ Len(s \o c1) = Len(s) + Len(c1)
    BY Concatenated
  <2> QED BY <1>3, <1>8, <2>1, <2>2
<1>10. PICK G \in Nat : G = Len(bits) \div n /\ CutOff(Bit, bits, n, G)
  BY WholeAndRest
<1>11. PICK H \in Nat : H = Len(c2) \div x /\ CutOff(Chip, c2, x, H)
  BY WholeAndRest
<1>12. PICK whole \in Seq(Chip) : whole = Whole(c2, x) /\ Len(whole) = x * H
  BY <1>11 DEF CutOff
<1>13. PICK out \in Seq(Chip) : out = Interleaver(phy.intlv_seq, whole) /\ Len(out) = x * H
  <2>1. Len(whole) = BlockLen(phy.intlv_seq) * H /\ Permuting(phy.intlv_seq)
    BY <1>7, <1>12 DEF Shaped
  <2> QED BY <1>12, <2>1, InterleaverChips
<1>14. PICK m : m = Mapped(p)
  OBVIOUS
<1>15. m = [bits |-> Rest(bits, n), chips |-> Rest(c2, x), out |-> out]
  BY <1>4, <1>5, <1>6, <1>7, <1>8, <1>9, <1>12, <1>13, <1>14 DEF Mapped
<1>16. m.bits = Rest(bits, n) /\ m.chips = Rest(c2, x) /\ m.out = out
  BY <1>15
<1>17. /\ m.bits \in Seq(Bit) /\ m.chips \in Seq(Chip) /\ m.out \in Seq(Chip)
       /\ Len(m.bits) = Len(bits) - n * G /\ Len(m.chips) = Len(c2) - x * H /\ Len(m.out) = x * H
  BY <1>10, <1>11, <1>13, <1>16 DEF CutOff
<1>18. PICK B \in Nat, C \in Nat : B = Len(bits) /\ C = Len(c2)
  BY LenProperties
<1>19. B = Len(toMapper[0]) + (Len(dbuf) \div 2) /\ C = Len(toIntlv[0]) + k * (B \div n)
  BY <1>2, <1>5, <1>9, <1>18
<1>20. Len(m.bits) = B - n * (B \div n) /\ Len(m.chips) = C - x * (C \div x) /\ Len(m.out) = x * (C \div x)
  BY <1>10, <1>11, <1>17, <1>18
<1>21. \E B2 \in Nat, C2 \in Nat :
         /\ B2 = Len(toMapper[0]) + (Len(dbuf) \div 2) /\ C2 = Len(toIntlv[0]) + k * (B2 \div n)
         /\ Len(m.bits) = B2 - n * (B2 \div n)
         /\ Len(m.chips) = C2 - x * (C2 \div x)
         /\ Len(m.out) = x * (C2 \div x)
  BY <1>19, <1>20, Zenon
<1>22. \E n2 \in Nat \ {0}, k2 \in Nat \ {0}, x2 \in Nat \ {0} :
         /\ n2 = phy.bits_per_symbol /\ k2 = CodeLen(phy) /\ x2 = BlockLen(phy.intlv_seq)
         /\ \E B2 \in Nat, C2 \in Nat :
              /\ B2 = Len(toMapper[0]) + (Len(dbuf) \div 2) /\ C2 = Len(toIntlv[0]) + k2 * (B2 \div n2)
              /\ Len(m.bits) = B2 - n2 * (B2 \div n2)
              /\ Len(m.chips) = C2 - x2 * (C2 \div x2)
              /\ Len(m.out) = x2 * (C2 \div x2)
  BY <1>6, <1>7, <1>21, Zenon
<1>23. m.bits \in Seq(Bit) /\ m.chips \in Seq(Chip) /\ m.out \in Seq(Chip)
  BY <1>17
<1>24. MappedLengths(Len(toMapper[0]), Len(toIntlv[0]), Len(dbuf), m)
  BY <1>22, <1>23 DEF MappedLengths
<1> QED BY <1>14, <1>24

\* Two mapped alike have the same lengths.
LEMMA SameLengths ==
  ASSUME NEW b, NEW c, NEW d, NEW m1, NEW m2, MappedLengths(b, c, d, m1), MappedLengths(b, c, d, m2)
  PROVE  /\ m1.bits \in Seq(Bit) /\ m1.chips \in Seq(Chip) /\ m1.out \in Seq(Chip)
         /\ m2.bits \in Seq(Bit) /\ m2.chips \in Seq(Chip) /\ m2.out \in Seq(Chip)
         /\ Len(m1.bits) = Len(m2.bits) /\ Len(m1.chips) = Len(m2.chips) /\ Len(m1.out) = Len(m2.out)
<1>1. PICK n \in Nat \ {0}, k \in Nat \ {0}, x \in Nat \ {0} :
        /\ n = phy.bits_per_symbol /\ k = CodeLen(phy) /\ x = BlockLen(phy.intlv_seq)
        /\ \E B \in Nat, C \in Nat :
             /\ B = b + (d \div 2) /\ C = c + k * (B \div n)
             /\ Len(m1.bits) = B - n * (B \div n)
             /\ Len(m1.chips) = C - x * (C \div x)
             /\ Len(m1.out) = x * (C \div x)
  BY DEF MappedLengths
<1>2. PICK n2 \in Nat \ {0}, k2 \in Nat \ {0}, x2 \in Nat \ {0} :
        /\ n2 = phy.bits_per_symbol /\ k2 = CodeLen(phy) /\ x2 = BlockLen(phy.intlv_seq)
        /\ \E B \in Nat, C \in Nat :
             /\ B = b + (d \div 2) /\ C = c + k2 * (B \div n2)
             /\ Len(m2.bits) = B - n2 * (B \div n2)
             /\ Len(m2.chips) = C - x2 * (C \div x2)
             /\ Len(m2.out) = x2 * (C \div x2)
  BY DEF MappedLengths
<1>3. n = n2 /\ k = k2 /\ x = x2
  BY <1>1, <1>2, Zenon
<1>4. PICK B \in Nat, C \in Nat :
             /\ B = b + (d \div 2) /\ C = c + k * (B \div n)
             /\ Len(m1.bits) = B - n * (B \div n)
             /\ Len(m1.chips) = C - x * (C \div x)
             /\ Len(m1.out) = x * (C \div x)
  BY <1>1
<1>5. PICK B2 \in Nat, C2 \in Nat :
             /\ B2 = b + (d \div 2) /\ C2 = c + k2 * (B2 \div n2)
             /\ Len(m2.bits) = B2 - n2 * (B2 \div n2)
             /\ Len(m2.chips) = C2 - x2 * (C2 \div x2)
             /\ Len(m2.out) = x2 * (C2 \div x2)
  BY <1>2
<1>6. B = B2
  BY <1>4, <1>5, Zenon
<1>7. C = C2
  BY <1>3, <1>4, <1>5, <1>6, Zenon
<1>8. Len(m1.bits) = Len(m2.bits) /\ Len(m1.chips) = Len(m2.chips) /\ Len(m1.out) = Len(m2.out)
  BY <1>3, <1>4, <1>5, <1>6, <1>7, Zenon
<1> QED BY <1>8, Zenon DEF MappedLengths

\* Both ports together.
LEMMA IntakeMaps ==
  ASSUME Intake, Shaped(phy), MapCodewords
  PROVE  Intake'
<1>1. MappedLengths(Len(toMapper[0]), Len(toIntlv[0]), Len(dbuf), Mapped(0))
      /\ MappedLengths(Len(toMapper[0]), Len(toIntlv[0]), Len(dbuf), Mapped(1))
  BY MappedFrom DEF Ports
<1>2. PICK m0, m1 : m0 = Mapped(0) /\ m1 = Mapped(1)
  OBVIOUS
<1>3. /\ m0.bits \in Seq(Bit) /\ m0.chips \in Seq(Chip) /\ m0.out \in Seq(Chip)
      /\ m1.bits \in Seq(Bit) /\ m1.chips \in Seq(Chip) /\ m1.out \in Seq(Chip)
      /\ Len(m0.bits) = Len(m1.bits) /\ Len(m0.chips) = Len(m1.chips) /\ Len(m0.out) = Len(m1.out)
  BY <1>1, <1>2, SameLengths
<1>4. /\ toMapper' = [p \in Ports |-> Mapped(p).bits]
      /\ toIntlv' = [p \in Ports |-> Mapped(p).chips]
      /\ toPrefixer' = [p \in Ports |-> toPrefixer[p] \o Mapped(p).out]
      /\ dbuf' = << >> /\ toPad' = toPad
  <2>1. PICK m \in {[p \in Ports |-> Mapped(p)]} :
          /\ toMapper' = [p \in Ports |-> m[p].bits]
          /\ toIntlv' = [p \in Ports |-> m[p].chips]
          /\ toPrefixer' = [p \in Ports |-> toPrefixer[p] \o m[p].out]
    BY DEF MapCodewords
  <2>2. \A p \in Ports : m[p] = Mapped(p)
    BY <2>1
  <2> QED BY <2>1, <2>2 DEF MapCodewords
<1>5. /\ toMapper'[0] = m0.bits /\ toMapper'[1] = m1.bits
      /\ toIntlv'[0] = m0.chips /\ toIntlv'[1] = m1.chips
      /\ toPrefixer'[0] = toPrefixer[0] \o m0.out /\ toPrefixer'[1] = toPrefixer[1] \o m1.out
  BY <1>2, <1>4 DEF Ports
<1>6. Twins(Bit, toMapper') /\ Twins(Chip, toIntlv')
  BY <1>3, <1>5 DEF Twins
<1>7. Twins(Chip, toPrefixer')
  <2>1. toPrefixer[0] \in Seq(Chip) /\ toPrefixer[1] \in Seq(Chip) /\ Len(toPrefixer[0]) = Len(toPrefixer[1])
    BY DEF Intake, Twins
  <2>2. toPrefixer[0] \o m0.out \in Seq(Chip) /\ Len(toPrefixer[0] \o m0.out) = Len(toPrefixer[0]) + Len(m0.out)
    BY ZenonT(60), <1>3, <2>1, Concatenated
  <2>3. toPrefixer[1] \o m1.out \in Seq(Chip) /\ Len(toPrefixer[1] \o m1.out) = Len(toPrefixer[1]) + Len(m1.out)
    BY <1>3, <2>1, Concatenated
  <2> QED BY <1>3, <1>5, <2>1, <2>2, <2>3 DEF Twins
<1>8. EvenBits(dbuf')
  <2>1. << >> \in Seq(Bit) /\ Len(<< >>) = 0 /\ 0 = 2 * 0
    OBVIOUS
  <2> QED BY <1>4, <2>1 DEF EvenBits
<1> QED BY <1>4, <1>6, <1>7, <1>8 DEF Intake

-----------------------------------------------------------------------------
(***************************************************************************)
(* Preamble and SFD, put in front of every frame, come out of the          *)
(* differential mapper as they were.                                       *)
(***************************************************************************)

\* The remainder of the next number, and those behind a multiple.
LEMMA NextRemainder ==
  ASSUME NEW N \in Nat \ {0}, NEW P \in Nat
  PROVE  /\ P % N \in 0 .. N - 1
         /\ (P % N) + 1 = N => (P + 1) % N = 0
         /\ (P % N) + 1 < N => (P + 1) % N = (P % N) + 1
<1>1. PICK q \in Nat : q = P \div N
  <2>1. P \div N \in Nat
    OBVIOUS
  <2> QED BY <2>1
<1>2. PICK r \in 0 .. N - 1 : r = P % N /\ P = N * q + r
  <2>1. P % N \in 0 .. N - 1 /\ P = N * (P \div N) + (P % N)
    OBVIOUS
  <2> QED BY <1>1, <2>1
<1>3. ASSUME r + 1 = N PROVE (P + 1) % N = 0
  <2>1. P + 1 = N * (q + 1) + 0
    BY <1>2, <1>3
  <2>2. (N * (q + 1) + 0) % N = 0
    <3>1. q + 1 \in Nat /\ 0 \in 0 .. N - 1
      OBVIOUS
    <3> QED BY <3>1, Division
  <2> QED BY <2>1, <2>2
<1>4. ASSUME r + 1 < N PROVE (P + 1) % N = r + 1
  <2>1. P + 1 = N * q + (r + 1)
    BY <1>2
  <2>2. (N * q + (r + 1)) % N = r + 1
    <3>1. r + 1 \in 0 .. N - 1
      BY <1>4
    <3> QED BY <3>1, Division
  <2> QED BY <2>1, <2>2
<1> QED BY <1>2, <1>3, <1>4

\* The remainder of a number up to N.
LEMMA OwnRemainder ==
  ASSUME NEW N \in Nat \ {0}, NEW e \in Nat
  PROVE  (e < N => e % N = e) /\ (e = N => e % N = 0)
<1>1. ASSUME e < N PROVE e % N = e
  <2>1. (N * 0 + e) % N = e
    <3>1. 0 \in Nat /\ e \in 0 .. N - 1
      BY <1>1
    <3> QED BY <3>1, Division
  <2>2. N * 0 + e = e
    OBVIOUS
  <2> QED BY <2>1, <2>2
<1>2. ASSUME e = N PROVE e % N = 0
  <2>1. (N * 1 + 0) % N = 0
    <3>1. 1 \in Nat /\ 0 \in 0 .. N - 1
      OBVIOUS
    <3> QED BY <3>1, Division
  <2>2. N * 1 + 0 = e
    BY <1>2
  <2> QED BY <2>1, <2>2
<1> QED BY <1>1, <1>2

\* The remainder of a number a bit above a multiple.
LEMMA BehindMultiple ==
  ASSUME NEW N \in Nat \ {0}, NEW P \in Nat, P % N = 0, NEW e \in 0 .. N - 1
  PROVE  (P + e) % N = e
<1>1. PICK q \in Nat : q = P \div N
  <2>1. P \div N \in Nat
    OBVIOUS
  <2> QED BY <2>1
<1>2. P = N * q
  <2>1. P = N * (P \div N) + (P % N)
    OBVIOUS
  <2> QED BY <1>1, <2>1
<1>3. (N * q + e) % N = e
  BY Division
<1> QED BY <1>2, <1>3

\* Chips and phases from the P-th symbol on, as the beginning of every frame wants them:
\* those of the preamble are x, and the first one of the SFD is z.
Begins(y, P, o, x, z) ==
  \A e \in 1 .. Len(o) :
    /\ (P + (e - 1)) % y.nsym_frame < y.len_preamble => o[e] = x
    /\ (P + (e - 1)) % y.nsym_frame = y.len_preamble => o[e] = z

\* More of them.
LEMMA BeginsOn ==
  ASSUME NEW y, NEW P \in Nat, NEW S, NEW o \in Seq(S), NEW p \in Seq(S), NEW x, NEW z,
         Begins(y, P, o, x, z), Begins(y, P + Len(o), p, x, z)
  PROVE  Begins(y, P, o \o p, x, z)
<1>1. PICK L \in Nat, K \in Nat : L = Len(o) /\ K = Len(p)
  BY LenProperties
<1>2. PICK c : c = o \o p
  OBVIOUS
<1>3. Len(c) = L + K /\ (\A i \in 1 .. L : c[i] = o[i]) /\ (\A i \in 1 .. K : c[L + i] = p[i])
  BY <1>1, <1>2, Concatenated
<1>4. ASSUME NEW e \in 1 .. L + K
      PROVE  /\ (P + (e - 1)) % y.nsym_frame < y.len_preamble => c[e] = x
             /\ (P + (e - 1)) % y.nsym_frame = y.len_preamble => c[e] = z
  <2>1. CASE e \in 1 .. L
    BY <1>1, <1>3, <2>1 DEF Begins
  <2>2. CASE e \notin 1 .. L
    <3>1. PICK i \in 1 .. K : e = L + i /\ P + (e - 1) = (P + L) + (i - 1)
      <4>1. e - L \in 1 .. K /\ e = L + (e - L) /\ P + (e - 1) = (P + L) + ((e - L) - 1)
        BY <2>2
      <4> QED BY <4>1
    <3>2. c[e] = p[i]
      BY <1>3, <3>1
    <3>3. /\ ((P + L) + (i - 1)) % y.nsym_frame < y.len_preamble => p[i] = x
          /\ ((P + L) + (i - 1)) % y.nsym_frame = y.len_preamble => p[i] = z
      BY <1>1 DEF Begins
    <3> QED BY <3>1, <3>2, <3>3
  <2> QED BY <2>1, <2>2
<1> QED BY <1>2, <1>3, <1>4 DEF Begins

\* preamble_sfd_prefixer_ii at the P-th symbol: at the beginning of a frame or behind its
\* header.
Position(y, P, ctr) == ctr \in Nat /\ ctr = P % y.nsym_frame /\ (ctr = 0 \/ Len(y.header) < ctr)
Prefixed(y, P, ctr, r) ==
  /\ r.out \in Seq(Chip) /\ Len(r.out) = IF ctr = 0 THEN Len(y.header) + 1 ELSE 1
  /\ Begins(y, P, r.out, 1, -1)
  /\ Position(y, P + Len(r.out), r.state)

\* One chip through preamble_sfd_prefixer_ii.
LEMMA PrefixerPlaced ==
  ASSUME NEW y, Started(y), NEW P \in Nat, NEW ctr, Position(y, P, ctr), NEW c \in Chip,
         NEW r, r = PrefixerStep(y, ctr, c)
  PROVE  Prefixed(y, P, ctr, r)
<1>1. PICK h \in Seq(Chip) : h = y.header
  BY DEF Started
<1>2. PICK H \in Nat, N \in Nat \ {0}, n \in Nat : H = Len(h) /\ N = y.nsym_frame /\ n = y.len_preamble /\ n + 4 <= H /\ H < N
  BY <1>1 DEF Started
<1>3. (\A i \in 1 .. n : h[i] = 1) /\ h[n + 1] = -1
  BY <1>1, <1>2 DEF Started
<1>4. CASE ctr = 0
  <2>1. r = [state |-> (H + 1) % N, out |-> SubSeq(h, 0 + 1, H) \o <<c>>]
    <3>1. CASE ctr < Len(y.header)
      BY <1>1, <1>2, <1>4, <3>1 DEF PrefixerStep
    <3>2. CASE ~ (ctr < Len(y.header))
      BY <1>1, <1>2, <1>4, <3>2
    <3> QED BY <3>1, <3>2
  <2>2. SubSeq(h, 0 + 1, H) = h
    BY <1>2
  <2>3. PICK o : o = h \o <<c>> /\ r.out = o /\ r.state = (H + 1) % N
    BY <2>1, <2>2
  <2>4. o \in Seq(Chip) /\ Len(o) = H + 1 /\ (\A i \in 1 .. H : o[i] = h[i]) /\ o[H + 1] = c
    BY <1>2, <2>3, OneItemMore
  <2>5. P % N = 0
    BY <1>2, <1>4 DEF Position
  <2>6. ASSUME NEW e \in 1 .. H + 1
        PROVE  /\ (P + (e - 1)) % N < n => o[e] = 1
               /\ (P + (e - 1)) % N = n => o[e] = -1
    <3>1. e - 1 \in 0 .. N - 1
      BY <1>2
    <3>2. (P + (e - 1)) % N = e - 1
      BY <2>5, <3>1, BehindMultiple
    <3>3. e - 1 < n => e \in 1 .. n /\ e \in 1 .. H
      BY <1>2
    <3>4. e - 1 = n => e = n + 1 /\ e \in 1 .. H
      BY <1>2
    <3> QED BY <1>3, <2>4, <3>2, <3>3, <3>4
  <2>7. Begins(y, P, o, 1, -1)
    BY <1>2, <2>4, <2>6 DEF Begins
  <2>8. Position(y, P + (H + 1), r.state)
    <3>1. (H + 1) % N = (P + (H + 1)) % N
      <4>1. CASE H + 1 < N
        <5>1. H + 1 \in 0 .. N - 1
          BY <4>1
        <5>2. (P + (H + 1)) % N = H + 1
          BY <2>5, <5>1, BehindMultiple
        <5>3. (H + 1) % N = H + 1
          BY <4>1, OwnRemainder
        <5> QED BY <5>2, <5>3
      <4>2. CASE H + 1 = N
        <5>1. (P + H) % N = H
          <6>1. H \in 0 .. N - 1
            BY <1>2
          <6> QED BY <2>5, <6>1, BehindMultiple
        <5>2. ((P + H) + 1) % N = 0
          <6>1. P + H \in Nat
            OBVIOUS
          <6> QED BY <4>2, <5>1, <6>1, NextRemainder
        <5>3. (H + 1) % N = 0
          BY <4>2, OwnRemainder
        <5>4. (P + H) + 1 = P + (H + 1)
          OBVIOUS
        <5> QED BY <5>2, <5>3, <5>4
      <4> QED BY <1>2, <4>1, <4>2
    <3>2. (H + 1) % N \in Nat /\ ((H + 1) % N = 0 \/ H < (H + 1) % N)
      <4>1. CASE H + 1 < N
        <5>1. (H + 1) % N = H + 1
          BY <4>1, OwnRemainder
        <5> QED BY <5>1
      <4>2. CASE H + 1 = N
        <5>1. (H + 1) % N = 0
          BY <4>2, OwnRemainder
        <5> QED BY <5>1
      <4> QED BY <1>2, <4>1, <4>2
    <3> QED BY <1>1, <1>2, <2>3, <3>1, <3>2 DEF Position
  <2> QED BY <1>1, <1>2, <1>4, <2>3, <2>4, <2>7, <2>8 DEF Prefixed
<1>5. CASE ctr # 0
  <2>1. ctr \in Nat /\ H < ctr /\ ctr = P % N
    BY <1>1, <1>2, <1>5 DEF Position
  <2>2. r = [state |-> (ctr + 1) % N, out |-> SubSeq(h, ctr + 1, H) \o <<c>>]
    <3>1. ~ (ctr < H)
      BY <2>1
    <3> QED BY <1>1, <1>2, <3>1 DEF PrefixerStep
  <2>3. SubSeq(h, ctr + 1, H) = << >>
    BY <2>1
  <2>4. r.out = << >> \o <<c>> /\ r.state = (ctr + 1) % N
    <3>1. PICK z, e : z = SubSeq(h, ctr + 1, H) \o <<c>> /\ e = (ctr + 1) % N
      OBVIOUS
    <3>2. r = [state |-> e, out |-> z]
      BY <2>2, <3>1
    <3>3. r.out = z /\ r.state = e
      BY <3>2
    <3> QED BY <2>3, <3>1, <3>3
  <2>5. PICK o : o = << >> \o <<c>> /\ r.out = o
    BY <2>4
  <2>6. o \in Seq(Chip) /\ Len(o) = 1
    <3>1. << >> \in Seq(Chip) /\ Len(<< >>) = 0
      OBVIOUS
    <3>2. o \in Seq(Chip) /\ Len(o) = Len(<< >>) + 1
      BY <2>5, <3>1, OneItemMore
    <3> QED BY <3>1, <3>2
  <2>7. Begins(y, P, o, 1, -1)
    <3>1. ASSUME NEW e \in 1 .. 1
          PROVE  /\ (P + (e - 1)) % N < n => o[e] = 1
                 /\ (P + (e - 1)) % N = n => o[e] = -1
      <4>1. P + (e - 1) = P
        OBVIOUS
      <4>2. n < ctr
        BY <1>2, <2>1
      <4> QED BY <2>1, <4>1, <4>2
    <3> QED BY <1>2, <2>6, <3>1 DEF Begins
  <2>8. Position(y, P + 1, r.state)
    <3>1. ctr < N
      <4>1. P % N \in 0 .. N - 1
        BY NextRemainder
      <4> QED BY <2>1, <4>1
    <3>2. CASE ctr + 1 = N
      <4>1. (P + 1) % N = 0
        BY <2>1, <3>2, NextRemainder
      <4>2. (ctr + 1) % N = 0
        BY <3>2, OwnRemainder
      <4> QED BY SMTT(60), <1>2, <2>4, <4>1, <4>2 DEF Position
    <3>3. CASE ctr + 1 < N
      <4>1. (P + 1) % N = ctr + 1
        BY <2>1, <3>3, NextRemainder
      <4>2. (ctr + 1) % N = ctr + 1 /\ ctr + 1 \in Nat
        <5>1. PICK e \in Nat : e = ctr + 1
          BY <2>1
        <5>2. e % N = e
          BY <3>3, <5>1, OwnRemainder
        <5> QED BY <5>1, <5>2
      <4>3. H < ctr + 1
        BY <2>1
      <4> QED BY <1>1, <1>2, <2>4, <4>1, <4>2, <4>3 DEF Position
    <3> QED BY <2>1, <3>1, <3>2, <3>3
  <2> QED BY <1>5, <2>5, <2>6, <2>7, <2>8 DEF Prefixed
<1> QED BY <1>4, <1>5

\* Both prefixers put out as many chips, with the header at the same places.
PrefixedAlike(y, P, i, q) ==
  /\ i.out \in Seq(Chip) /\ q.out \in Seq(Chip) /\ Len(i.out) = Len(q.out) /\ i.state = q.state
  /\ Begins(y, P, i.out, 1, -1) /\ Begins(y, P, q.out, 1, -1)
  /\ Position(y, P + Len(i.out), i.state)

\* One chip more on either port.
LEMMA PrefixedMore ==
  ASSUME NEW y, Started(y), NEW P \in Nat, NEW i, NEW q, PrefixedAlike(y, P, i, q),
         NEW c \in Chip, NEW d \in Chip,
         NEW r, r = PrefixerStep(y, i.state, c), NEW s, s = PrefixerStep(y, q.state, d),
         NEW i2, i2 = [out |-> i.out \o r.out, state |-> r.state],
         NEW q2, q2 = [out |-> q.out \o s.out, state |-> s.state]
  PROVE  PrefixedAlike(y, P, i2, q2)
<1>1. PICK a \in Seq(Chip), b \in Seq(Chip) : a = i.out /\ b = q.out
  BY DEF PrefixedAlike
<1>20. PICK ctr : ctr = i.state /\ ctr = q.state
  BY DEF PrefixedAlike
<1>2. PICK K \in Nat : K = Len(a) /\ K = Len(b) /\ ctr = i.state /\ ctr = q.state
  <2>1. Len(a) \in Nat
    BY LenProperties
  <2> QED BY <1>1, <1>20, <2>1 DEF PrefixedAlike
<1>3. PICK Z \in Nat : Z = P + K
  OBVIOUS
<1>4. Position(y, Z, ctr) /\ Begins(y, P, a, 1, -1) /\ Begins(y, P, b, 1, -1)
  BY <1>1, <1>2, <1>3 DEF PrefixedAlike
<1>5. Prefixed(y, Z, ctr, r) /\ Prefixed(y, Z, ctr, s)
  BY <1>2, <1>4, PrefixerPlaced
<1>6. PICK e \in Seq(Chip), f \in Seq(Chip) : e = r.out /\ f = s.out
  BY <1>5 DEF Prefixed
<1>7. PICK J \in Nat : J = Len(e)
  BY LenProperties
<1>8. Len(f) = J
  BY <1>5, <1>6, <1>7 DEF Prefixed
<1>9. Begins(y, Z, e, 1, -1) /\ Begins(y, Z, f, 1, -1)
  BY <1>5, <1>6 DEF Prefixed
<1>10. Begins(y, P, a \o e, 1, -1)
  BY <1>2, <1>3, <1>4, <1>9, BeginsOn
<1>11. Begins(y, P, b \o f, 1, -1)
  BY <1>2, <1>3, <1>4, <1>9, BeginsOn
<1>12. PICK g \in Seq(Chip), h \in Seq(Chip) : g = a \o e /\ h = b \o f
  BY ConcatProperties
<1>13. Len(g) = K + J /\ Len(h) = K + J
  <2>1. Len(g) = Len(a) + Len(e) /\ Len(h) = Len(b) + Len(f)
    BY <1>12, Concatenated
  <2> QED BY <1>2, <1>7, <1>8, <2>1
<1>14. i2.out = g /\ q2.out = h /\ i2.state = r.state /\ q2.state = s.state
  BY <1>1, <1>6, <1>12
<1>15. Position(y, Z + J, r.state) /\ Position(y, Z + J, s.state)
  BY <1>5, <1>6, <1>7, <1>8 DEF Prefixed
<1>16. r.state = s.state
  BY <1>15 DEF Position
<1>17. P + (K + J) = Z + J
  BY <1>3
<1> QED BY <1>10, <1>11, <1>12, <1>13, <1>14, <1>15, <1>16, <1>17 DEF PrefixedAlike

\* preamble_sfd_prefixer_ii on the chips of both ports.
LEMMA PrefixersRun ==
  ASSUME NEW y, Started(y), NEW P \in Nat, NEW ctr, Position(y, P, ctr),
         NEW c \in Seq(Chip), NEW d \in Seq(Chip), Len(c) = Len(d),
         NEW i, i = RunPrefixer(y, ctr, c), NEW q, q = RunPrefixer(y, ctr, d)
  PROVE  PrefixedAlike(y, P, i, q)
<1>1. Layered(y) /\ ctr \in Nat
  BY DEF Started, Layered, Position
<1>2. PICK u : PrefixerTrace(y, ctr, c, u) /\ i = u[Len(c)]
  BY <1>1, PrefixerRun
<1>3. PICK v : PrefixerTrace(y, ctr, d, v) /\ q = v[Len(d)]
  BY <1>1, PrefixerRun
<1>4. PICK N \in Nat : N = Len(c) /\ N = Len(d)
  BY LenProperties
<1>5. \A k \in 1 .. N : c[k] \in Chip /\ d[k] \in Chip
  BY <1>4, LenProperties
<1> DEFINE S == {k \in Nat : k <= N => PrefixedAlike(y, P, u[k], v[k])}
<1>6. 0 \in S
  <2>1. u[0].out = << >> /\ u[0].state = ctr /\ v[0].out = << >> /\ v[0].state = ctr
    BY <1>2, <1>3 DEF PrefixerTrace
  <2>2. << >> \in Seq(Chip) /\ Len(<< >>) = 0 /\ P + 0 = P
    OBVIOUS
  <2>3. Begins(y, P, << >>, 1, -1)
    BY <2>2 DEF Begins
  <2> QED BY <2>1, <2>2, <2>3 DEF PrefixedAlike
<1>7. ASSUME NEW k \in Nat, k \in S PROVE k + 1 \in S
  <2>1. SUFFICES ASSUME k + 1 <= N PROVE PrefixedAlike(y, P, u[k + 1], v[k + 1])
    OBVIOUS
  <2>2. PICK j \in 1 .. N : j = k + 1 /\ j - 1 = k
    BY <2>1
  <2>3. PrefixedAlike(y, P, u[j - 1], v[j - 1])
    BY <1>7, <2>1, <2>2
  <2>4. PICK r, s : r = PrefixerStep(y, u[j - 1].state, c[j]) /\ s = PrefixerStep(y, v[j - 1].state, d[j])
    OBVIOUS
  <2>5. u[j] = [out |-> u[j - 1].out \o r.out, state |-> r.state]
    BY <1>2, <1>4, <2>4 DEF PrefixerTrace
  <2>6. v[j] = [out |-> v[j - 1].out \o s.out, state |-> s.state]
    BY <1>3, <1>4, <2>4 DEF PrefixerTrace
  <2>7. c[j] \in Chip /\ d[j] \in Chip
    BY <1>5
  <2>8. PrefixedAlike(y, P, u[j], v[j])
    <3>1. PICK x, z : x = u[j - 1] /\ z = v[j - 1]
      OBVIOUS
    <3>2. PICK x2, z2 : x2 = u[j] /\ z2 = v[j]
      OBVIOUS
    <3>3. PICK m \in Chip, n \in Chip : m = c[j] /\ n = d[j]
      BY <2>7
    <3>4. PrefixedAlike(y, P, x, z) /\ r = PrefixerStep(y, x.state, m) /\ s = PrefixerStep(y, z.state, n)
      BY <2>3, <2>4, <3>1, <3>3
    <3>5. x2 = [out |-> x.out \o r.out, state |-> r.state] /\ z2 = [out |-> z.out \o s.out, state |-> s.state]
      BY <2>5, <2>6, <3>1, <3>2
    <3>6. PrefixedAlike(y, P, x2, z2)
      <4> HIDE <3>1, <3>2, <3>3
      <4> QED BY <3>4, <3>5, PrefixedMore
    <3> QED BY <3>2, <3>6
  <2> QED BY <2>2, <2>8
<1> HIDE DEF S
<1>8. Nat \subseteq S
  BY <1>6, <1>7, InductiveSet
<1>9. PrefixedAlike(y, P, u[N], v[N])
  BY <1>8 DEF S
<1> QED BY <1>2, <1>3, <1>4, <1>9

\* The symbols of the header: in phase, and half a turn at the SFD.
LEMMA QpskBegins ==
  ASSUME NEW y, NEW P \in Nat, NEW i, NEW q, PrefixedAlike(y, P, i, q),
         NEW f, f = [n \in DOMAIN i.out |-> QpskPhase(i.out[n], q.out[n])]
  PROVE  f \in Seq(Phase) /\ Len(f) = Len(i.out) /\ Begins(y, P, f, 0, 2)
<1>1. PICK a \in Seq(Chip), b \in Seq(Chip) : a = i.out /\ b = q.out
  BY DEF PrefixedAlike
<1>2. PICK K \in Nat : K = Len(a) /\ K = Len(b) /\ DOMAIN a = 1 .. K
  <2>1. Len(a) \in Nat /\ DOMAIN a = 1 .. Len(a)
    BY LenProperties
  <2> QED BY <1>1, <2>1 DEF PrefixedAlike
<1>3. f = [n \in 1 .. K |-> QpskPhase(a[n], b[n])]
  BY <1>1, <1>2
<1>4. \A n \in 1 .. K : a[n] \in Chip /\ b[n] \in Chip
  BY <1>2, LenProperties
<1>5. \A n \in 1 .. K : QpskPhase(a[n], b[n]) \in Phase
  BY <1>4, FourPhases
<1>6. f \in Seq(Phase) /\ Len(f) = K
  BY <1>3, <1>5
<1>7. \A n \in 1 .. K : f[n] = QpskPhase(a[n], b[n])
  BY <1>3
<1>8. QpskPhase(1, 1) = 0 /\ QpskPhase(-1, -1) = 2
  <2>1. /\ ~ (1 = -1) /\ ~ (-1 = 1)
    OBVIOUS
  <2> QED BY <2>1 DEF QpskPhase
<1>9. Begins(y, P, a, 1, -1) /\ Begins(y, P, b, 1, -1)
  BY <1>1 DEF PrefixedAlike
<1>10. Begins(y, P, f, 0, 2)
  <2>1. SUFFICES ASSUME NEW e \in 1 .. K
                 PROVE  /\ (P + (e - 1)) % y.nsym_frame < y.len_preamble => f[e] = 0
                        /\ (P + (e - 1)) % y.nsym_frame = y.len_preamble => f[e] = 2
    BY <1>6 DEF Begins
  <2>2. /\ (P + (e - 1)) % y.nsym_frame < y.len_preamble => a[e] = 1 /\ b[e] = 1
        /\ (P + (e - 1)) % y.nsym_frame = y.len_preamble => a[e] = -1 /\ b[e] = -1
    BY <1>2, <1>9 DEF Begins
  <2> QED BY <1>7, <1>8, <2>2
<1> QED BY <1>1, <1>2, <1>6, <1>10

\* dqpsk_mapper_ff at the P-th symbol: up to the SFD it has nothing to remember.
Rolled(y, P, s) ==
  /\ s \in Memories /\ s.ctr = P % y.nsym_frame
  /\ s.ctr <= y.len_preamble => \A i \in 1 .. 4 : s.mem[i] = 0
Forth(y, s, x) == DqpskStep(y, TRUE, s, x)
Rolls(y, P, s, x, r) ==
  /\ Rolled(y, P + 1, r.state)
  /\ \E o \in Phase : /\ r.out = <<o>>
                      /\ P % y.nsym_frame < y.len_preamble => o = 0
                      /\ P % y.nsym_frame = y.len_preamble => o = 2

\* What a memory of zeros gives for the phase of four symbols before.
LEMMA FourthItem ==
  ASSUME NEW m \in Memory
  PROVE  m[4] \in Phase
<1>1. PICK s \in Seq(Phase) : s = m /\ Len(s) = 4
  BY DEF Memory
<1>2. s[4] \in Phase
  BY <1>1
<1> QED BY <1>1, <1>2

\* One symbol through dqpsk_mapper_ff.
LEMMA DqpskPlaced ==
  ASSUME NEW y, Started(y), NEW P \in Nat, NEW s, Rolled(y, P, s), NEW x \in Phase,
         P % y.nsym_frame < y.len_preamble => x = 0, P % y.nsym_frame = y.len_preamble => x = 2,
         NEW r, r = Forth(y, s, x)
  PROVE  Rolls(y, P, s, x, r)
<1>1. PICK N \in Nat \ {0}, n \in Nat : N = y.nsym_frame /\ n = y.len_preamble /\ n + 4 < N
  BY DEF Started
<1>2. PICK m \in Memory, c \in Nat : m = s.mem /\ c = s.ctr
  BY DEF Rolled, Memories
<1>3. c = P % N /\ (c <= n => \A i \in 1 .. 4 : m[i] = 0) /\ c \in 0 .. N - 1
  <2>1. P % N \in 0 .. N - 1
    BY NextRemainder
  <2> QED BY <1>1, <1>2, <2>1 DEF Rolled
<1>4. PICK o \in Phase : o = Turn(x + m[4])
  <2>1. m[4] \in Phase
    BY FourthItem
  <2>2. x + m[4] \in Int
    BY <2>1 DEF Phase
  <2> QED BY <2>2, TurnType
<1>5. PICK z : z = Remember(y, s, o) /\ r = [state |-> z, out |-> <<o>>]
  BY <1>2, <1>4 DEF DqpskStep, Forth
<1>6. c <= n => o = x
  <2>1. SUFFICES ASSUME c <= n PROVE o = x
    OBVIOUS
  <2>2. m[4] = 0
    <3>1. 4 \in 1 .. 4
      OBVIOUS
    <3> QED BY <1>3, <2>1, <3>1
  <2>3. x + m[4] = x
    BY <2>2 DEF Phase
  <2>4. x % 4 = x
    BY DEF Phase
  <2> QED BY <1>4, <2>3, <2>4 DEF Turn
<1>7. (c < n => o = 0) /\ (c = n => o = 2)
  BY <1>1, <1>3, <1>6
<1>8. Rolled(y, P + 1, r.state)
  <2>1. r.state = Remember(y, s, o)
    <3>1. r.state = z
      BY <1>5
    <3> QED BY <1>5, <3>1
  <2>2. CASE c + 1 = N
    <3>1. r.state = FreshMemory
      BY <1>1, <1>2, <2>1, <2>2 DEF Remember
    <3>2. (P + 1) % N = 0
      BY <1>3, <2>2, NextRemainder
    <3>3. FreshMemory \in Memories /\ FreshMemory.ctr = 0 /\ (\A i \in 1 .. 4 : FreshMemory.mem[i] = 0)
      BY DEF FreshMemory, Memories, Memory, Phase
    <3> QED BY <1>1, <3>1, <3>2, <3>3 DEF Rolled
  <2>3. CASE c + 1 # N
    <3>1. r.state = [mem |-> PushFront(m, o), ctr |-> c + 1]
      BY <1>1, <1>2, <2>1, <2>3 DEF Remember
    <3>2. (P + 1) % N = c + 1
      <4>1. c + 1 < N
        BY <1>3, <2>3
      <4> QED BY <1>3, <4>1, NextRemainder
    <3>3. PICK v \in Memory : v = PushFront(m, o) /\ v[1] = o /\ v[2] = m[1] /\ v[3] = m[2] /\ v[4] = m[3]
      BY PushFrontType
    <3>4. c + 1 <= n => \A i \in 1 .. 4 : v[i] = 0
      <4>1. SUFFICES ASSUME c + 1 <= n, NEW i \in 1 .. 4 PROVE v[i] = 0
        OBVIOUS
      <4>2. o = 0 /\ m[1] = 0 /\ m[2] = 0 /\ m[3] = 0
        <5>1. 1 \in 1 .. 4 /\ 2 \in 1 .. 4 /\ 3 \in 1 .. 4 /\ c <= n /\ c < n
          BY <4>1
        <5> QED BY <1>3, <1>7, <5>1
      <4>3. i = 1 \/ i = 2 \/ i = 3 \/ i = 4
        OBVIOUS
      <4> QED BY <3>3, <4>2, <4>3
    <3>5. PICK w \in Memories : w = [mem |-> v, ctr |-> c + 1]
      <4>1. c + 1 \in Nat
        OBVIOUS
      <4>2. [mem |-> v, ctr |-> c + 1] \in Memories
        BY <4>1 DEF Memories
      <4> QED BY <4>2
    <3>6. r.state = w /\ w.ctr = c + 1 /\ w.mem = v
      BY <3>1, <3>3, <3>5
    <3> QED BY <1>1, <3>2, <3>4, <3>6 DEF Rolled
  <2> QED BY <2>2, <2>3
<1>9. r.out = <<o>>
  BY <1>5 
<1> QED BY <1>1, <1>3, <1>7, <1>8, <1>9 DEF Rolls

\* dqpsk_mapper_ff on a stream.
HeadedOut(y, P, n, r) ==
  /\ r.out \in Seq(Phase) /\ Len(r.out) = n
  /\ Begins(y, P, r.out, 0, 2) /\ Rolled(y, P + n, r.state)

\* Of phases that begin as frames do, it makes phases that begin so.
LEMMA DqpskHeaded ==
  ASSUME NEW y, Started(y), NEW P \in Nat, NEW s0, Rolled(y, P, s0), NEW in \in Seq(Phase),
         Begins(y, P, in, 0, 2), NEW r, r = RunDqpsk(y, TRUE, s0, in)
  PROVE  HeadedOut(y, P, Len(in), r)
<1>1. PICK u : DqpskTrace(y, TRUE, s0, in, u) /\ r = u[Len(in)]
  <2>1. s0 \in Memories
    BY DEF Rolled
  <2> QED BY <2>1, DqpskRun
<1>2. PICK N \in Nat : N = Len(in)
  BY LenProperties
<1>3. \A i \in 1 .. N : in[i] \in Phase
  BY <1>2, LenProperties
<1> DEFINE S == {k \in Nat : k <= N => HeadedOut(y, P, k, u[k])}
<1>4. 0 \in S
  <2>1. u[0].out = << >> /\ u[0].state = s0
    BY <1>1 DEF DqpskTrace
  <2>2. << >> \in Seq(Phase) /\ Len(<< >>) = 0 /\ P + 0 = P
    OBVIOUS
  <2>3. Begins(y, P, << >>, 0, 2)
    BY <2>2 DEF Begins
  <2> QED BY <2>1, <2>2, <2>3 DEF HeadedOut
<1>5. ASSUME NEW k \in Nat, k \in S PROVE k + 1 \in S
  <2>1. SUFFICES ASSUME k + 1 <= N PROVE HeadedOut(y, P, k + 1, u[k + 1])
    OBVIOUS
  <2>2. PICK j \in 1 .. N : j = k + 1 /\ j - 1 = k
    BY <2>1
  <2>3. HeadedOut(y, P, k, u[k])
    BY <1>5, <2>1
  <2>40. PICK t : t = u[k].state
    OBVIOUS
  <2>4. PICK p \in Seq(Phase) : p = u[k].out /\ t = u[k].state /\ Len(p) = k
    BY <2>3, <2>40 DEF HeadedOut
  <2>5. Begins(y, P, p, 0, 2) /\ Rolled(y, P + k, t)
    BY <2>3, <2>4 DEF HeadedOut
  <2>6. PICK Z \in Nat : Z = P + k /\ P + (j - 1) = Z /\ P + (k + 1) = Z + 1
    BY <2>2
  <2>7. PICK x \in Phase : x = in[j]
    BY <1>3
  <2>8. (Z % y.nsym_frame < y.len_preamble => x = 0) /\ (Z % y.nsym_frame = y.len_preamble => x = 2)
    BY <1>2, <2>6, <2>7 DEF Begins
  <2>9. PICK d : d = Forth(y, t, x)
    OBVIOUS
  <2>10. Rolls(y, Z, t, x, d)
    BY <2>5, <2>6, <2>8, <2>9, DqpskPlaced
  <2>11. PICK o \in Phase : /\ d.out = <<o>>
                            /\ Z % y.nsym_frame < y.len_preamble => o = 0
                            /\ Z % y.nsym_frame = y.len_preamble => o = 2
    BY <2>10 DEF Rolls
  <2>12. u[k + 1].out = p \o <<o>> /\ u[k + 1].state = d.state
    <3>1. u[j] = [out |-> u[j - 1].out \o Forth(y, u[j - 1].state, in[j]).out,
                  state |-> Forth(y, u[j - 1].state, in[j]).state]
      BY <1>1, <1>2 DEF DqpskTrace, Forth
    <3>2. u[j - 1].out = p /\ u[j - 1].state = t /\ in[j] = x /\ u[j] = u[k + 1]
      BY <2>2, <2>4, <2>7
    <3>3. u[j] = [out |-> p \o d.out, state |-> d.state]
      BY <2>9, <3>1, <3>2
    <3> QED BY <2>11, <3>2, <3>3
  <2>13. <<o>> \in Seq(Phase) /\ Len(<<o>>) = 1
    OBVIOUS
  <2>14. Begins(y, Z, <<o>>, 0, 2)
    <3>1. ASSUME NEW e \in 1 .. 1
          PROVE  /\ (Z + (e - 1)) % y.nsym_frame < y.len_preamble => <<o>>[e] = 0
                 /\ (Z + (e - 1)) % y.nsym_frame = y.len_preamble => <<o>>[e] = 2
      <4>1. e = 1 /\ Z + (e - 1) = Z
        OBVIOUS
      <4>2. <<o>>[1] = o
        OBVIOUS
      <4> QED BY <2>11, <4>1, <4>2
    <3> QED BY <2>13, <3>1 DEF Begins
  <2>15. Begins(y, P, p \o <<o>>, 0, 2)
    <3>1. PICK w \in Seq(Phase) : w = <<o>>
      BY <2>13
    <3>2. Begins(y, P + Len(p), w, 0, 2)
      BY <2>4, <2>6, <2>14, <3>1
    <3>3. Begins(y, P, p \o w, 0, 2)
      BY <2>5, <3>2, BeginsOn
    <3> QED BY <3>1, <3>3
  <2>16. p \o <<o>> \in Seq(Phase) /\ Len(p \o <<o>>) = k + 1
    BY <2>4, OneItemMore
  <2>17. Rolled(y, Z + 1, d.state)
    BY <2>10 DEF Rolls
  <2> QED BY <2>6, <2>12, <2>15, <2>16, <2>17 DEF HeadedOut
<1> HIDE DEF S
<1>6. Nat \subseteq S
  BY <1>4, <1>5, InductiveSet
<1>7. HeadedOut(y, P, N, u[N])
  BY <1>6 DEF S
<1> QED BY <1>1, <1>2, <1>7

\* Frames begin as they are to.
LEMMA HeadedOn ==
  ASSUME NEW y, NEW ph \in Seq(Phase), Headed(y, ph), NEW out \in Seq(Phase), Begins(y, Len(ph), out, 0, 2)
  PROVE  Headed(y, ph \o out)
<1>1. PICK L \in Nat, K \in Nat : L = Len(ph) /\ K = Len(out)
  BY LenProperties
<1>2. Begins(y, 0, ph, 0, 2)
  <2>1. SUFFICES ASSUME NEW e \in 1 .. L
                 PROVE  /\ (0 + (e - 1)) % y.nsym_frame < y.len_preamble => ph[e] = 0
                        /\ (0 + (e - 1)) % y.nsym_frame = y.len_preamble => ph[e] = 2
    BY <1>1 DEF Begins
  <2>2. PICK P \in 0 .. L - 1 : P = 0 + (e - 1) /\ P + 1 = e
    <3>1. e - 1 \in 0 .. L - 1 /\ e - 1 = 0 + (e - 1) /\ (e - 1) + 1 = e
      OBVIOUS
    <3> QED BY <3>1
  <2> QED BY <1>1, <2>2 DEF Headed
<1>3. Begins(y, 0 + Len(ph), out, 0, 2)
  <2>1. 0 + Len(ph) = Len(ph)
    BY <1>1
  <2> QED BY <2>1
<1>4. Begins(y, 0, ph \o out, 0, 2)
  BY <1>2, <1>3, BeginsOn
<1>5. PICK c : c = ph \o out /\ Len(c) = L + K
  BY <1>1, Concatenated
<1>6. ASSUME NEW P \in 0 .. (L + K) - 1
      PROVE  /\ P % y.nsym_frame < y.len_preamble => c[P + 1] = 0
             /\ P % y.nsym_frame = y.len_preamble => c[P + 1] = 2
  <2>1. PICK e \in 1 .. L + K : e = P + 1 /\ 0 + (e - 1) = P
    <3>1. P + 1 \in 1 .. L + K /\ 0 + ((P + 1) - 1) = P
      OBVIOUS
    <3> QED BY <3>1
  <2> QED BY <1>4, <1>5, <2>1 DEF Begins
<1> QED BY <1>5, <1>6 DEF Headed

-----------------------------------------------------------------------------
(***************************************************************************)
(* The sender, with packets of any size: frames are headed as they are to  *)
(* be, and every symbol gets its subchirp.                                 *)
(***************************************************************************)
Sending ==
  /\ phases \in Seq(Phase) /\ Headed(phy, phases)
  /\ Position(phy, Len(phases), prefixer) /\ Rolled(phy, Len(phases), dqpsk)
  /\ dqcsk \in Counters /\ dqcsk.nth = Len(phases)

\* The first items of a sequence.
LEMMA OnlyFirst ==
  ASSUME NEW S, NEW s \in Seq(S), NEW k \in Nat, k <= Len(s)
  PROVE  SubSeq(s, 1, k) \in Seq(S) /\ Len(SubSeq(s, 1, k)) = k
<1>1. Len(s) \in Nat
  BY LenProperties
<1>2. 1 \in Nat \ {0} /\ 1 <= k + 1
  OBVIOUS
<1>3. SubSeq(s, 1, k) \in Seq(S) /\ Len(SubSeq(s, 1, k)) = k - 1 + 1
  BY <1>2, Stretch
<1>4. k - 1 + 1 = k
  OBVIOUS
<1> QED BY <1>3, <1>4

\* Both ports are cut alike.
LEMMA CutAlike ==
  ASSUME NEW c, Twins(Chip, c), NEW K \in Nat, NEW p \in {0, 1}
  PROVE  /\ SubSeq(c[p], 1, IF Len(c[p]) < K THEN Len(c[p]) ELSE K) \in Seq(Chip)
         /\ Len(SubSeq(c[p], 1, IF Len(c[p]) < K THEN Len(c[p]) ELSE K)) = IF Len(c[0]) < K THEN Len(c[0]) ELSE K
         /\ SubSeq(c[p], K + 1, Len(c[p])) \in Seq(Chip)
         /\ Len(SubSeq(c[p], K + 1, Len(c[p]))) = IF Len(c[0]) < K THEN 0 ELSE Len(c[0]) - K
<1>1. PICK s \in Seq(Chip) : s = c[p]
  BY DEF Twins
<1>2. PICK L \in Nat : L = Len(s) /\ L = Len(c[0])
  <2>1. Len(s) \in Nat
    BY LenProperties
  <2> QED BY <1>1, <2>1 DEF Twins
<1>4. CASE L < K
  <2>1. SubSeq(s, 1, L) \in Seq(Chip) /\ Len(SubSeq(s, 1, L)) = L
    <3>1. L <= Len(s)
      BY <1>2
    <3> QED BY <3>1, OnlyFirst
  <2>2. SubSeq(s, K + 1, L) = << >>
    BY <1>2, <1>4
  <2>3. << >> \in Seq(Chip) /\ Len(<< >>) = 0
    OBVIOUS
  <2> QED BY <1>1, <1>2, <1>4, <2>1, <2>2, <2>3
<1>5. CASE ~ (L < K)
  <2>1. SubSeq(s, 1, K) \in Seq(Chip) /\ Len(SubSeq(s, 1, K)) = K
    <3>1. K <= Len(s)
      BY <1>2, <1>5
    <3> QED BY <3>1, OnlyFirst
  <2>2. SubSeq(s, K + 1, L) \in Seq(Chip) /\ Len(SubSeq(s, K + 1, L)) = L - K
    <3>1. K <= Len(s)
      BY <1>2, <1>5
    <3>2. SubSeq(s, K + 1, Len(s)) \in Seq(Chip) /\ Len(SubSeq(s, K + 1, Len(s))) = Len(s) - K
      BY <3>1, WithoutFirst
    <3> QED BY <1>2, <3>2
  <2> QED BY <1>1, <1>2, <1>5, <2>1, <2>2
<1> QED BY <1>4, <1>5

\* What the modulator makes of the chips of both ports, whichever way they are connected.
PortOf(p) == IF crossed THEN 1 - p ELSE p
Phased(i, q) == [k \in DOMAIN i.out |-> QpskPhase(i.out[k], q.out[k])]
Differed(f) == RunDqpsk(phy, TRUE, dqpsk, f)

\* Modulated, taken apart into these.
LEMMA ModulatedOf ==
  ASSUME NEW i, i = RunPrefixer(phy, prefixer, FirstChips(toPrefixer[PortOf(0)])),
         NEW q, q = RunPrefixer(phy, prefixer, FirstChips(toPrefixer[PortOf(1)])),
         NEW f, f = Phased(i, q),
         NEW r, r = Differed(f),
         NEW z, z = RunDqcsk(phy, dqcsk, r.out)
  PROVE  Modulated.prefixer = i.state /\ Modulated.diff = r /\ Modulated.chirps = z
<1>1. 0 \in Ports /\ 1 \in Ports
  BY DEF Ports
<1> DEFINE Ported == [p \in Ports |-> RunPrefixer(phy, prefixer, FirstChips(toPrefixer[IF crossed THEN 1 - p ELSE p]))]
           Diff(g) == RunDqpsk(phy, TRUE, dqpsk, [n \in DOMAIN g[0].out |-> QpskPhase(g[0].out[n], g[1].out[n])])
<1>3. Modulated = [prefixer |-> Ported[0].state, diff |-> Diff(Ported),
                   chirps |-> RunDqcsk(phy, dqcsk, Diff(Ported).out)]
  BY ZenonT(30) DEF Modulated, RunPrefixer, RunDqpsk, RunDqcsk
<1>4. Ported[0] = i
  BY <1>1 DEF PortOf
<1>5. Ported[1] = q
  BY <1>1 DEF PortOf
<1> HIDE DEF Ported
<1>8. Diff(Ported) = r
  BY <1>4, <1>5, Zenon DEF Phased, Differed
<1> HIDE DEF Diff
<1>6. Modulated = [prefixer |-> i.state, diff |-> r, chirps |-> z]
  BY <1>3, <1>4, <1>8, Zenon
<1>7. PICK e : e = i.state /\ Modulated = [prefixer |-> e, diff |-> r, chirps |-> z]
  BY <1>6
<1> QED BY <1>7, Zenon

\* The symbols and subchirps of a pass through the modulator.
Sent(m, out, c) ==
  /\ out \in Seq(Phase) /\ m.diff.out = out /\ m.chirps.out = c /\ Chirped(out, dqcsk, m.chirps)
  /\ phases' = phases \o out /\ dqcsk' = m.chirps.state

\* What Modulate puts out.
LEMMA Sends ==
  ASSUME Shaped(phy), Intake, Sending, Modulate(Modulated)
  PROVE  Intake' /\ Sending' /\ \E out, c : Sent(Modulated, out, c)
<1>0. PICK md : md = Modulated
  OBVIOUS
<1>1. phy' = phy /\ toPrefixer' = [p \in Ports |-> OtherChips(toPrefixer[p])] /\ toMapper' = toMapper
      /\ toIntlv' = toIntlv /\ dbuf' = dbuf /\ toPad' = toPad
  BY DEF Modulate
<1>2. PICK ph \in Seq(Phase) : ph = phases
  BY DEF Sending
<1>27. PICK P \in Nat : P = Len(ph)
  BY LenProperties
<1>28. PICK y : y = phy
  OBVIOUS
<1>3. Started(y) /\ Timed(y)
  BY <1>28 DEF Shaped
<1>4. PICK cr : cr = toPrefixer /\ Twins(Chip, cr)
  BY DEF Intake
<1>5. PICK a \in {0, 1}, b \in {0, 1} : a = PortOf(0) /\ b = PortOf(1)
  BY DEF PortOf
<1>6. PICK c \in Seq(Chip), d \in Seq(Chip) :
        c = FirstChips(toPrefixer[a]) /\ d = FirstChips(toPrefixer[b]) /\ Len(c) = Len(d)
  <2>1. PICK K \in Nat : K = y.nsym_frame - Len(y.header)
    BY <1>3 DEF Started
  <2>2. \A p \in {0, 1} : FirstChips(toPrefixer[p]) = SubSeq(cr[p], 1, IF Len(cr[p]) < K THEN Len(cr[p]) ELSE K)
    BY <1>4, <1>28, <2>1 DEF FirstChips, ChipsPerFrame
  <2>3. \A p \in {0, 1} : FirstChips(toPrefixer[p]) \in Seq(Chip)
          /\ Len(FirstChips(toPrefixer[p])) = IF Len(cr[0]) < K THEN Len(cr[0]) ELSE K
    <3>1. ASSUME NEW p \in {0, 1}
          PROVE  /\ SubSeq(cr[p], 1, IF Len(cr[p]) < K THEN Len(cr[p]) ELSE K) \in Seq(Chip)
                 /\ Len(SubSeq(cr[p], 1, IF Len(cr[p]) < K THEN Len(cr[p]) ELSE K)) = IF Len(cr[0]) < K THEN Len(cr[0]) ELSE K
      <4> HIDE <2>1
      <4> QED BY <1>4, CutAlike
    <3> QED BY <2>2, <3>1, Zenon
  <2> HIDE <2>1
  <2> QED BY <2>3
<1>7. PICK i, q : i = RunPrefixer(y, prefixer, c) /\ q = RunPrefixer(y, prefixer, d)
  OBVIOUS
<1>8. Position(y, P, prefixer) /\ Rolled(y, P, dqpsk) /\ Headed(y, ph) /\ dqcsk \in Counters /\ dqcsk.nth = P
  BY <1>2, <1>27, <1>28 DEF Sending
<1>9. PrefixedAlike(y, P, i, q)
  BY <1>3, <1>6, <1>7, <1>8, PrefixersRun
<1>10. PICK f : f = Phased(i, q)
  OBVIOUS
<1>11. f \in Seq(Phase) /\ Len(f) = Len(i.out) /\ Begins(y, P, f, 0, 2)
  BY <1>9, <1>10, QpskBegins DEF Phased
<1>12. PICK r : r = RunDqpsk(y, TRUE, dqpsk, f)
  OBVIOUS
<1>13. HeadedOut(y, P, Len(f), r)
  BY <1>3, <1>8, <1>11, <1>12, DqpskHeaded
<1>14. PICK out \in Seq(Phase), n \in Nat : out = r.out /\ n = Len(out) /\ n = Len(f) /\ n = Len(i.out)
  <2>1. r.out \in Seq(Phase) /\ Len(r.out) = Len(f)
    BY <1>13 DEF HeadedOut
  <2>2. Len(f) \in Nat
    BY <1>11, LenProperties
  <2> QED BY <1>11, <2>1, <2>2
<1>15. PICK z : z = RunDqcsk(y, dqcsk, out)
  OBVIOUS
<1>16. Chirped(out, dqcsk, z)
  BY <1>3, <1>8, <1>15, ChirpsMade
<1>17. md.prefixer = i.state /\ md.diff = r /\ md.chirps = z
  <2>1. i = RunPrefixer(phy, prefixer, FirstChips(toPrefixer[PortOf(0)]))
    BY <1>5, <1>6, <1>7, <1>28
  <2>2. q = RunPrefixer(phy, prefixer, FirstChips(toPrefixer[PortOf(1)]))
    BY <1>5, <1>6, <1>7, <1>28
  <2>3. r = Differed(f) /\ z = RunDqcsk(phy, dqcsk, r.out)
    BY <1>12, <1>14, <1>15, <1>28, Zenon DEF Differed
  <2>4. Modulated.prefixer = i.state /\ Modulated.diff = r /\ Modulated.chirps = z
    <3> HIDE <1>2, <1>5, <1>6, <1>7, <1>10, <1>12, <1>14, <1>15
    <3> QED BY <1>10, <2>1, <2>2, <2>3, ModulatedOf
  <2> QED BY <1>0, <2>4
<1>18. prefixer' = i.state /\ dqpsk' = r.state /\ dqcsk' = z.state /\ phases' = ph \o out
  BY <1>0, <1>2, <1>14, <1>17 DEF Modulate
<1>19. Sent(md, out, z.out)
  BY <1>2, <1>14, <1>16, <1>17, <1>18 DEF Sent
<1>20. ph \o out \in Seq(Phase) /\ Len(ph \o out) = P + n
  <2>1. ph \o out \in Seq(Phase) /\ Len(ph \o out) = Len(ph) + Len(out)
    BY Concatenated
  <2> QED BY <1>14, <1>27, <2>1
<1>21. Headed(y, ph \o out)
  BY <1>27, <1>8, <1>13, <1>14, HeadedOn DEF HeadedOut
<1>22. Position(y, P + n, i.state) /\ Rolled(y, P + n, r.state)
  BY <1>9, <1>13, <1>14 DEF PrefixedAlike, HeadedOut
<1>23. z.state \in Counters /\ z.state.nth = P + n
  BY <1>8, <1>14, <1>16 DEF Chirped
<1>24. Sending'
  BY <1>1, <1>2, <1>28, <1>18, <1>20, <1>21, <1>22, <1>23 DEF Sending
<1>25. Twins(Chip, toPrefixer')
  <2>1. PICK K \in Nat : K = y.nsym_frame - Len(y.header)
    BY <1>3 DEF Started
  <2>2. \A p \in {0, 1} : /\ SubSeq(cr[p], K + 1, Len(cr[p])) \in Seq(Chip)
                          /\ Len(SubSeq(cr[p], K + 1, Len(cr[p]))) = IF Len(cr[0]) < K THEN 0 ELSE Len(cr[0]) - K
    <3> HIDE <2>1
    <3> QED BY <1>4, CutAlike
  <2>3. \A p \in {0, 1} : toPrefixer'[p] = SubSeq(cr[p], K + 1, Len(cr[p]))
    BY <1>1, <1>28, <1>4, <2>1 DEF OtherChips, ChipsPerFrame, Ports
  <2> HIDE <2>1
  <2> QED BY <2>2, <2>3 DEF Twins
<1>26. Intake'
  BY <1>1, <1>25 DEF Intake
<1> QED BY <1>0, <1>19, <1>24, <1>26

-----------------------------------------------------------------------------
(***************************************************************************)
(* What goes first: a burst from what waits, and what is heard of the air. *)
(***************************************************************************)

\* Places that are the first k of s, and all others.
Parted(s, places, k) ==
  /\ k \in Nat /\ k <= Len(s)
  /\ \A i \in 1 .. Len(s) : i \in places <=> i <= k
  /\ Picked(s, places) = SubSeq(s, 1, k)
  /\ Picked(s, DOMAIN s \ places) = SubSeq(s, k + 1, Len(s))

\* Picking the places of the first k items, and picking the others.
LEMMA FirstPicked ==
  ASSUME NEW S, NEW s \in Seq(S), NEW places,
         \A i, j \in 1 .. Len(s) : i < j /\ j \in places => i \in places
  PROVE  \E k : Parted(s, places, k)
<1>1. PICK N \in Nat : N = Len(s)
  BY LenProperties
<1>2. PICK m \in 1 .. N + 1 : /\ m \notin 1 .. N \/ m \notin places
                              /\ \A i \in 1 .. N : i < m => i \in places
  <2> DEFINE Out == {i \in 1 .. N + 1 : i \notin 1 .. N \/ i \notin places}
  <2>1. N + 1 \in Out
    OBVIOUS
  <2>2. Out \in SUBSET Nat /\ Out # {}
    <3>1. \A i \in Out : i \in Nat
      OBVIOUS
    <3> HIDE DEF Out
    <3> QED BY <2>1, <3>1
  <2>3. PICK m \in Out : \A i \in Out : m <= i
    <3> HIDE DEF Out
    <3> QED BY <2>2, LeastElement
  <2>4. \A i \in 1 .. N : i < m => i \in places
    <3>1. SUFFICES ASSUME NEW i \in 1 .. N, i < m, i \notin places PROVE FALSE
      OBVIOUS
    <3>2. i \in Out
      BY <3>1
    <3>3. m <= i
      BY <2>3, <3>2
    <3> QED BY <2>3, <3>1, <3>3
  <2> QED BY <2>3, <2>4
<1>3. PICK k \in Nat : m = k + 1 /\ k <= N
  <2>1. m - 1 \in Nat /\ m = (m - 1) + 1 /\ m - 1 <= N
    OBVIOUS
  <2> QED BY <2>1
<1>4. \A i \in 1 .. N : i \in places <=> i <= k
  <2>1. SUFFICES ASSUME NEW i \in 1 .. N PROVE i \in places <=> i <= k
    OBVIOUS
  <2>2. CASE i <= k
    BY <1>2, <1>3, <2>2
  <2>3. CASE i = k + 1
    BY <1>2, <1>3, <2>3
  <2>4. CASE i > k + 1
    <3>1. m \in 1 .. N /\ m < i /\ ~ (i <= k)
      BY <1>3, <2>4
    <3> QED BY <1>1, <1>2, <3>1
  <2> QED BY <1>3, <2>2, <2>3, <2>4
<1>5. Picked(s, places) = SubSeq(s, 1, k)
  <2>1. \A i \in 1 .. Len(s) : i \in places <=> (0 < i /\ i <= k)
    BY <1>1, <1>4
  <2>2. 0 \in Nat /\ 0 <= k /\ k <= Len(s) /\ 0 + 1 = 1
    BY <1>1, <1>3
  <2>3. Picked(s, places) = SubSeq(s, 0 + 1, k)
    BY <2>1, <2>2, PickedStretch
  <2> QED BY <2>2, <2>3
<1>6. Picked(s, DOMAIN s \ places) = SubSeq(s, k + 1, Len(s))
  <2>1. PICK others : others = DOMAIN s \ places
    OBVIOUS
  <2>2. \A i \in 1 .. Len(s) : i \in others <=> (k < i /\ i <= N)
    <3>1. DOMAIN s = 1 .. N
      BY <1>1, LenProperties
    <3> QED BY <1>1, <1>3, <1>4, <2>1, <3>1
  <2>3. k <= N /\ N <= Len(s)
    BY <1>1, <1>3
  <2>4. Picked(s, others) = SubSeq(s, k + 1, N)
    <3> HIDE <2>1
    <3> QED BY <2>2, <2>3, PickedStretch
  <2> QED BY <1>1, <2>1, <2>4
<1> QED BY <1>1, <1>3, <1>4, <1>5, <1>6 DEF Parted

\* A phase is no turn away from itself.
LEMMA TurnOfPhase ==
  ASSUME NEW x \in Phase
  PROVE  x = Turn(x + 0)
BY DEF Turn, Phase

\* A burst: k subchirps go, of which s are heard, all in the time of the burst.
BurstGone(w, B, n, T, x, s, k, w2, gone2) ==
  /\ s \in Seq(Subchirp) /\ w2 = SubSeq(w, k + 1, Len(w))
  /\ Sifted(s, w, k, 0) /\ Missed(s, w, k, gone2)
  /\ Later(w2) /\ Within(w2, B + n, T) /\ Later(s) /\ Within(s, x, x + n)
Shift(heard, B, z, p) == [i \in DOMAIN heard |-> [heard[i] EXCEPT !.at = heard[i].at - B + z + p]]
Soon(w, B, n) == {i \in DOMAIN w : w[i].at < B + n}
Unheard(mine, heard, gone) ==
  {mine[i].nth : i \in DOMAIN mine} \ {heard[i].nth : i \in DOMAIN heard} \subseteq gone

\* stream_to_tagged_stream on subchirps that are in order of time.
LEMMA BurstGoes ==
  ASSUME NEW w \in Seq(Subchirp), Rising(w), Later(w), NEW B \in Nat, NEW n \in Nat, NEW T, Within(w, B, T),
         NEW mine, mine = Picked(w, Soon(w, B, n)),
         NEW kept, NEW heard, heard = Picked(mine, kept),
         NEW z \in Nat, NEW p \in Nat, NEW s, s = Shift(heard, B, z, p),
         NEW gone2, Unheard(mine, heard, gone2)
  PROVE  \E k \in Nat : /\ k <= Len(w) /\ k = Len(mine)
                        /\ BurstGone(w, B, n, T, z + p, s, k, SubSeq(w, k + 1, Len(w)), gone2)
<1>1. PICK W \in Nat : W = Len(w) /\ DOMAIN w = 1 .. W
  BY LenProperties
<1>2. \A i \in 1 .. W : w[i] \in Subchirp
  BY <1>1, LenProperties
<1>3. \A i \in 1 .. W : w[i].at \in Int /\ w[i].phase \in Phase /\ w[i].nth \in Nat
  BY <1>2 DEF Subchirp
<1>4. PICK k : Parted(w, Soon(w, B, n), k)
  <2>1. \A i, j \in 1 .. Len(w) : i < j /\ j \in Soon(w, B, n) => i \in Soon(w, B, n)
    BY <1>1, <1>3 DEF Later, Soon
  <2> QED BY <2>1, FirstPicked
<1>5. k \in Nat /\ k <= W /\ (\A i \in 1 .. W : w[i].at < B + n <=> i <= k) /\ mine = SubSeq(w, 1, k)
  BY <1>1, <1>4 DEF Parted, Soon
<1>6. mine \in Seq(Subchirp) /\ Len(mine) = k /\ (\A i \in 1 .. k : mine[i] = w[i])
  <2>1. k <= Len(w)
    BY <1>1, <1>5
  <2>2. SubSeq(w, 1, k) \in Seq(Subchirp) /\ Len(SubSeq(w, 1, k)) = k
    BY <1>5, <2>1, OnlyFirst
  <2>3. \A i \in 1 .. k : SubSeq(w, 1, k)[i] = w[i]
    BY <1>5, <2>1
  <2> QED BY <1>5, <2>2, <2>3
<1>7. heard \in Seq(Subchirp) /\ Drawn(heard, mine, k)
  BY <1>6, PickedDrawn
<1>8. PICK H \in Nat : H = Len(heard) /\ DOMAIN heard = 1 .. H
  BY <1>7, LenProperties
<1>9. Rising(mine) /\ Later(mine) /\ Within(mine, B, B + n)
  <2>1. \A i, j \in 1 .. k : i < j => mine[i].nth < mine[j].nth /\ mine[i].at < mine[j].at
    BY <1>1, <1>5, <1>6 DEF Rising, Later
  <2>2. \A i \in 1 .. k : B <= mine[i].at /\ mine[i].at < B + n
    BY <1>1, <1>5, <1>6 DEF Within
  <2> QED BY <1>6, <2>1, <2>2 DEF Rising, Later, Within
<1>10. Numbered(mine)
  BY <1>6, SubchirpsNumbered
<1>11. Rising(heard) /\ Later(heard) /\ Within(heard, B, B + n)
       /\ \A i \in 1 .. H : \E l \in 1 .. k : heard[i] = mine[l]
  <2>1. k <= Len(mine)
    BY <1>5, <1>6
  <2>2. /\ Rising(heard)
        /\ \A i \in 1 .. Len(heard) : \E l \in 1 .. k : heard[i] = mine[l]
        /\ Later(mine) => Later(heard)
        /\ \A from, to : Within(mine, from, to) => Within(heard, from, to)
    <3>1. Drawn(heard, mine, k) /\ Numbered(mine) /\ Rising(mine) /\ k \in Nat
      BY <1>5, <1>7, <1>9, <1>10
    <3> HIDE <1>1, <1>4, <1>8
    <3> QED BY SMTT(60), <2>1, <3>1, DrawnInOrder
  <2> QED BY <1>8, <1>9, <2>2
<1>12. \A i \in 1 .. H : heard[i] \in Subchirp
  BY <1>7, <1>8, LenProperties
<1>13. \A i \in 1 .. H : heard[i].at \in Int /\ heard[i].phase \in Phase /\ heard[i].nth \in Nat /\ heard[i].sub \in Nat
  BY <1>12 DEF Subchirp
<1>14. \A i \in 1 .. H : heard[i] = [at |-> heard[i].at, sub |-> heard[i].sub, phase |-> heard[i].phase, nth |-> heard[i].nth]
  BY <1>12 DEF Subchirp
<1>15. s = [i \in 1 .. H |-> [heard[i] EXCEPT !.at = heard[i].at - B + z + p]]
  BY <1>8 DEF Shift
<1>16. \A i \in 1 .. H : /\ s[i] \in Subchirp /\ s[i].at = heard[i].at - B + z + p
                         /\ s[i].phase = heard[i].phase /\ s[i].nth = heard[i].nth
  <2>1. SUFFICES ASSUME NEW i \in 1 .. H
                 PROVE  /\ s[i] \in Subchirp /\ s[i].at = heard[i].at - B + z + p
                        /\ s[i].phase = heard[i].phase /\ s[i].nth = heard[i].nth
    OBVIOUS
  <2>2. PICK h \in Subchirp, a \in Int : h = heard[i] /\ a = heard[i].at - B + z + p
    <3>1. PICK b \in Int : b = heard[i].at
      BY <1>13
    <3>2. b - B + z + p \in Int
      OBVIOUS
    <3> QED BY <1>12, <3>1, <3>2
  <2>3. s[i] = [h EXCEPT !.at = a]
    BY <1>15, <2>2
  <2> QED BY <2>2, <2>3 DEF Subchirp
<1>17. s \in Seq(Subchirp) /\ Len(s) = H
  <2>1. s = [i \in 1 .. H |-> s[i]]
    BY <1>15
  <2> QED BY SMTT(60), <1>16, <2>1
<1>18. Rising(s) /\ Later(s)
  <2>1. \A i, j \in 1 .. H : i < j => s[i].nth < s[j].nth
    BY <1>8, <1>11, <1>16 DEF Rising
  <2>2. \A i, j \in 1 .. H : i < j => s[i].at < s[j].at
    <3>1. SUFFICES ASSUME NEW i \in 1 .. H, NEW j \in 1 .. H, i < j PROVE s[i].at < s[j].at
      OBVIOUS
    <3>2. PICK a \in Int, b \in Int : a = heard[i].at /\ b = heard[j].at
      BY <1>13
    <3>3. a < b
      BY <1>8, <1>11, <3>1, <3>2 DEF Later
    <3>4. s[i].at = a - B + z + p /\ s[j].at = b - B + z + p
      BY <1>16, <3>2
    <3> QED BY <3>3, <3>4
  <2>3. Rising(s)
    BY <1>17, <2>1 DEF Rising
  <2>4. Later(s)
    BY <1>17, <2>2 DEF Later
  <2> QED BY <2>3, <2>4
<1>19. Within(s, z + p, z + p + n)
  <2>1. SUFFICES ASSUME NEW i \in 1 .. H PROVE z + p <= s[i].at /\ s[i].at < z + p + n
    BY <1>17 DEF Within
  <2>2. PICK a \in Int : a = heard[i].at
    BY <1>13
  <2>3. B <= a /\ a < B + n
    BY <1>8, <1>11, <2>2 DEF Within
  <2>4. s[i].at = a - B + z + p
    BY <1>16, <2>2
  <2> QED BY <2>3, <2>4
<1>20. Sifted(s, w, k, 0)
  <2>1. SUFFICES ASSUME NEW i \in 1 .. H
                 PROVE \E l \in 1 .. k : s[i].nth = w[l].nth /\ s[i].phase = Turn(w[l].phase + 0)
    BY <1>17, <1>18 DEF Sifted
  <2>2. PICK l \in 1 .. k : heard[i] = mine[l]
    BY <1>11
  <2>3. s[i].nth = w[l].nth /\ s[i].phase = w[l].phase /\ w[l].phase \in Phase
    BY <1>3, <1>5, <1>6, <1>16, <2>2
  <2> QED BY <2>3, TurnOfPhase
<1>21. Missed(s, w, k, gone2)
  <2>1. SUFFICES ASSUME NEW l \in 1 .. k, w[l].nth \notin gone2 PROVE w[l].nth \in Nths(s)
    BY DEF Missed
  <2>2. DOMAIN mine = 1 .. k
    BY <1>6, LenProperties
  <2>3. w[l].nth \in {mine[i].nth : i \in DOMAIN mine}
    BY <1>6, <2>2
  <2>4. w[l].nth \in {heard[i].nth : i \in DOMAIN heard}
    BY <2>1, <2>3 DEF Unheard
  <2>5. PICK i \in 1 .. H : w[l].nth = heard[i].nth
    BY <1>8, <2>4
  <2>6. w[l].nth = s[i].nth
    BY <1>16, <2>5
  <2> QED BY <1>17, <2>6 DEF Nths
<1>22. PICK w2 : w2 = SubSeq(w, k + 1, Len(w)) /\ Later(w2) /\ Within(w2, B + n, T)
  <2>1. PICK w2 : w2 = SubSeq(w, k + 1, Len(w))
    OBVIOUS
  <2>2. k <= Len(w)
    BY <1>1, <1>5
  <2>3. Len(w2) = W - k /\ \A i \in 1 .. W - k : w2[i] = w[k + i]
    BY <1>1, <1>5, <2>1, <2>2, WithoutFirst
  <2>4. \A i \in 1 .. W - k : k + i \in 1 .. W /\ ~ (k + i <= k)
    BY <1>5
  <2>5. \A i \in 1 .. W - k : w2[i] = w[k + i] /\ B + n <= w[k + i].at /\ w[k + i].at < T
    <3>1. SUFFICES ASSUME NEW i \in 1 .. W - k PROVE B + n <= w[k + i].at /\ w[k + i].at < T
      BY <2>3
    <3>2. PICK l \in 1 .. W : l = k + i /\ ~ (l <= k)
      BY <2>4
    <3>3. ~ (w[l].at < B + n) /\ w[l].at \in Int /\ w[l].at < T
      BY <1>1, <1>3, <1>5, <3>2 DEF Within
    <3> QED BY <3>2, <3>3
  <2>6. Within(w2, B + n, T)
    BY <2>3, <2>5 DEF Within
  <2>7. Later(w2)
    <3>1. SUFFICES ASSUME NEW i \in 1 .. W - k, NEW j \in 1 .. W - k, i < j PROVE w2[i].at < w2[j].at
      BY <2>3 DEF Later
    <3>2. k + i < k + j /\ k + i \in 1 .. W /\ k + j \in 1 .. W
      BY <1>5, <2>4, <3>1
    <3> QED BY <1>1, <2>3, <3>2 DEF Later
  <2> QED BY <2>1, <2>6, <2>7
<1>23. z + p + n = (z + p) + n
  OBVIOUS
<1> QED BY <1>1, <1>5, <1>6, <1>17, <1>18, <1>19, <1>20, <1>21, <1>22, <1>23 DEF BurstGone

\* The chirp detector: k subchirps go, of which s are found.
DetectedFrom(y, a, T, rot, s, k, a2, gone2) ==
  /\ s \in Seq(Symbol) /\ a2 = SubSeq(a, k + 1, Len(a))
  /\ Sifted(s, a, k, rot) /\ Missed(s, a, k, gone2)
  /\ Later(a2) /\ Within(a2, 0, T)
Rotated(out, rot) == [n \in DOMAIN out |-> [phase |-> Turn(out[n].phase + rot), nth |-> out[n].nth]]
Unfound(a, a2, sy2, gone) ==
  {a[n].nth : n \in 1 .. Len(a) - Len(a2)} \ {sy2[n].nth : n \in DOMAIN sy2} \subseteq gone
Joined(sy, s, sy2) == sy2 = sy \o s

\* multiuser_chirp_detector_cc on subchirps that are in order of time.
LEMMA HearsFirst ==
  ASSUME NEW y, Timed(y), NEW a \in Seq(Subchirp), Rising(a), Later(a), NEW T, Within(a, 0, T),
         NEW rot \in Phase, NEW places, NEW k, Parted(a, places, k),
         NEW d \in Detectors, NEW r, r = RunDetector(y, d, Picked(a, places)),
         NEW s, s = Rotated(r.out, rot), NEW sy \in Seq(Symbol), Apart(sy, a), NEW sy2, Joined(sy, s, sy2),
         NEW a2, a2 = Picked(a, DOMAIN a \ places), NEW gone2, Unfound(a, a2, sy2, gone2)
  PROVE  r.state \in Detectors /\ DetectedFrom(y, a, T, rot, s, k, a2, gone2)
<1>1. PICK A \in Nat : A = Len(a) /\ DOMAIN a = 1 .. A
  BY LenProperties
<1>2. \A i \in 1 .. A : a[i] \in Subchirp
  BY <1>1, LenProperties
<1>3. \A i \in 1 .. A : a[i].at \in Int /\ a[i].phase \in Phase /\ a[i].nth \in Nat
  BY <1>2 DEF Subchirp
<1>4. PICK mine : mine = Picked(a, places)
  OBVIOUS
<1>5. k \in Nat /\ k <= A /\ mine = SubSeq(a, 1, k) /\ a2 = SubSeq(a, k + 1, Len(a))
  BY <1>1, <1>4 DEF Parted
<1>6. mine \in Seq(Subchirp) /\ Len(mine) = k /\ (\A i \in 1 .. k : mine[i] = a[i])
  <2>1. k <= Len(a)
    BY <1>1, <1>5
  <2>2. SubSeq(a, 1, k) \in Seq(Subchirp) /\ Len(SubSeq(a, 1, k)) = k
    BY <1>5, <2>1, OnlyFirst
  <2>3. \A i \in 1 .. k : SubSeq(a, 1, k)[i] = a[i]
    BY <1>5, <2>1
  <2> QED BY <1>5, <2>2, <2>3
<1>7. r.state \in Detectors /\ r.out \in Seq(Subchirp) /\ Drawn(r.out, mine, k)
  BY <1>4, <1>6, Detected
<1>8. PICK out \in Seq(Subchirp), H \in Nat : out = r.out /\ H = Len(out) /\ DOMAIN out = 1 .. H
  BY <1>7, LenProperties
<1>9. Rising(mine)
  <2>1. \A i, j \in 1 .. k : i < j => mine[i].nth < mine[j].nth
    <3>1. SUFFICES ASSUME NEW i \in 1 .. k, NEW j \in 1 .. k, i < j PROVE mine[i].nth < mine[j].nth
      OBVIOUS
    <3>2. i \in 1 .. A /\ j \in 1 .. A
      BY <1>5
    <3>3. a[i].nth < a[j].nth
      BY <1>1, <3>1, <3>2 DEF Rising
    <3> QED BY <1>6, <3>3
  <2> QED BY <1>6, <2>1 DEF Rising
<1>10. Numbered(mine)
  BY <1>6, SubchirpsNumbered
<1>11. Rising(out) /\ \A i \in 1 .. H : \E l \in 1 .. k : out[i] = mine[l]
  <2>1. k <= Len(mine)
    BY <1>5, <1>6
  <2>2. Rising(out) /\ \A i \in 1 .. Len(out) : \E l \in 1 .. k : out[i] = mine[l]
    <3>1. Drawn(out, mine, k) /\ k \in Nat
      BY <1>5, <1>7, <1>8
    <3> HIDE <1>1, <1>4, <1>8
    <3> QED BY <1>9, <1>10, <2>1, <3>1, DrawnInOrder
  <2> QED BY <1>8, <2>2
<1>12. \A i \in 1 .. H : out[i] \in Subchirp
  BY <1>8, LenProperties
<1>13. \A i \in 1 .. H : out[i].phase \in Phase /\ out[i].nth \in Nat
  BY <1>12 DEF Subchirp
<1>14. s = [n \in 1 .. H |-> [phase |-> Turn(out[n].phase + rot), nth |-> out[n].nth]]
  BY <1>8 DEF Rotated
<1>15. \A i \in 1 .. H : s[i] \in Symbol /\ s[i].phase = Turn(out[i].phase + rot) /\ s[i].nth = out[i].nth
  <2>1. SUFFICES ASSUME NEW i \in 1 .. H
                 PROVE  s[i] \in Symbol /\ s[i].phase = Turn(out[i].phase + rot) /\ s[i].nth = out[i].nth
    OBVIOUS
  <2>2. PICK x \in Phase, n \in Nat : x = Turn(out[i].phase + rot) /\ n = out[i].nth
    <3>1. PICK p \in Phase : p = out[i].phase
      BY <1>13
    <3>2. p + rot \in Int
      BY DEF Phase
    <3>3. Turn(p + rot) \in Phase
      BY <3>2, TurnType
    <3> QED BY <1>13, <3>1, <3>3
  <2>3. s[i] = [phase |-> x, nth |-> n]
    BY <1>14, <2>2
  <2> QED BY <2>2, <2>3 DEF Symbol
<1>16. s \in Seq(Symbol) /\ Len(s) = H
  <2>1. PICK g : g = [n \in 1 .. H |-> [phase |-> Turn(out[n].phase + rot), nth |-> out[n].nth]]
    OBVIOUS
  <2>2. s = g
    BY <1>14, <2>1
  <2>3. \A n \in 1 .. H : [phase |-> Turn(out[n].phase + rot), nth |-> out[n].nth] \in Symbol
    BY <1>15, <2>1, <2>2
  <2>4. g \in [1 .. H -> Symbol]
    BY <2>1, <2>3
  <2>5. g \in Seq(Symbol) /\ Len(g) = H
    <3> HIDE <2>1
    <3> QED BY <2>4
  <2> QED BY <2>2, <2>5
<1>17. Sifted(s, a, k, rot)
  <2>1. Rising(s)
    <3>1. \A i, j \in 1 .. H : i < j => s[i].nth < s[j].nth
        <4>1. SUFFICES ASSUME NEW i \in 1 .. H, NEW j \in 1 .. H, i < j PROVE s[i].nth < s[j].nth
        OBVIOUS
      <4>2. out[i].nth < out[j].nth
        BY <1>8, <1>11, <4>1 DEF Rising
      <4> QED BY <1>15, <4>2
    <3> QED BY <1>16, <3>1 DEF Rising
  <2>2. \A i \in 1 .. H : \E l \in 1 .. k : s[i].nth = a[l].nth /\ s[i].phase = Turn(a[l].phase + rot)
    <3>1. SUFFICES ASSUME NEW i \in 1 .. H
                   PROVE \E l \in 1 .. k : s[i].nth = a[l].nth /\ s[i].phase = Turn(a[l].phase + rot)
      OBVIOUS
    <3>2. PICK l \in 1 .. k : out[i] = mine[l]
      BY <1>11
    <3>3. out[i] = a[l]
      BY <1>6, <3>2
    <3>4. s[i].nth = a[l].nth /\ s[i].phase = Turn(a[l].phase + rot)
      BY <1>15, <3>3, Zenon
    <3> QED BY <3>4
  <2> QED BY <1>16, <2>1, <2>2 DEF Sifted
<1>18. Len(a2) = A - k /\ \A i \in 1 .. A - k : a2[i] = a[k + i]
  <2>1. k <= Len(a)
    BY <1>1, <1>5
  <2>2. PICK b : b = SubSeq(a, k + 1, Len(a))
    OBVIOUS
  <2>3. Len(b) = Len(a) - k /\ \A i \in 1 .. Len(a) - k : b[i] = a[k + i]
    BY <1>5, <2>1, <2>2, WithoutFirst
  <2> QED BY <1>1, <1>5, <2>2, <2>3
<1>19. Missed(s, a, k, gone2)
  <2>1. SUFFICES ASSUME NEW l \in 1 .. k, a[l].nth \notin gone2 PROVE a[l].nth \in Nths(s)
    BY DEF Missed
  <2>2. l \in 1 .. A - (A - k) /\ l \in 1 .. A
    BY <1>5
  <2>3. a[l].nth \in {a[n].nth : n \in 1 .. Len(a) - Len(a2)}
    BY <1>1, <1>18, <2>2
  <2>4. a[l].nth \in {sy2[n].nth : n \in DOMAIN sy2}
    BY <2>1, <2>3 DEF Unfound
  <2>5. PICK Y \in Nat : Y = Len(sy)
    BY LenProperties
  <2>6. sy2 \in Seq(Symbol) /\ Len(sy2) = Y + H /\ (\A i \in 1 .. Y : sy2[i] = sy[i])
        /\ (\A i \in 1 .. H : sy2[Y + i] = s[i])
    <3>1. PICK g \in Seq(Symbol) : g = s
      BY <1>16
    <3>2. PICK h : h = sy \o g
      OBVIOUS
    <3>3. h \in Seq(Symbol) /\ Len(h) = Len(sy) + Len(g) /\ (\A i \in 1 .. Len(sy) : h[i] = sy[i])
          /\ (\A i \in 1 .. Len(g) : h[Len(sy) + i] = g[i])
      BY <3>2, Concatenated
    <3>4. sy2 = h
      BY <3>1, <3>2 DEF Joined
    <3> HIDE <3>2
    <3> QED BY <1>16, <2>5, <3>1, <3>3, <3>4
  <2>7. DOMAIN sy2 = 1 .. Y + H
    BY <2>6, LenProperties
  <2>8. PICK n \in 1 .. Y + H : a[l].nth = sy2[n].nth
    BY <2>4, <2>7
  <2>9. CASE n \in 1 .. Y
    <3>1. sy[n].nth < a[l].nth
      BY <1>1, <2>2, <2>5, <2>9 DEF Apart
    <3>2. a[l].nth = sy[n].nth /\ a[l].nth \in Nat
      BY <1>3, <2>2, <2>6, <2>8, <2>9
    <3> QED BY <3>1, <3>2
  <2>10. CASE n \notin 1 .. Y
    <3>1. PICK i \in 1 .. H : n = Y + i
      <4>1. n - Y \in 1 .. H /\ n = Y + (n - Y)
        BY <2>10
      <4> QED BY <4>1
    <3>2. a[l].nth = s[i].nth
      BY <2>6, <2>8, <3>1
    <3> QED BY <1>16, <3>2 DEF Nths
  <2> QED BY <2>9, <2>10
<1>20. Later(a2)
  <2>1. \A i, j \in 1 .. A - k : i < j => a2[i].at < a2[j].at
    <3>1. SUFFICES ASSUME NEW i \in 1 .. A - k, NEW j \in 1 .. A - k, i < j PROVE a2[i].at < a2[j].at
      OBVIOUS
    <3>2. k + i < k + j /\ k + i \in 1 .. A /\ k + j \in 1 .. A
      BY <1>5, <3>1
    <3> QED BY <1>1, <1>18, <3>2 DEF Later
  <2> QED BY <1>18, <2>1 DEF Later
<1>21. Within(a2, 0, T)
  <2>1. \A i \in 1 .. A - k : 0 <= a2[i].at /\ a2[i].at < T
    <3>1. SUFFICES ASSUME NEW i \in 1 .. A - k PROVE 0 <= a2[i].at /\ a2[i].at < T
      OBVIOUS
    <3>2. k + i \in 1 .. A
      BY <1>5
    <3> QED BY <1>1, <1>18, <3>2 DEF Within
  <2> QED BY <1>18, <2>1 DEF Within
<1> QED BY <1>5, <1>7, <1>16, <1>17, <1>19, <1>20, <1>21 DEF DetectedFrom

-----------------------------------------------------------------------------
(***************************************************************************)
(* What the frame buffer passes on, as numbers of symbols: X[m] is item m  *)
(* of a frame, from 0.                                                     *)
(***************************************************************************)
ImitatesIn(y, half, ph, k) ==
  \E first \in k * y.nsym_frame + 1 .. (k + 1) * y.nsym_frame - 1 :
    /\ first + y.len_preamble < Len(ph)
    /\ \A nth \in first + 1 .. first + y.len_preamble - 1 : Turn(ph[nth + 1] - ph[nth]) \in Small(half)
    /\ Turn(ph[first + y.len_preamble + 1] - ph[first + y.len_preamble]) # 0
BadIn(y, half, ph, gone, k) == HitIn(y.nsym_frame, gone, k) \/ ImitatesIn(y, half, ph, k)

WTyped(y, ph, X) == \A m \in 0 .. y.nsym_frame - 1 : X[m] \in Nat /\ X[m] < Len(ph)
WRising(y, X) == \A m, l \in 0 .. y.nsym_frame - 1 : m <= l => X[m] + (l - m) <= X[l]
WDense(y, gone, X) ==
  \A m, l \in 0 .. y.nsym_frame - 1 :
    m <= l /\ (\A e \in 1 .. l - m : X[m] + e \notin gone) => X[l] = X[m] + (l - m)
WStarts(y, gone, X) ==
  \A k \in Nat : X[0] < k * y.nsym_frame /\ k * y.nsym_frame <= X[y.nsym_frame - 1] => HitIn(y.nsym_frame, gone, k)
WTurn(ph, X, m) == Turn(ph[X[m] + 1] - ph[X[m - 1] + 1])
WTurns(y, half, ph, X) ==
  /\ \A m \in 1 .. y.len_preamble - 1 : WTurn(ph, X, m) \in Small(half)
  /\ WTurn(ph, X, y.len_preamble) # 0
Window(y, half, ph, gone, X) ==
  WTyped(y, ph, X) /\ WRising(y, X) /\ WDense(y, gone, X) /\ WStarts(y, gone, X) /\ WTurns(y, half, ph, X)

\* The symbols of a frame, and those of one that was not hit.
LEMMA FrameRange ==
  ASSUME NEW N \in Nat \ {0}, NEW k \in Nat, NEW T \in Nat, T = k * N, NEW P \in Nat
  PROVE  P \div N = k <=> T <= P /\ P < T + N
<1>1. PICK q \in Nat, m \in 0 .. N - 1 : q = P \div N /\ P = N * q + m
  <2>1. P \div N \in Nat /\ P % N \in 0 .. N - 1 /\ P = N * (P \div N) + (P % N)
    OBVIOUS
  <2> QED BY <2>1
<1>2. q = k => T <= P /\ P < T + N
  BY <1>1
<1>3. ASSUME T <= P, P < T + N PROVE q = k
  <2>1. PICK e \in 0 .. N - 1 : e = P - T
    <3>1. P - T \in 0 .. N - 1
      BY <1>3
    <3> QED BY <3>1
  <2>2. P = N * k + e
    BY <2>1
  <2>3. (N * k + e) \div N = k
    BY Division
  <2> QED BY <1>1, <2>2, <2>3
<1> QED BY <1>1, <1>2, <1>3

\* No symbol of a frame that was not hit is lost.
LEMMA CleanFrame ==
  ASSUME NEW N \in Nat \ {0}, NEW k \in Nat, NEW T \in Nat, T = k * N, NEW gone, ~ HitIn(N, gone, k),
         NEW P \in Nat, T <= P, P < T + N
  PROVE  P \notin gone
<1>1. P \div N = k
  BY FrameRange
<1> QED BY <1>1 DEF HitIn

\* Where the next frame begins.
LEMMA NextFrame ==
  ASSUME NEW N \in Nat, NEW k \in Nat
  PROVE  (k + 1) * N = k * N + N /\ k * N \in Nat
OBVIOUS

\* Symbols that pass the tagger's test inside a frame.
Passes(n, half, ph, P) ==
  /\ \A m \in 1 .. n - 1 : Turn(ph[P + m + 1] - ph[P + m]) \in Small(half)
  /\ Turn(ph[P + n + 1] - ph[P + n]) # 0

\* The symbol behind the first one of a frame.
LEMMA NextPlace ==
  ASSUME NEW N \in Nat, NEW P \in Nat, NEW z \in Nat, NEW z2 \in Nat, z2 = z + N, z < P, P < z2
  PROVE  P \in z + 1 .. z2 - 1
OBVIOUS

\* Then the frame imitates a preamble.
LEMMA ImitatesFrom ==
  ASSUME NEW y, NEW N \in Nat \ {0}, NEW n \in Nat, N = y.nsym_frame, n = y.len_preamble,
         NEW half, NEW ph \in Seq(Phase), NEW k \in Nat, NEW T \in Nat, T = k * N,
         NEW P \in Nat, T < P, P < T + N, P + n < Len(ph),
         Passes(n, half, ph, P)
  PROVE  ImitatesIn(y, half, ph, k)
<1>1. (k + 1) * N = T + N
  BY NextFrame
<1>2. P \in k * N + 1 .. (k + 1) * N - 1
  <2>1. PICK z \in Nat, z2 \in Nat : z = k * N /\ z2 = (k + 1) * N /\ z = T /\ z2 = T + N
    BY <1>1
  <2>2. P \in z + 1 .. z2 - 1
    BY ZenonT(60), <2>1, NextPlace
  <2> QED BY <2>1, <2>2
<1>3. ASSUME NEW nth \in P + 1 .. P + n - 1 PROVE Turn(ph[nth + 1] - ph[nth]) \in Small(half)
  <2>1. PICK m \in 1 .. n - 1 : nth = P + m
    <3>1. nth - P \in 1 .. n - 1 /\ nth = P + (nth - P)
      OBVIOUS
    <3> QED BY <3>1
  <2> QED BY <2>1 DEF Passes
<1> QED BY <1>2, <1>3 DEF ImitatesIn, Passes

\* Items of the window that follow each other in a frame that was not hit.
LEMMA Unbroken ==
  ASSUME NEW y, NEW N \in Nat \ {0}, N = y.nsym_frame, NEW gone, NEW X, NEW ph, WTyped(y, ph, X), WDense(y, gone, X),
         NEW k \in Nat, NEW T \in Nat, T = k * N, ~ HitIn(N, gone, k),
         NEW m \in 0 .. N - 1, NEW l \in 0 .. N - 1, m <= l, T <= X[m] + 1, X[m] + (l - m) < T + N
  PROVE  X[l] = X[m] + (l - m)
<1>1. PICK A \in Nat, d \in Nat : A = X[m] /\ d = l - m
  <2>1. X[m] \in Nat /\ l - m \in Nat
    BY SMTT(60) DEF WTyped
  <2> QED BY <2>1
<1>2. ASSUME NEW e \in 1 .. d PROVE A + e \notin gone
  <2>1. A + e \in Nat /\ T <= A + e /\ A + e < T + N
    BY <1>1
  <2> QED BY <2>1, CleanFrame
<1> QED BY <1>1, <1>2 DEF WDense

\* Where a frame begins, and the place in it.
Base(N, k, T) == T = k * N

\* The place in its frame of a symbol.
LEMMA PlaceInFrame ==
  ASSUME NEW n \in Nat, NEW N \in Nat, n < N, NEW T \in Nat, NEW P \in Nat, T <= P, P < T + n
  PROVE  \E e \in 0 .. N - 1 : P = T + e /\ e < n
<1>1. P - T \in 0 .. N - 1 /\ P = T + (P - T) /\ P - T < n
  OBVIOUS
<1> QED BY <1>1

\* What is reached from further behind is reached.
LEMMA ReachesFurther ==
  ASSUME NEW a \in Nat, NEW d \in Nat, NEW c \in Nat, a + d <= c
  PROVE  a <= c
OBVIOUS

\* Two numbers in order, some distance apart.
LEMMA Stays ==
  ASSUME NEW A \in Nat, NEW d \in Nat, NEW B \in Nat, A + d <= B
  PROVE  A <= B /\ \A z \in Nat : B < z => A + d < z /\ A < z
OBVIOUS

\* A frame begins at a multiple of nsym_frame.
LEMMA BaseMultiple ==
  ASSUME NEW N \in Nat \ {0}, NEW k \in Nat, NEW T \in Nat, Base(N, k, T)
  PROVE  T % N = 0
<1>1. (N * k + 0) % N = 0
  <2>1. 0 \in 0 .. N - 1
    OBVIOUS
  <2> QED BY <2>1, Division
<1>2. N * k + 0 = T
  BY DEF Base
<1> QED BY <1>1, <1>2

\* Symbols at the beginning of a frame have the phase of the preamble.
LEMMA PhaseOfPreamble ==
  ASSUME NEW y, NEW N \in Nat \ {0}, NEW n \in Nat, N = y.nsym_frame, n = y.len_preamble, n < N,
         NEW ph \in Seq(Phase), Headed(y, ph),
         NEW k \in Nat, NEW T \in Nat, Base(N, k, T), NEW P \in Nat, T <= P, P < T + n, P < Len(ph)
  PROVE  ph[P + 1] = 0
<1>1. PICK e \in 0 .. N - 1 : P = T + e /\ e < n
  BY PlaceInFrame
<1>2. T % N = 0
  BY BaseMultiple
<1>3. P % N = e
  BY <1>1, <1>2, BehindMultiple
<1>4. P \in 0 .. Len(ph) - 1
  OBVIOUS
<1> QED BY <1>1, <1>3, <1>4 DEF Headed

\* Items that follow each other from P on.
RunsOn(X, P, l) == \A m \in 0 .. l : X[m] = P + m

\* Items that neither skip nor lose a number run on.
LEMMA RunsOnFrom ==
  ASSUME NEW y, NEW N \in Nat \ {0}, N = y.nsym_frame, NEW gone, NEW X, NEW ph, WTyped(y, ph, X), WDense(y, gone, X),
         NEW k \in Nat, NEW T \in Nat, Base(N, k, T), ~ HitIn(N, gone, k),
         NEW l \in 0 .. N - 1, T <= X[0] + 1, X[0] + l < T + N
  PROVE  RunsOn(X, X[0], l)
<1>0. X[0] \in Nat
  BY DEF WTyped
<1>1. ASSUME NEW m \in 0 .. l PROVE X[m] = X[0] + m
  <2>1. m \in 0 .. N - 1 /\ 0 \in 0 .. N - 1 /\ 0 <= m /\ m - 0 = m /\ X[0] + m < T + N
    BY <1>0
  <2>2. X[m] = X[0] + (m - 0)
    BY <2>1, Unbroken DEF Base
  <2> QED BY <2>1, <2>2
<1> QED BY <1>1 DEF RunsOn

\* Turns that passed the tagger's test, of items that run on, pass it in what was sent.
LEMMA RunPasses ==
  ASSUME NEW y, NEW N \in Nat \ {0}, NEW n \in Nat, N = y.nsym_frame, n = y.len_preamble, n >= 1, n < N,
         NEW half, NEW ph, NEW X, WTurns(y, half, ph, X), NEW P \in Nat, RunsOn(X, P, n - 1),
         ph[P + n + 1] = ph[X[n] + 1]
  PROVE  Passes(n, half, ph, P)
<1>1. ASSUME NEW m \in 1 .. n - 1 PROVE Turn(ph[P + m + 1] - ph[P + m]) \in Small(half)
  <2>1. m \in 0 .. n - 1 /\ m - 1 \in 0 .. n - 1 /\ m \in 1 .. y.len_preamble - 1
    OBVIOUS
  <2>2. X[m] = P + m /\ X[m - 1] = P + (m - 1)
    BY <2>1 DEF RunsOn
  <2>3. X[m] + 1 = P + m + 1 /\ X[m - 1] + 1 = P + m
    BY <2>2
  <2>4. WTurn(ph, X, m) = Turn(ph[P + m + 1] - ph[P + m])
    BY <2>3 DEF WTurn
  <2> QED BY <2>1, <2>4 DEF WTurns
<1>2. X[n - 1] + 1 = P + n
  <2>1. n - 1 \in 0 .. n - 1
    OBVIOUS
  <2>2. X[n - 1] = P + (n - 1)
    BY <2>1 DEF RunsOn
  <2> QED BY <2>2
<1>3. WTurn(ph, X, n) = Turn(ph[P + n + 1] - ph[P + n])
  BY <1>2 DEF WTurn
<1>4. WTurn(ph, X, n) # 0
  BY DEF WTurns
<1> QED BY <1>1, <1>3, <1>4 DEF Passes

\* Its parts: types and order of the items at m and l; a frame that begins in it; and what
\* the turns are.
Spaced(ph, X, m, l, d) == \E A \in Nat, B \in Nat : A = X[m] /\ B = X[l] /\ A + d <= B /\ B < Len(ph)

\* Items of a window are in order and spaced.
LEMMA WindowItems ==
  ASSUME NEW y, NEW N \in Nat \ {0}, N = y.nsym_frame, NEW half, NEW ph \in Seq(Phase), NEW gone, NEW X,
         Window(y, half, ph, gone, X), NEW m \in 0 .. N - 1, NEW l \in 0 .. N - 1, m <= l, NEW d, d = l - m
  PROVE  Spaced(ph, X, m, l, d)
<1>1. X[m] \in Nat /\ X[l] \in Nat /\ X[l] < Len(ph)
  BY DEF Window, WTyped
<1>2. X[m] + (l - m) <= X[l]
  BY DEF Window, WRising
<1> QED BY <1>1, <1>2 DEF Spaced

\* A frame that begins in the window was hit.
LEMMA WindowStarts ==
  ASSUME NEW y, NEW N \in Nat \ {0}, N = y.nsym_frame, NEW half, NEW ph, NEW gone, NEW X,
         Window(y, half, ph, gone, X), NEW k \in Nat, NEW T \in Nat, Base(N, k, T), X[0] < T, T <= X[N - 1]
  PROVE  HitIn(N, gone, k)
BY DEF Window, WStarts, Base

\* As it is in the sender's frame k, from the SFD on.
FromSfd(n, N, T, X) == \A i \in n .. N - 1 : X[i] = T + i

\* A frame that was not hit and imitates no preamble, claimed by the SFD, is as sent.
LEMMA CleanTaken ==
  ASSUME NEW y, NEW N \in Nat \ {0}, NEW n \in Nat, N = y.nsym_frame, n = y.len_preamble, n >= 2, n < N,
         NEW half, NEW ph \in Seq(Phase), NEW gone, NEW X, Window(y, half, ph, gone, X),
         NEW k \in Nat, NEW T \in Nat, Base(N, k, T), T <= X[n], X[n] < T + N, ~ BadIn(y, half, ph, gone, k)
  PROVE  FromSfd(n, N, T, X)
<1>0. ~ HitIn(N, gone, k) /\ ~ ImitatesIn(y, half, ph, k)
  BY DEF BadIn
<1>10. 0 \in 0 .. N - 1 /\ n \in 0 .. N - 1 /\ N - 1 \in 0 .. N - 1 /\ 0 <= n /\ n <= N - 1 /\ n - 0 = n
  BY SMTT(60)
<1>11. WTyped(y, ph, X) /\ WDense(y, gone, X) /\ WTurns(y, half, ph, X)
  BY DEF Window
<1>1. PICK A \in Nat, B \in Nat : A = X[0] /\ B = X[n] /\ A + n <= B /\ B < Len(ph)
  <2>1. Spaced(ph, X, 0, n, n)
    BY <1>10, WindowItems
  <2> QED BY <2>1 DEF Spaced
<1>2. PICK C \in Nat : C = X[N - 1] /\ B <= C
  <2>1. PICK d \in Nat : d = N - 1 - n
    <3>1. N - 1 - n \in Nat
      OBVIOUS
    <3> QED BY <3>1
  <2>2. Spaced(ph, X, n, N - 1, d)
    BY <1>10, <2>1, WindowItems
  <2>3. PICK A1 \in Nat, C \in Nat : A1 = X[n] /\ C = X[N - 1] /\ A1 + d <= C
    BY <2>2 DEF Spaced
  <2>4. A1 <= C
    BY Zenon, <2>3, ReachesFurther
  <2>5. A1 = B
    BY <2>3, <1>1
  <2>6. C \in Nat /\ C = X[N - 1] /\ B <= C
    BY <2>3, <2>4, <2>5
  <2> QED BY <2>6
<1>3. T <= B /\ B < T + N
  BY <1>1
<1>4. CASE A < T
  <2>1. A < T /\ T <= C
    BY <1>2, <1>3, <1>4
  <2> QED BY <2>1, <1>0, <1>1, <1>2, WindowStarts
<1>5. CASE A = T
  <2>1. RunsOn(X, X[0], N - 1)
    <3>1. T <= X[0] + 1 /\ X[0] + (N - 1) < T + N
      BY <1>1, <1>5
    <3> QED BY <3>1, <1>0, <1>10, <1>11, RunsOnFrom
  <2>2. ASSUME NEW i \in n .. N - 1 PROVE X[i] = T + i
    <3>1. i \in 0 .. N - 1
      OBVIOUS
    <3> QED BY <3>1, <2>1, <1>1, <1>5 DEF RunsOn
  <2> QED BY <2>2 DEF FromSfd
<1>6. CASE A > T
  <2>1. RunsOn(X, X[0], n)
    <3>1. T <= A + 1
      BY <1>6
    <3>2. T + N \in Nat
      OBVIOUS
    <3>3. A + n < T + N
      BY <1>1, <1>3, <3>2, Stays
    <3> QED BY <3>1, <3>3, <1>1, <1>0, <1>10, <1>11, RunsOnFrom
  <2>2. RunsOn(X, A, n - 1) /\ X[n] = A + n
    <3>1. n \in 0 .. n /\ \A m \in 0 .. n - 1 : m \in 0 .. n
      OBVIOUS
    <3> QED BY <3>1, <2>1, <1>1 DEF RunsOn
  <2>3. Passes(n, half, ph, A)
    <3>1. n >= 1 /\ ph[A + n + 1] = ph[X[n] + 1]
      BY <2>2
    <3> QED BY <3>1, <2>2, <1>11, RunPasses
  <2>4. T < A /\ A < T + N /\ A + n < Len(ph)
    BY SMTT(60), <1>1, <1>3, <1>6, <2>2
  <2> QED BY <2>3, <2>4, <1>0, ImitatesFrom DEF Base
<1> QED BY <1>1, <1>4, <1>5, <1>6

\* If the next frame was not hit, the frame is as sent, or its SFD is claimed too early.
LEMMA Squeezed ==
  ASSUME NEW n \in Nat, NEW N \in Nat, NEW T \in Nat, NEW i \in n .. N - 1, NEW B \in Nat, NEW I \in Nat, NEW C \in Nat,
         B + (i - n) <= I, I + (N - 1 - i) <= C, C < T + N, T + n <= B
  PROVE  I = T + i
OBVIOUS

\* Distances within a frame.
LEMMA StepsBetween ==
  ASSUME NEW n \in Nat, NEW N \in Nat, NEW i \in n .. N - 1
  PROVE  i - n \in Nat /\ N - 1 - i \in Nat
OBVIOUS

\* A number below N.
LEMMA InRange ==
  ASSUME NEW n \in Nat, NEW N \in Nat, n < N
  PROVE  n \in 0 .. N - 1
OBVIOUS

\* A run that ends where a frame begins is within the frame before.
LEMMA EndsAt ==
  ASSUME NEW A \in Nat, NEW n \in Nat, NEW N \in Nat, NEW T \in Nat, NEW T1 \in Nat, NEW L \in Nat,
         A + n = T, n >= 2, T = T1 + N, T < L
  PROVE  A < T1 + N /\ A + n < L
OBVIOUS

\* If the next frame was not hit, the window holds frame k, or its SFD is missing.
LEMMA NextClean ==
  ASSUME NEW y, NEW N \in Nat \ {0}, NEW n \in Nat, N = y.nsym_frame, n = y.len_preamble, n < N,
         NEW half, NEW ph \in Seq(Phase), NEW gone, NEW X, Window(y, half, ph, gone, X),
         NEW k \in Nat, NEW T \in Nat, Base(N, k, T), X[n] < T + N, ~ HitIn(N, gone, k + 1)
  PROVE  FromSfd(n, N, T, X) \/ X[n] < T + n
<1>1. 0 \in 0 .. N - 1 /\ n \in 0 .. N - 1 /\ N - 1 \in 0 .. N - 1 /\ 0 <= n /\ n <= N - 1 /\ n - 0 = n
  BY SMTT(60)
<1>2. PICK A \in Nat, B \in Nat : A = X[0] /\ B = X[n] /\ A + n <= B
  <2>1. Spaced(ph, X, 0, n, n)
    BY <1>1, WindowItems
  <2> QED BY <2>1 DEF Spaced
<1>3. PICK C \in Nat : C = X[N - 1]
  BY <1>1 DEF Window, WTyped
<1>4. PICK T2 \in Nat : T2 = T + N
  OBVIOUS
<1>5. C < T2
  <2> SUFFICES ASSUME ~ (C < T2) PROVE FALSE
    OBVIOUS
  <2>1. Base(N, k + 1, T2) /\ k + 1 \in Nat
    <3>1. (k + 1) * N = k * N + N
      BY NextFrame
    <3>2. k * N = T
      BY DEF Base
    <3>3. T2 = (k + 1) * N
      BY <3>1, <3>2, <1>4
    <3> QED BY <3>3 DEF Base
  <2>2. A < T2 /\ T2 <= C
    <3>1. B < T2
      BY <1>2, <1>4
    <3>2. A < T2
      BY <3>1, <1>2, Stays
    <3> QED BY <3>2
  <2> QED BY <2>1, <2>2, <1>2, <1>3, WindowStarts
<1>6. ASSUME ~ (B < T + n), NEW i \in n .. N - 1 PROVE X[i] = T + i
  <2>1. i \in 0 .. N - 1 /\ n <= i /\ i <= N - 1
    OBVIOUS
  <2>2. PICK d \in Nat, e \in Nat : d = i - n /\ e = N - 1 - i
    <3>1. i - n \in Nat /\ N - 1 - i \in Nat
      BY StepsBetween
    <3> QED BY <3>1
  <2>3. Spaced(ph, X, n, i, d) /\ Spaced(ph, X, i, N - 1, e)
    BY <1>1, <2>1, <2>2, WindowItems
  <2>4. PICK I \in Nat : I = X[i] /\ B + d <= I /\ I + e <= C
    BY <2>3, <1>2, <1>3 DEF Spaced
  <2>5. T + n <= B
    BY <1>6
  <2>6. I = T + i
    BY <2>2, <2>4, <2>5, <1>4, <1>5, Squeezed
  <2> QED BY <2>4, <2>6
<1> QED BY <1>2, <1>6 DEF FromSfd

\* It is not, unless the frame before was hit or imitates a preamble.
LEMMA BeforeClean ==
  ASSUME NEW y, NEW N \in Nat \ {0}, NEW n \in Nat, N = y.nsym_frame, n = y.len_preamble, n >= 2, n < N,
         NEW half, NEW ph \in Seq(Phase), Headed(y, ph), NEW gone, NEW X, Window(y, half, ph, gone, X),
         NEW k \in Nat, NEW T \in Nat, Base(N, k, T), T <= X[n], X[n] < T + n,
         k >= 1 => ~ BadIn(y, half, ph, gone, k - 1)
  PROVE  FALSE
<1>1. 0 \in 0 .. N - 1 /\ n \in 0 .. N - 1 /\ n - 1 \in 0 .. N - 1 /\ N - 1 \in 0 .. N - 1
      /\ 0 <= n - 1 /\ (n - 1) - 0 = n - 1 /\ n - 1 <= n /\ n - (n - 1) = 1 /\ n <= N - 1
  BY SMTT(60)
<1>2. PICK A \in Nat, D \in Nat : A = X[0] /\ D = X[n - 1] /\ A + (n - 1) <= D
  <2>1. Spaced(ph, X, 0, n - 1, n - 1)
    BY <1>1, WindowItems
  <2> QED BY <2>1 DEF Spaced
<1>3. PICK B \in Nat : B = X[n] /\ D + 1 <= B /\ B < Len(ph)
  <2>1. Spaced(ph, X, n - 1, n, 1)
    BY <1>1, WindowItems
  <2> QED BY <2>1, <1>2 DEF Spaced
<1>4. PICK C \in Nat : C = X[N - 1] /\ B <= C
  <2>1. PICK d \in Nat : d = N - 1 - n
    <3>1. N - 1 - n \in Nat
      OBVIOUS
    <3> QED BY <3>1
  <2>2. Spaced(ph, X, n, N - 1, d)
    BY <1>1, <2>1, WindowItems
  <2>3. PICK A1 \in Nat, C \in Nat : A1 = X[n] /\ C = X[N - 1] /\ A1 + d <= C
    BY <2>2 DEF Spaced
  <2>4. A1 <= C
    BY Zenon, <2>3, ReachesFurther
  <2>5. A1 = B
    BY <2>3, <1>3
  <2>6. C \in Nat /\ C = X[N - 1] /\ B <= C
    BY <2>3, <2>4, <2>5
  <2> QED BY <2>6
<1>5. T <= B /\ B < T + n /\ D < B /\ B < Len(ph)
  BY <1>3
<1>6. ph[B + 1] = 0
  BY SMTT(60), <1>5, PhaseOfPreamble
<1>7. WTyped(y, ph, X) /\ WDense(y, gone, X) /\ WTurns(y, half, ph, X)
  BY DEF Window
<1>8. WTurn(ph, X, n) = Turn(ph[B + 1] - ph[D + 1]) /\ WTurn(ph, X, n) # 0
  BY <1>2, <1>3, <1>7 DEF WTurn, WTurns
<1>9. D < T
  <2> SUFFICES ASSUME ~ (D < T) PROVE FALSE
    OBVIOUS
  <2>1. T <= D /\ D < T + n /\ D < Len(ph)
    BY SMTT(60), <1>3, <1>5
  <2>2. ph[D + 1] = 0
    BY <2>1, PhaseOfPreamble
  <2>3. Turn(0 - 0) = 0
    BY DEF Turn
  <2> QED BY <2>2, <2>3, <1>6, <1>8
<1>10. k >= 1 /\ k - 1 \in Nat
  <2>1. k # 0
    <3> SUFFICES ASSUME k = 0 PROVE FALSE
      OBVIOUS
    <3>1. T = 0
      BY DEF Base
    <3> QED BY <3>1, <1>9
  <2> QED BY <2>1
<1>11. PICK T1 \in Nat : Base(N, k - 1, T1) /\ T = T1 + N
  <2>1. PICK j \in Nat : j = k - 1 /\ k = j + 1
    BY <1>10
  <2>2. PICK T1 \in Nat : T1 = j * N
    BY NextFrame
  <2>3. T = T1 + N
    BY <2>1, <2>2, NextFrame DEF Base
  <2> QED BY <2>1, <2>2, <2>3 DEF Base
<1>12. ~ HitIn(N, gone, k - 1) /\ ~ ImitatesIn(y, half, ph, k - 1)
  BY <1>10 DEF BadIn
<1>13. CASE A < T1
  <2>1. T1 <= C
    BY SMTT(60), <1>4, <1>5, <1>11
  <2> QED BY <2>1, <1>2, <1>4, <1>10, <1>11, <1>12, <1>13, WindowStarts
<1>14. CASE ~ (A < T1)
  <2>1. RunsOn(X, X[0], n - 1)
    <3>1. T1 <= A + 1
      BY <1>14
    <3>2. A + (n - 1) < T1 + N
      <4>1. n - 1 \in Nat
        OBVIOUS
      <4>2. D < T1 + N /\ T1 + N \in Nat
        BY <1>9, <1>11
      <4> QED BY ZenonT(60), <4>1, <4>2, <1>2, Stays
    <3> QED BY <3>1, <3>2, <1>1, <1>2, <1>7, <1>10, <1>11, <1>12, RunsOnFrom
  <2>2. RunsOn(X, A, n - 1) /\ D = A + (n - 1)
    <3>1. n - 1 \in 0 .. n - 1
      OBVIOUS
    <3> QED BY <2>1, <3>1, <1>2 DEF RunsOn
  <2>3. A + n <= T
    BY <2>2, <1>9
  <2>4. CASE A + n < T
    <3>1. RunsOn(X, X[0], n)
      <4>1. T1 <= A + 1 /\ A + n < T1 + N
        BY <1>11, <1>14, <2>4
      <4> QED BY <4>1, <1>1, <1>2, <1>7, <1>10, <1>11, <1>12, RunsOnFrom
    <3>2. B = A + n
      <4>1. n \in 0 .. n
        OBVIOUS
      <4> QED BY <4>1, <3>1, <1>2, <1>3 DEF RunsOn
    <3> QED BY <3>2, <2>4, <1>5
  <2>5. CASE A + n = T
    <3>1. T < Len(ph) /\ T <= T /\ T < T + n
      BY SMTT(60), <1>3, <1>5
    <3>2. ph[T + 1] = 0
      BY <3>1, PhaseOfPreamble
    <3>3. ph[A + n + 1] = ph[X[n] + 1]
      BY <2>5, <3>2, <1>3, <1>6
    <3>4. Passes(n, half, ph, A)
      <4>1. n >= 1
        OBVIOUS
      <4> QED BY <4>1, <3>3, <2>2, <1>7, RunPasses
    <3>5. CASE T1 < A
      <4>1. A < T1 + N /\ A + n < Len(ph)
        BY SMTT(60), <2>5, <3>1, <1>11, EndsAt
      <4> QED BY <3>4, <3>5, <4>1, <1>10, <1>11, <1>12, ImitatesFrom DEF Base
    <3>6. CASE A = T1
      <4>1. N = n
        BY <3>6, <2>5, <1>11
      <4> QED BY <4>1
    <3> QED BY <3>5, <3>6, <1>14
  <2> QED BY SMTT(60), <2>3, <2>4, <2>5
<1> QED BY <1>13, <1>14

\* A frame passed on is as sent, or two frames in a row are bad.
TakenIn(y, half, ph, gone, X, k) ==
  \/ FromSfd(y.len_preamble, y.nsym_frame, k * y.nsym_frame, X)
  \/ \E m \in {k - 1, k} \cap Nat : BadIn(y, half, ph, gone, m) /\ BadIn(y, half, ph, gone, m + 1)

\* So it is for every window that the frame buffer can take.
LEMMA WindowTaken ==
  ASSUME NEW y, Started(y), NEW half, NEW ph \in Seq(Phase), Headed(y, ph), NEW gone, NEW X,
         Window(y, half, ph, gone, X), NEW k \in Nat, k = X[y.len_preamble] \div y.nsym_frame
  PROVE  TakenIn(y, half, ph, gone, X, k)
<1>1. PICK N \in Nat \ {0}, n \in Nat : N = y.nsym_frame /\ n = y.len_preamble /\ n >= 2 /\ n < N
  <2>1. y.nsym_frame \in Nat \ {0} /\ y.len_preamble \in Nat /\ y.len_preamble >= 2 /\ y.len_preamble < y.nsym_frame
    BY SizesOf
  <2> QED BY <2>1
<1>2. PICK T \in Nat : Base(N, k, T) /\ T = k * y.nsym_frame
  <2>1. k * N \in Nat
    OBVIOUS
  <2> QED BY <2>1, <1>1 DEF Base
<1>3. T <= X[n] /\ X[n] < T + N
  <2>1. PICK B \in Nat : B = X[n]
    <3>1. n \in 0 .. N - 1
      BY <1>1, InRange
    <3> QED BY <3>1, <1>1 DEF Window, WTyped
  <2>2. B \div N = k
    BY <1>1, <2>1
  <2>3. T <= B /\ B < T + N
    BY <2>2, <1>2, FrameRange DEF Base
  <2> QED BY <2>1, <2>3
<1>4. CASE ~ BadIn(y, half, ph, gone, k)
  <2>1. FromSfd(n, N, T, X)
    BY <1>1, <1>2, <1>3, <1>4, CleanTaken
  <2> QED BY <2>1, <1>1, <1>2 DEF TakenIn
<1>5. CASE BadIn(y, half, ph, gone, k) /\ ~ BadIn(y, half, ph, gone, k + 1) /\ (k >= 1 => ~ BadIn(y, half, ph, gone, k - 1))
  <2>1. ~ HitIn(N, gone, k + 1)
    BY <1>1, <1>5 DEF BadIn
  <2>2. FromSfd(n, N, T, X) \/ X[n] < T + n
    BY <2>1, <1>1, <1>2, <1>3, NextClean
  <2>3. ~ (X[n] < T + n)
    BY <1>1, <1>2, <1>3, <1>5, BeforeClean
  <2> QED BY <2>2, <2>3, <1>1, <1>2 DEF TakenIn
<1>6. CASE BadIn(y, half, ph, gone, k) /\ BadIn(y, half, ph, gone, k + 1)
  BY <1>6 DEF TakenIn
<1>7. CASE BadIn(y, half, ph, gone, k) /\ k >= 1 /\ BadIn(y, half, ph, gone, k - 1)
  <2>1. k - 1 \in {k - 1, k} \cap Nat /\ (k - 1) + 1 = k
    BY <1>7
  <2> QED BY <1>7, <2>1 DEF TakenIn
<1> QED BY <1>4, <1>5, <1>6, <1>7

\* Numbers that rise do so by one at least.
LEMMA Strides ==
  ASSUME NEW r, Numbered(r), Rising(r), NEW i \in 1 .. Len(r), NEW d \in Nat, i + d <= Len(r)
  PROVE  i + d \in 1 .. Len(r) /\ r[i].nth + d <= r[i + d].nth
<1>0. Len(r) \in Nat /\ \A l \in 1 .. Len(r) : r[l].nth \in Nat
  BY DEF Numbered
<1> DEFINE S == {e \in Nat : i + e <= Len(r) => r[i].nth + e <= r[i + e].nth}
<1>1. 0 \in S
  BY <1>0
<1>2. ASSUME NEW e \in Nat, e \in S PROVE e + 1 \in S
  <2>1. SUFFICES ASSUME i + (e + 1) <= Len(r) PROVE r[i].nth + (e + 1) <= r[i + (e + 1)].nth
    OBVIOUS
  <2>2. PICK j \in 1 .. Len(r), l \in 1 .. Len(r) : j = i + e /\ l = i + (e + 1) /\ j < l
    BY <1>0, <2>1
  <2>3. PICK A \in Nat, B \in Nat, C \in Nat : A = r[i].nth /\ B = r[j].nth /\ C = r[l].nth
    BY <1>0
  <2>4. A + e <= B
    BY <1>0, <1>2, <2>1, <2>2, <2>3
  <2>5. B < C
    BY <2>2, <2>3 DEF Rising
  <2>6. A + (e + 1) <= C
    BY <2>4, <2>5
  <2> QED BY <2>2, <2>3, <2>6
<1> HIDE DEF S
<1>3. d \in S
  BY <1>1, <1>2, InductiveSet
<1> QED BY <1>0, <1>3 DEF S

\* The numbers of N symbols of the stream, from the f-th on.
Taking(r, f, N, X) == \A m \in 0 .. N - 1 : f + m \in 1 .. Len(r) /\ X[m] = r[f + m].nth

\* Symbols taken from the stream are in order.
LEMMA TakingRises ==
  ASSUME NEW y, NEW N \in Nat \ {0}, N = y.nsym_frame, NEW ph \in Seq(Phase), NEW rot, NEW r, NEW a, NEW w, NEW gone,
         Coming(ph, rot, r, a, w, gone), NEW f \in Nat, NEW X, Taking(r, f, N, X)
  PROVE  WTyped(y, ph, X) /\ WRising(y, X) /\ WDense(y, gone, X)
<1>1. Numbered(r) /\ Rising(r) /\ Carry(ph, rot, r) /\ r \in Seq(Symbol)
  BY SymbolsNumbered DEF Coming
<1>2. Len(r) \in Nat
  BY <1>1 DEF Numbered
<1>3. ASSUME NEW m \in 0 .. N - 1 PROVE X[m] \in Nat /\ X[m] < Len(ph)
  BY <1>1 DEF Taking, Numbered, Carry
<1>4. ASSUME NEW m \in 0 .. N - 1, NEW l \in 0 .. N - 1, m <= l
      PROVE  /\ X[m] + (l - m) <= X[l]
             /\ (\A e \in 1 .. l - m : X[m] + e \notin gone) => X[l] = X[m] + (l - m)
  <2>1. PICK i \in 1 .. Len(r), d \in Nat : i = f + m /\ d = l - m /\ i + d = f + l
    <3>1. f + m \in 1 .. Len(r) /\ l - m \in Nat /\ (f + m) + (l - m) = f + l
      BY <1>4 DEF Taking
    <3> QED BY <3>1
  <2>2. X[m] = r[i].nth /\ X[l] = r[i + d].nth /\ i + d <= Len(r)
    <3>1. f + l \in 1 .. Len(r) /\ X[l] = r[f + l].nth /\ X[m] = r[f + m].nth
      BY DEF Taking
    <3> QED BY <2>1, <3>1, <1>2
  <2>3. r[i].nth + d <= r[i + d].nth
    BY <1>1, <2>2, Strides
  <2>4. ASSUME \A e \in 1 .. d : r[i].nth + e \notin gone PROVE r[i + d].nth = r[i].nth + d
    BY <2>2, <2>4, Consecutive
  <2> QED BY <2>1, <2>2, <2>3, <2>4
<1> QED BY <1>3, <1>4 DEF WTyped, WRising, WDense

\* N symbols of which the first one is tagged and no other.
Alone(t, f, N) ==
  /\ f \in 1 .. Len(t) /\ f + N - 1 <= Len(t) /\ t[f].sof
  /\ \A i \in 1 .. Len(t) : f < i /\ i < f + N => ~ t[i].sof

\* The frame that begins at a multiple of nsym_frame.
LEMMA BaseFrame ==
  ASSUME NEW N \in Nat \ {0}, NEW k \in Nat, NEW T \in Nat, Base(N, k, T)
  PROVE  T \div N = k
<1>1. (N * k + 0) \div N = k
  <2>1. 0 \in 0 .. N - 1
    OBVIOUS
  <2> QED BY <2>1, Division
<1>2. N * k + 0 = T
  BY DEF Base
<1> QED BY <1>1, <1>2

\* A frame that begins among symbols without a tag was hit.
LEMMA AloneStarts ==
  ASSUME NEW y, NEW N \in Nat \ {0}, N = y.nsym_frame, NEW half, NEW ph \in Seq(Phase), NEW rot,
         NEW t \in Seq(TaggedSymbol), NEW sy \in Seq(Symbol), NEW a, NEW w, NEW gone,
         Coming(ph, rot, Stream(t, sy), a, w, gone), TagsTell(y, half, t, Stream(t, sy), gone),
         NEW f \in Nat, Alone(t, f, N), NEW X, Taking(Stream(t, sy), f, N, X)
  PROVE  WStarts(y, gone, X)
<1>1. PICK r : r = Stream(t, sy)
  OBVIOUS
<1>2. SUFFICES ASSUME NEW k \in Nat, NEW T \in Nat, T = k * N, X[0] < T, T <= X[N - 1], ~ HitIn(N, gone, k)
               PROVE  FALSE
  BY DEF WStarts
<1>3. Base(N, k, T)
  BY <1>2 DEF Base
<1>4. T \notin gone /\ T \div N = k /\ T % N = 0
  <2>1. T \div N = k
    BY <1>3, BaseFrame
  <2> QED BY <2>1, <1>2, <1>3, BaseMultiple DEF HitIn
<1> HIDE <1>2
<1>5. PICK h \in 1 .. Len(r) : h = f + (N - 1) /\ X[N - 1] = r[h].nth
  <2>1. N - 1 \in 0 .. N - 1
    OBVIOUS
  <2> QED BY <1>1, <2>1 DEF Taking
<1>6. f \in 1 .. Len(r) /\ X[0] = r[f].nth
  <2>1. 0 \in 0 .. N - 1 /\ f + 0 = f
    OBVIOUS
  <2> QED BY <1>1, <2>1 DEF Taking
<1>7. Len(r) \in Nat /\ \A i \in 1 .. Len(r) : r[i].nth \in Nat
  <2>1. r \in Seq(Symbol)
    BY <1>1 DEF Coming
  <2> QED BY <2>1, SymbolsNumbered DEF Numbered
<1>8. r[f].nth <= T /\ T <= r[h].nth
  BY SMTT(60), <1>2, <1>5, <1>6, <1>7
<1>9. PICK l \in f .. h : r[l].nth = T
  <2>1. Coming(ph, rot, r, a, w, gone)
    BY <1>1
  <2>2. f \in 1 .. Len(r) /\ h \in 1 .. Len(r) /\ T \in Nat /\ T \notin gone
    BY <1>4, <1>6
  <2> QED BY <2>1, <2>2, <1>8, Between
<1>10. l # f
  BY <1>2, <1>6, <1>7, <1>9
<1>11. l \in 1 .. Len(t) /\ f < l /\ l < f + N
  <2>1. Len(t) \in Nat /\ f + N - 1 <= Len(t) /\ f >= 1
    BY LenProperties DEF Alone
  <2> QED BY SMTT(60), <2>1, <1>5, <1>9, <1>10
<1>12. t[l].nth = T
  <2>1. r[l] = [phase |-> t[l].phase, nth |-> t[l].nth]
    BY <1>1, <1>11, StreamItems
  <2> QED BY <2>1, <1>9
<1>13. t[l].sof
  <2>1. ~ HitIn(y.nsym_frame, gone, t[l].nth \div y.nsym_frame)
    BY <1>2, <1>4, <1>12
  <2> QED BY <2>1, <1>4, <1>11, <1>12 DEF TagsTell
<1> QED BY <1>11, <1>13 DEF Alone

\* The turns behind a tag are those that the tagger asks for.
LEMMA AloneTurns ==
  ASSUME NEW y, Started(y), NEW half, NEW ph \in Seq(Phase), NEW rot \in Phase,
         NEW t \in Seq(TaggedSymbol), NEW sy \in Seq(Symbol), NEW a, NEW w, NEW gone,
         Coming(ph, rot, Stream(t, sy), a, w, gone), TagsTell(y, half, t, Stream(t, sy), gone),
         NEW f \in Nat, Alone(t, f, y.nsym_frame), NEW X, Taking(Stream(t, sy), f, y.nsym_frame, X)
  PROVE  WTurns(y, half, ph, X)
<1>1. PICK r : r = Stream(t, sy)
  OBVIOUS
<1>2. PICK N \in Nat \ {0}, n \in Nat : N = y.nsym_frame /\ n = y.len_preamble /\ n >= 2 /\ n < N
  <2>1. y.nsym_frame \in Nat \ {0} /\ y.len_preamble \in Nat /\ y.len_preamble >= 2 /\ y.len_preamble < y.nsym_frame
    BY SizesOf
  <2> QED BY <2>1
<1>3. Numbered(r) /\ Carry(ph, rot, r)
  <2>1. r \in Seq(Symbol) /\ Carry(ph, rot, r)
    BY <1>1 DEF Coming
  <2> QED BY <2>1, SymbolsNumbered
<1>4. RunAt(n, half, r, f)
  BY <1>1, <1>2 DEF TagsTell, Alone
<1>5. ASSUME NEW m \in 1 .. n PROVE WTurn(ph, X, m) = TurnAt(r, f + m)
  <2>1. m \in 0 .. N - 1 /\ m - 1 \in 0 .. N - 1 /\ f + (m - 1) = f + m - 1
    BY <1>2
  <2>2. PICK i \in 1 .. Len(r) : i = f + m /\ X[m] = r[i].nth
    BY <1>1, <1>2, <2>1 DEF Taking
  <2>3. f + (m - 1) \in 1 .. Len(r) /\ X[m - 1] = r[f + (m - 1)].nth
    BY <1>1, <1>2, <2>1 DEF Taking
  <2>4. i # 1 /\ f + (m - 1) = i - 1
    BY <2>2, <2>3
  <2>5. TurnAt(r, i) = Turn(ph[r[i].nth + 1] - ph[r[i - 1].nth + 1])
    BY <1>3, <2>4, TurnsCarried
  <2>6. X[m - 1] = r[i - 1].nth
    BY <2>3, <2>4
  <2> QED BY <2>2, <2>5, <2>6 DEF WTurn
<1>6. ASSUME NEW m \in 1 .. n - 1 PROVE WTurn(ph, X, m) \in Small(half)
  <2>1. m \in 1 .. n
    OBVIOUS
  <2> QED BY <1>4, <1>5, <2>1 DEF RunAt
<1>7. WTurn(ph, X, n) # 0
  <2>1. n \in 1 .. n
    BY <1>2
  <2> QED BY <1>4, <1>5, <2>1 DEF RunAt
<1> QED BY <1>2, <1>6, <1>7 DEF WTurns

\* So they are a frame passed on.
LEMMA StreamWindow ==
  ASSUME NEW y, Started(y), NEW half, NEW ph \in Seq(Phase), NEW rot \in Phase,
         NEW t \in Seq(TaggedSymbol), NEW sy \in Seq(Symbol), NEW a, NEW w, NEW gone,
         Coming(ph, rot, Stream(t, sy), a, w, gone), TagsTell(y, half, t, Stream(t, sy), gone),
         NEW f \in Nat, Alone(t, f, y.nsym_frame), NEW X, Taking(Stream(t, sy), f, y.nsym_frame, X)
  PROVE  Window(y, half, ph, gone, X)
<1>1. PICK N \in Nat \ {0} : N = y.nsym_frame
  <2>1. y.nsym_frame \in Nat \ {0}
    BY DEF Started
  <2> QED BY <2>1
<1>2. WTyped(y, ph, X) /\ WRising(y, X) /\ WDense(y, gone, X)
  BY <1>1, TakingRises
<1>3. WStarts(y, gone, X)
  BY <1>1, AloneStarts
<1>4. WTurns(y, half, ph, X)
  BY AloneTurns
<1> QED BY <1>2, <1>3, <1>4 DEF Window

-----------------------------------------------------------------------------
(***************************************************************************)
(* The frame buffer: what goes without coming out has no tag, or one with  *)
(* the next tag too close behind it; and what comes out begins at its only *)
(* tag.                                                                    *)
(***************************************************************************)
Untold(t, k) == \A i \in 1 .. Len(t) : i <= k => ~ t[i].sof
TooClose(t, N, k) ==
  \E f \in 1 .. Len(t), g \in 1 .. Len(t) :
    /\ f < g /\ g < f + N /\ k = g - 1 /\ t[f].sof /\ t[g].sof
    /\ \A i \in 1 .. Len(t) : i <= k /\ t[i].sof => i = f
Dropping(t, N, R) ==
  /\ R.frame = << >> /\ R.consumed \in Nat /\ R.consumed <= Len(t)
  /\ Untold(t, R.consumed) \/ TooClose(t, N, R.consumed)
Passing(t, N, R) ==
  \E f \in Nat : /\ Alone(t, f, N) /\ R.consumed = f - 1 + N /\ R.consumed <= Len(t)
                 /\ R.frame = SubSeq(t, f, f + N - 1)
                 /\ \A i \in 1 .. Len(t) : i < f => ~ t[i].sof

\* What frame_buffer_cc takes for the first tag is the first one.
LEMMA FirstPlace ==
  ASSUME NEW S, S \subseteq Nat, S # {}
  PROVE  (CHOOSE i \in S : \A j \in S : i <= j) \in S /\ \A j \in S : (CHOOSE i \in S : \A j2 \in S : i <= j2) <= j
<1>1. PICK m \in S : \A k \in S : m <= k
  BY LeastElement
<1> QED BY <1>1

\* frame_buffer_cc drops symbols or passes a frame on.
LEMMA BufferDoes ==
  ASSUME NEW y, NEW N \in Nat \ {0}, N = y.nsym_frame, NEW t \in Seq(TaggedSymbol), N + N <= Len(t),
         NEW R, R = FrameBuffer(y, t)
  PROVE  Dropping(t, N, R) \/ Passing(t, N, R)
<1>1. PICK L \in Nat : L = Len(t) /\ DOMAIN t = 1 .. L
  BY LenProperties
<1> DEFINE tags == {i \in DOMAIN t : t[i].sof}
           first == CHOOSE i \in tags : \A j \in tags : i <= j
           second == CHOOSE i \in tags \ {first} : \A j \in tags \ {first} : i <= j
           several == \E i, j \in tags : i # j
           nothing(consumed) == [consumed |-> consumed, frame |-> << >>]
<1>2. R = CASE tags = {} -> nothing(Len(t))
            [] tags # {} /\ ~several -> nothing(first - 1)
            [] several /\ second - first < N -> nothing(second - 1)
            [] several /\ second - first >= N ->
                 [consumed |-> first - 1 + N, frame |-> SubSeq(t, first, first + N - 1)]
  BY DEF FrameBuffer
<1>3. \A i \in tags : i \in 1 .. L /\ t[i].sof
  BY <1>1
<1>4. \A i \in 1 .. L : t[i].sof => i \in tags
  BY <1>1
<1>5. tags \subseteq Nat
  BY <1>3
<1> HIDE DEF tags
<1>6. CASE tags = {}
  <2>1. R = [consumed |-> L, frame |-> << >>]
    BY <1>1, <1>2, <1>6
  <2>2. R.consumed = L /\ R.frame = << >>
    BY <2>1
  <2>3. Untold(t, L)
    BY <1>1, <1>4, <1>6 DEF Untold
  <2> QED BY <1>1, <2>2, <2>3 DEF Dropping
<1>7. CASE tags # {}
  <2>1. first \in tags /\ \A j \in tags : first <= j
    BY <1>5, <1>7, FirstPlace
  <2>2. PICK f \in 1 .. L : f = first
    BY <1>3, <2>1
  <2>3. CASE ~ several
    <3>1. R = [consumed |-> first - 1, frame |-> << >>]
      BY <1>2, <1>7, <2>3
    <3>2. R.consumed = f - 1 /\ R.frame = << >>
      BY <3>1, <2>2
    <3>3. Untold(t, f - 1)
      <4>1. ASSUME NEW i \in 1 .. L, i <= f - 1 PROVE ~ t[i].sof
        <5>1. i < f
          BY <4>1
        <5>2. i \notin tags
          BY <5>1, <2>1, <2>2
        <5> QED BY <5>2, <1>4
      <4> QED BY <4>1, <1>1 DEF Untold
    <3>4. f - 1 \in Nat /\ f - 1 <= L
      OBVIOUS
    <3> QED BY <1>1, <3>2, <3>3, <3>4 DEF Dropping
  <2>4. CASE several
    <3>1. tags \ {first} # {} /\ tags \ {first} \subseteq Nat
      <4>1. PICK i \in tags, j \in tags : i # j
        BY <2>4
      <4> HIDE DEF first
      <4>2. i \in tags \ {first} \/ j \in tags \ {first}
        BY <4>1
      <4> QED BY <4>2, <1>5
    <3>2. second \in tags \ {first} /\ \A j \in tags \ {first} : second <= j
      BY <3>1, FirstPlace
    <3>3. PICK g \in 1 .. L : g = second /\ g # f
      BY <1>3, <2>2, <3>2
    <3> HIDE DEF first, second
    <3>4. f < g
      <4>1. f <= g
        BY <2>1, <2>2, <3>2, <3>3
      <4> QED BY <4>1, <3>3
    <3>5. t[f].sof /\ t[g].sof
      BY <1>3, <2>1, <2>2, <3>2, <3>3
    <3>6. ASSUME NEW i \in 1 .. L, t[i].sof, i # f PROVE f < i /\ g <= i
      <4>1. i \in tags \ {first}
        BY <3>6, <1>4, <2>2
      <4> QED BY <4>1, <2>1, <2>2, <3>2, <3>3, <3>6
    <3>7. CASE g - f < N
      <4>1. R = [consumed |-> second - 1, frame |-> << >>]
        BY <1>2, <1>7, <2>2, <2>4, <3>3, <3>7
      <4>2. R.consumed = g - 1 /\ R.frame = << >>
        BY <4>1, <3>3
      <4>3. g < f + N /\ g - 1 \in Nat /\ g - 1 <= L
        BY <3>7
      <4>4. ASSUME NEW i \in 1 .. L, i <= g - 1, t[i].sof PROVE i = f
        BY <3>6, <4>4
      <4>5. TooClose(t, N, g - 1)
        BY <1>1, <3>4, <3>5, <4>3, <4>4 DEF TooClose
      <4> QED BY <1>1, <4>2, <4>3, <4>5 DEF Dropping
    <3>8. CASE ~ (g - f < N)
      <4>1. R = [consumed |-> first - 1 + N, frame |-> SubSeq(t, first, first + N - 1)]
        <5>1. second - first >= N /\ ~ (second - first < N)
          BY <2>2, <3>3, <3>8
        <5> QED BY <1>2, <1>7, <2>4, <5>1
      <4>2. R.consumed = f - 1 + N /\ R.frame = SubSeq(t, f, f + N - 1)
        <5>1. PICK z, v : z = f - 1 + N /\ v = SubSeq(t, f, f + N - 1)
          OBVIOUS
        <5>2. R = [consumed |-> z, frame |-> v]
          BY <4>1, <5>1, <2>2
        <5>3. R.consumed = z /\ R.frame = v
          BY <5>2
        <5> QED BY <5>1, <5>3
      <4>3. f + N <= g /\ f + N - 1 <= L /\ f - 1 + N <= L
        BY <3>8
      <4>4. ASSUME NEW i \in 1 .. L, f < i, i < f + N PROVE ~ t[i].sof
        <5>1. i # f /\ ~ (g <= i)
          BY <4>3, <4>4
        <5> QED BY <5>1, <3>6
      <4>5. Alone(t, f, N)
        BY <1>1, <3>5, <4>3, <4>4 DEF Alone
      <4>6. ASSUME NEW i \in 1 .. L, i < f PROVE ~ t[i].sof
        BY <3>6, <4>6
      <4>7. f \in Nat /\ R.consumed <= Len(t)
        BY <1>1, <4>2, <4>3
      <4>8. \A i \in 1 .. Len(t) : i < f => ~ t[i].sof
        BY <1>1, <4>6
      <4>9. Passing(t, N, R)
        BY <4>2, <4>5, <4>7, <4>8, Zenon DEF Passing
      <4> QED BY <4>9
    <3>9. g - f < N \/ ~ (g - f < N)
      OBVIOUS
    <3> QED BY <3>7, <3>8, <3>9
  <2> QED BY <2>3, <2>4
<1> QED BY <1>6, <1>7

-----------------------------------------------------------------------------
(***************************************************************************)
(* The frames passed on so far, p, when r, a and w are still to come.      *)
(***************************************************************************)
FromZero(x, N) == [m \in 0 .. N - 1 |-> x[m + 1]]
ClaimOf(y, x) == x[y.len_preamble + 1] \div y.nsym_frame
PassedWell(y, half, ph, gone, p) ==
  /\ p \in Seq(Seq(Nat))
  /\ \A j \in 1 .. Len(p) :
       /\ Len(p[j]) = y.nsym_frame
       /\ TakenIn(y, half, ph, gone, FromZero(p[j], y.nsym_frame), ClaimOf(y, p[j]))
\* Where a frame's last symbol is at least.
EndOf(y, x) == x[y.len_preamble + 1] + (y.nsym_frame - 1 - y.len_preamble)
Beyond(y, L, r, a, w, p) ==
  \A j \in 1 .. Len(p) : EndOf(y, p[j]) \in Nat /\ EndOf(y, p[j]) < L /\ AllAhead(EndOf(y, p[j]), r, a, w)
InOrder(y, p) == \A j \in 1 .. Len(p) - 1 : ClaimOf(y, p[j]) < ClaimOf(y, p[j + 1])
Kept(y, half, ph, gone, p, k) ==
  \/ \E j \in 1 .. Len(p) : /\ ClaimOf(y, p[j]) = k
                            /\ FromSfd(y.len_preamble, y.nsym_frame, k * y.nsym_frame, FromZero(p[j], y.nsym_frame))
  \/ HitIn(y.nsym_frame, gone, k) \/ HitIn(y.nsym_frame, gone, k + 1) \/ ImitatesIn(y, half, ph, k)
NoneMissed(y, half, ph, r, a, w, gone, p) ==
  \A k \in Nat, T \in Nat : Base(y.nsym_frame, k, T) /\ T < Len(ph) /\ AllAhead(T, r, a, w) => Kept(y, half, ph, gone, p, k)
History(y, half, ph, r, a, w, gone, p) ==
  /\ PassedWell(y, half, ph, gone, p) /\ Beyond(y, Len(ph), r, a, w, p) /\ InOrder(y, p)
  /\ NoneMissed(y, half, ph, r, a, w, gone, p)

\* A step that passes nothing on: more symbols are sent, or some go on their way.
Onwards(ph, r, a, w, ph2, r2, a2, w2, gone2) ==
  /\ \A P \in Nat : P < Len(ph) /\ AllAhead(P, r, a, w) => AllAhead(P, r2, a2, w2)
  /\ \A P \in Nat : P < Len(ph2) /\ AllAhead(P, r2, a2, w2) =>
                      (P < Len(ph) /\ AllAhead(P, r, a, w)) \/ P \in gone2
More(ph, ph2) == Len(ph) <= Len(ph2) /\ \A i \in 1 .. Len(ph) : ph2[i] = ph[i]

\* What was hit and what imitates a preamble stays so.
LEMMA BadStays ==
  ASSUME NEW y, Started(y), NEW half, NEW ph \in Seq(Phase), NEW ph2 \in Seq(Phase), More(ph, ph2),
         NEW gone, NEW gone2, gone \subseteq gone2, NEW k \in Nat
  PROVE  /\ HitIn(y.nsym_frame, gone, k) => HitIn(y.nsym_frame, gone2, k)
         /\ ImitatesIn(y, half, ph, k) => ImitatesIn(y, half, ph2, k)
         /\ BadIn(y, half, ph, gone, k) => BadIn(y, half, ph2, gone2, k)
<1>1. HitIn(y.nsym_frame, gone, k) => HitIn(y.nsym_frame, gone2, k)
  BY DEF HitIn
<1>2. ASSUME ImitatesIn(y, half, ph, k) PROVE ImitatesIn(y, half, ph2, k)
  <2>1. PICK N \in Nat, n \in Nat : N = y.nsym_frame /\ n = y.len_preamble
    BY DEF Started
  <2>2. k * N + 1 \in Nat
    BY NextFrame
  <2>3. PICK first \in k * y.nsym_frame + 1 .. (k + 1) * y.nsym_frame - 1 :
          /\ first + y.len_preamble < Len(ph)
          /\ \A nth \in first + 1 .. first + y.len_preamble - 1 : Turn(ph[nth + 1] - ph[nth]) \in Small(half)
          /\ Turn(ph[first + y.len_preamble + 1] - ph[first + y.len_preamble]) # 0
    BY <1>2 DEF ImitatesIn
  <2>4. PICK F \in Nat : F = first
    BY <2>1, <2>2
  <2>5. PICK L \in Nat, L2 \in Nat : L = Len(ph) /\ L2 = Len(ph2) /\ L <= L2
    BY LenProperties DEF More
  <2>6. F + n < L
    BY <2>1, <2>3, <2>4, <2>5
  <2>7. ASSUME NEW nth \in F + 1 .. F + n PROVE ph2[nth + 1] = ph[nth + 1] /\ ph2[nth] = ph[nth]
    <3>1. nth \in 1 .. L /\ nth + 1 \in 1 .. L
      BY <2>6
    <3> QED BY <3>1, <2>5 DEF More
  <2>8. ASSUME NEW nth \in F + 1 .. F + n - 1 PROVE Turn(ph2[nth + 1] - ph2[nth]) \in Small(half)
    <3>1. nth \in F + 1 .. F + n
      OBVIOUS
    <3> QED BY <3>1, <2>1, <2>3, <2>4, <2>7
  <2>9. Turn(ph2[F + n + 1] - ph2[F + n]) # 0
    <3>1. F + n \in F + 1 .. F + n
      <4>1. n >= 1
        BY <2>1 DEF Started
      <4> QED BY <4>1
    <3> QED BY <3>1, <2>1, <2>3, <2>4, <2>7
  <2>10. F + n < L2
    BY <2>5, <2>6
  <2> QED BY <2>1, <2>3, <2>4, <2>5, <2>8, <2>9, <2>10 DEF ImitatesIn
<1> QED BY <1>1, <1>2 DEF BadIn

\* What was passed on stays so, as more is sent, heard, found and lost.
LEMMA HistoryOn ==
  ASSUME NEW y, Started(y), NEW half, NEW ph \in Seq(Phase), NEW ph2 \in Seq(Phase), More(ph, ph2),
         NEW gone, NEW gone2, gone \subseteq gone2, NEW r, NEW a, NEW w, NEW r2, NEW a2, NEW w2, NEW p,
         History(y, half, ph, r, a, w, gone, p), Onwards(ph, r, a, w, ph2, r2, a2, w2, gone2)
  PROVE  History(y, half, ph2, r2, a2, w2, gone2, p)
<1>1. PICK N \in Nat \ {0}, n \in Nat : N = y.nsym_frame /\ n = y.len_preamble /\ n < N
  <2>1. y.nsym_frame \in Nat \ {0} /\ y.len_preamble \in Nat /\ y.len_preamble < y.nsym_frame
    BY SizesOf
  <2> QED BY <2>1
<1>2. PassedWell(y, half, ph2, gone2, p)
  <2>1. p \in Seq(Seq(Nat)) /\ PassedWell(y, half, ph, gone, p)
    BY DEF History, PassedWell
  <2>2. ASSUME NEW j \in 1 .. Len(p)
        PROVE  Len(p[j]) = y.nsym_frame /\ TakenIn(y, half, ph2, gone2, FromZero(p[j], y.nsym_frame), ClaimOf(y, p[j]))
    <3>1. PICK X, c : X = FromZero(p[j], y.nsym_frame) /\ c = ClaimOf(y, p[j])
      OBVIOUS
    <3>2. Len(p[j]) = y.nsym_frame /\ TakenIn(y, half, ph, gone, X, c)
      BY <2>1, <3>1 DEF PassedWell
    <3>3. ASSUME NEW m \in {c - 1, c} \cap Nat, BadIn(y, half, ph, gone, m), BadIn(y, half, ph, gone, m + 1)
          PROVE  BadIn(y, half, ph2, gone2, m) /\ BadIn(y, half, ph2, gone2, m + 1)
      <4>1. m \in Nat /\ m + 1 \in Nat
        OBVIOUS
      <4> QED BY <3>3, <4>1, BadStays
    <3> QED BY <3>1, <3>2, <3>3 DEF TakenIn
  <2> QED BY <2>1, <2>2 DEF PassedWell
<1>3. Beyond(y, Len(ph2), r2, a2, w2, p)
  <2>1. PICK L \in Nat, L2 \in Nat : L = Len(ph) /\ L2 = Len(ph2) /\ L <= L2
    BY LenProperties DEF More
  <2>2. ASSUME NEW P \in Nat, P < L, AllAhead(P, r, a, w) PROVE P < L2 /\ AllAhead(P, r2, a2, w2)
    BY <2>1, <2>2 DEF Onwards
  <2> QED BY <2>1, <2>2 DEF History, Beyond
<1>4. InOrder(y, p)
  BY DEF History
<1>5. ASSUME NEW k \in Nat, NEW T \in Nat, Base(N, k, T), T < Len(ph2), AllAhead(T, r2, a2, w2)
      PROVE  Kept(y, half, ph2, gone2, p, k)
  <2>1. CASE T \in gone2
    <3>1. HitIn(N, gone2, k)
      BY <1>5, <2>1, BaseFrame DEF HitIn
    <3> QED BY <1>1, <3>1 DEF Kept
  <2>2. CASE T < Len(ph) /\ AllAhead(T, r, a, w)
    <3>1. Kept(y, half, ph, gone, p, k)
      BY <1>1, <1>5, <2>2 DEF History, NoneMissed
    <3>2. k + 1 \in Nat
      OBVIOUS
    <3>3. /\ HitIn(y.nsym_frame, gone, k) => HitIn(y.nsym_frame, gone2, k)
          /\ HitIn(y.nsym_frame, gone, k + 1) => HitIn(y.nsym_frame, gone2, k + 1)
          /\ ImitatesIn(y, half, ph, k) => ImitatesIn(y, half, ph2, k)
      BY <3>2, BadStays
    <3> QED BY <3>1, <3>3 DEF Kept
  <2> QED BY <1>5, <2>1, <2>2 DEF Onwards
<1>6. NoneMissed(y, half, ph2, r2, a2, w2, gone2, p)
  BY <1>1, <1>5 DEF NoneMissed
<1> QED BY <1>2, <1>3, <1>4, <1>6 DEF History

\* Tagged symbols go from the stream.
RestOf(r, k, r2) == r2 \in Seq(Symbol) /\ Len(r2) = Len(r) - k /\ \A i \in 1 .. Len(r) - k : r2[i] = r[k + i]
Shorter(t, k, t2) == /\ k <= Len(t) /\ Len(t2) = Len(t) - k
                     /\ \A i \in 1 .. Len(t) - k : t2[i] = t[k + i]
SplitAt(k, K, M, L, i) ==
  (i \in 1 .. K /\ k + i \in 1 .. L) \/ \E j \in 1 .. M : i = K + j /\ k + i = L + j

\* The places behind k are those of the rest.
LEMMA PlaceBehind ==
  ASSUME NEW k \in Nat, NEW K \in Nat, NEW M \in Nat, NEW L \in Nat, L = k + K, NEW i \in 1 .. K + M
  PROVE  SplitAt(k, K, M, L, i)
<1>1. CASE i <= K
  BY <1>1 DEF SplitAt
<1>2. CASE ~ (i <= K)
  <2>1. i - K \in 1 .. M /\ i = K + (i - K) /\ k + i = L + (i - K)
    BY <1>2
  <2> QED BY <2>1 DEF SplitAt
<1> QED BY <1>1, <1>2

\* Without its first k tagged symbols the stream is what is behind them.
LEMMA StreamShorter ==
  ASSUME NEW t \in Seq(TaggedSymbol), NEW sy \in Seq(Symbol), NEW k \in Nat,
         NEW t2 \in Seq(TaggedSymbol), Shorter(t, k, t2)
  PROVE  RestOf(Stream(t, sy), k, Stream(t2, sy)) /\ k <= Len(Stream(t, sy))
<1>2. PICK r, r2 : r = Stream(t, sy) /\ r2 = Stream(t2, sy)
  OBVIOUS
<1>3. PICK L \in Nat, M \in Nat, K \in Nat : L = Len(t) /\ M = Len(sy) /\ K = Len(t2) /\ L = k + K
  <2>1. Len(t) \in Nat /\ Len(sy) \in Nat /\ Len(t2) \in Nat
    BY LenProperties
  <2> QED BY <2>1 DEF Shorter
<1>4. /\ r \in Seq(Symbol) /\ Len(r) = L + M
      /\ \A i \in 1 .. L : r[i] = [phase |-> t[i].phase, nth |-> t[i].nth]
      /\ \A i \in 1 .. M : r[L + i] = sy[i]
  <2>1. /\ Stream(t, sy) \in Seq(Symbol) /\ Len(Stream(t, sy)) = Len(t) + Len(sy)
        /\ \A i \in 1 .. Len(t) : Stream(t, sy)[i] = [phase |-> t[i].phase, nth |-> t[i].nth]
        /\ \A i \in 1 .. Len(sy) : Stream(t, sy)[Len(t) + i] = sy[i]
    BY StreamItems
  <2> QED BY <2>1, <1>2, <1>3
<1>5. /\ r2 \in Seq(Symbol) /\ Len(r2) = K + M
      /\ \A i \in 1 .. K : r2[i] = [phase |-> t2[i].phase, nth |-> t2[i].nth]
      /\ \A i \in 1 .. M : r2[K + i] = sy[i]
  <2>1. /\ Stream(t2, sy) \in Seq(Symbol) /\ Len(Stream(t2, sy)) = Len(t2) + Len(sy)
        /\ \A i \in 1 .. Len(t2) : Stream(t2, sy)[i] = [phase |-> t2[i].phase, nth |-> t2[i].nth]
        /\ \A i \in 1 .. Len(sy) : Stream(t2, sy)[Len(t2) + i] = sy[i]
    BY StreamItems
  <2> QED BY <2>1, <1>2, <1>3
<1>6. Len(r2) = Len(r) - k /\ Len(r) - k = K + M /\ k <= Len(r)
  BY <1>3, <1>4, <1>5
<1>7. ASSUME NEW i \in 1 .. K + M PROVE r2[i] = r[k + i]
  <2>1. CASE i \in 1 .. K /\ k + i \in 1 .. L
    <3>1. t2[i] = t[k + i]
      <4>1. i \in 1 .. Len(t) - k
        BY <1>3, <2>1
      <4> QED BY <4>1 DEF Shorter
    <3> QED BY <1>4, <1>5, <2>1, <3>1
  <2>2. ASSUME NEW j \in 1 .. M, i = K + j, k + i = L + j PROVE r2[i] = r[k + i]
    BY <1>4, <1>5, <2>2
  <2>3. (i \in 1 .. K /\ k + i \in 1 .. L) \/ \E j \in 1 .. M : i = K + j /\ k + i = L + j
    <3>1. SplitAt(k, K, M, L, i)
      BY <1>3, PlaceBehind
    <3> QED BY <3>1 DEF SplitAt
  <2> QED BY <2>1, <2>2, <2>3
<1> QED BY <1>2, <1>5, <1>6, <1>7 DEF RestOf
Shed(t, k, t2) == k \in Nat /\ k <= Len(t) /\ t2 = SubSeq(t, k + 1, Len(t))

\* So it is when the frame buffer consumes them.
LEMMA StreamGoes ==
  ASSUME NEW t \in Seq(TaggedSymbol), NEW sy \in Seq(Symbol), NEW k, NEW t2, Shed(t, k, t2)
  PROVE  /\ t2 \in Seq(TaggedSymbol) /\ Shorter(t, k, t2)
         /\ RestOf(Stream(t, sy), k, Stream(t2, sy)) /\ k <= Len(Stream(t, sy))
<1>1. t2 \in Seq(TaggedSymbol) /\ Shorter(t, k, t2)
  <2>1. k \in Nat /\ k <= Len(t) /\ t2 = SubSeq(t, k + 1, Len(t))
    BY DEF Shed
  <2> QED BY <2>1, WithoutFirst DEF Shorter
<1>2. k \in Nat
  BY DEF Shed
<1> QED BY <1>1, <1>2, StreamShorter

\* The beginning of a frame that was not hit goes only with its tag.
GoesTagged(t, r, k, T) == \E i \in 1 .. Len(t) : i <= k /\ r[i].nth = T /\ t[i].sof

\* Otherwise it is still ahead.
LEMMA BeginningGoes ==
  ASSUME NEW y, NEW N \in Nat \ {0}, N = y.nsym_frame, NEW half, NEW ph \in Seq(Phase), NEW rot,
         NEW t \in Seq(TaggedSymbol), NEW sy \in Seq(Symbol), NEW a, NEW w, NEW gone,
         Coming(ph, rot, Stream(t, sy), a, w, gone), TagsTell(y, half, t, Stream(t, sy), gone),
         NEW k \in Nat, k <= Len(t), NEW r2, RestOf(Stream(t, sy), k, r2), k <= Len(Stream(t, sy)),
         NEW c \in Nat, NEW T \in Nat, Base(N, c, T), T < Len(ph), AllAhead(T, r2, a, w), ~ HitIn(N, gone, c)
  PROVE  AllAhead(T, Stream(t, sy), a, w) \/ GoesTagged(t, Stream(t, sy), k, T)
<1>1. PICK r : r = Stream(t, sy)
  OBVIOUS
<1>2. T \notin gone /\ T \div N = c /\ T % N = 0
  BY BaseFrame, BaseMultiple DEF HitIn
<1>3. AllAhead(T, r, a, w) \/ T \in gone \/ \E i \in 1 .. Len(r) : i <= k /\ T = r[i].nth
  <2>1. Coming(ph, rot, r, a, w, gone) /\ k <= Len(r)
    BY <1>1
  <2>2. r2 \in Seq(Symbol) /\ Len(r2) = Len(r) - k /\ \A i \in 1 .. Len(r) - k : r2[i] = r[k + i]
    BY <1>1 DEF RestOf
  <2> QED BY SMTT(60), <2>1, <2>2, DropComing
<1>4. ASSUME NEW i \in 1 .. Len(r), i <= k, T = r[i].nth PROVE i \in 1 .. Len(t) /\ t[i].sof
  <2>1. i \in 1 .. Len(t)
    <3>1. Len(t) \in Nat
      BY LenProperties
    <3>2. i \in Nat /\ i >= 1
      BY <1>1, SymbolsNumbered DEF Coming, Numbered
    <3> QED BY <3>1, <3>2, <1>4
  <2>2. r[i] = [phase |-> t[i].phase, nth |-> t[i].nth]
    BY <1>1, <2>1, StreamItems
  <2>3. t[i].nth = T
    BY <2>2, <1>4
  <2> QED BY <2>1, <2>3, <1>2 DEF TagsTell
<1> QED BY <1>1, <1>2, <1>3, <1>4 DEF GoesTagged

\* Symbols of two frames that were not hit.
LEMMA CleanBoth ==
  ASSUME NEW N \in Nat \ {0}, NEW c \in Nat, NEW T \in Nat, Base(N, c, T), NEW gone,
         ~ HitIn(N, gone, c), ~ HitIn(N, gone, c + 1), NEW e \in Nat, e < N + N
  PROVE  T + e \notin gone
<1>1. PICK P \in Nat, Z \in Nat : P = T + e /\ Z = T + N
  OBVIOUS
<1>2. Base(N, c + 1, Z) /\ c + 1 \in Nat
  <2>1. (c + 1) * N = c * N + N
    BY NextFrame
  <2>2. c * N = T
    BY DEF Base
  <2>3. Z = (c + 1) * N
    BY <2>1, <2>2, <1>1
  <2> QED BY <2>3 DEF Base
<1>3. T <= P /\ (P < T + N \/ (Z <= P /\ P < Z + N))
  BY <1>1
<1>4. P \notin gone
  BY <1>2, <1>3, CleanFrame DEF Base
<1> QED BY <1>1, <1>4

Unharmed(T, d, gone) == \A x \in 1 .. d : T + x \notin gone

\* Items behind one, while nothing is lost, have the next numbers.
LEMMA ConsecutiveClean ==
  ASSUME NEW ph \in Seq(Phase), NEW rot, NEW r, NEW a, NEW w, NEW gone,
         Coming(ph, rot, r, a, w, gone), NEW i \in 1 .. Len(r), NEW d \in Nat, i + d <= Len(r),
         NEW T, T = r[i].nth, Unharmed(T, d, gone)
  PROVE  r[i + d].nth = T + d
<1>1. \A e \in 1 .. d : r[i].nth + e \notin gone
  BY DEF Unharmed
<1>2. r[i + d].nth = r[i].nth + d
  BY SMTT(60), <1>1, Consecutive
<1> QED BY <1>2

\* A distance below two frames.
LEMMA SumBelow ==
  ASSUME NEW d \in Nat, NEW n \in Nat, NEW N \in Nat, NEW e \in Nat, NEW x \in Nat,
         d < N, n < N, x <= e, e <= d + n
  PROVE  x < N + N
OBVIOUS

\* A tag behind that of a frame that was not hit, and closer than the next frame, shows that
\* it imitates a preamble.
LEMMA CloseImitates ==
  ASSUME NEW y, NEW N \in Nat \ {0}, NEW n \in Nat, N = y.nsym_frame, n = y.len_preamble, n >= 1, n < N,
         NEW half, NEW ph \in Seq(Phase), NEW rot \in Phase,
         NEW r, NEW a, NEW w, NEW gone, Coming(ph, rot, r, a, w, gone),
         NEW f \in 1 .. Len(r), NEW g \in 1 .. Len(r), f < g, g < f + N,
         RunAt(n, half, r, g), NEW c \in Nat, Base(N, c, r[f].nth),
         ~ HitIn(N, gone, c), ~ HitIn(N, gone, c + 1)
  PROVE  ImitatesIn(y, half, ph, c)
<1>1. Numbered(r) /\ Carry(ph, rot, r)
  BY SymbolsNumbered DEF Coming
<1>20. PICK L \in Nat : L = Len(r)
  BY <1>1 DEF Numbered
<1>2. PICK F \in 1 .. L, G \in 1 .. L, T \in Nat : L = Len(r) /\ F = f /\ G = g /\ T = r[f].nth /\ G < F + N /\ F < G
  BY <1>1, <1>20 DEF Numbered
<1>3. PICK d \in Nat : G = F + d /\ 1 <= d /\ d < N
  <2>1. G - F \in Nat /\ G = F + (G - F) /\ 1 <= G - F /\ G - F < N
    BY <1>2
  <2> QED BY <2>1
<1>4. G + n <= L
  BY <1>2 DEF RunAt
<1>5. \A e \in Nat : e < N + N => T + e \notin gone
  BY <1>2, CleanBoth
<1>6. ASSUME NEW e \in Nat, e <= d + n PROVE F + e \in 1 .. L /\ r[F + e].nth = T + e
  <2>1. F + e \in 1 .. L /\ F + e <= Len(r)
    BY <1>2, <1>3, <1>4, <1>6
  <2>2. ASSUME NEW x \in 1 .. e PROVE T + x \notin gone
    <3>1. x \in Nat /\ x <= e
      OBVIOUS
    <3>2. x < N + N
      BY <3>1, <1>3, <1>6, SumBelow
    <3> QED BY <3>1, <3>2, <1>5
  <2>3. Unharmed(T, e, gone)
    BY <2>2 DEF Unharmed
  <2>4. F \in 1 .. Len(r) /\ F + e <= Len(r) /\ e \in Nat /\ T = r[F].nth
    BY <1>2, <2>1
  <2>5. r[F + e].nth = T + e
    BY <2>3, <2>4, ConsecutiveClean
  <2> QED BY <2>1, <2>5
<1>7. PICK P \in Nat : P = T + d
  OBVIOUS
<1>8. ASSUME NEW m \in 1 .. n PROVE TurnAt(r, G + m) = Turn(ph[P + m + 1] - ph[P + m])
  <2>1. PICK i \in 1 .. L : i = G + m /\ i # 1 /\ r[i].nth = P + m /\ r[i - 1].nth + 1 = P + m
    <3>1. PICK e \in Nat, e1 \in Nat : e = d + m /\ e1 = d + (m - 1) /\ e <= d + n /\ e1 <= d + n
      BY SMTT(60)
    <3>2. r[F + e].nth = T + e /\ r[F + e1].nth = T + e1 /\ F + e \in 1 .. L /\ F + e1 \in 1 .. L
      BY <1>6, <3>1
    <3>3. F + e = G + m /\ F + e1 = (G + m) - 1 /\ T + e = P + m /\ (T + e1) + 1 = P + m /\ G + m # 1
      BY <1>3, <1>7, <3>1
    <3> QED BY <3>2, <3>3
  <2>2. TurnAt(r, i) = Turn(ph[r[i].nth + 1] - ph[r[i - 1].nth + 1])
    BY <1>1, <1>2, <2>1, TurnsCarried
  <2> QED BY <2>1, <2>2
<1>9. Passes(n, half, ph, P)
  <2>1. ASSUME NEW m \in 1 .. n - 1 PROVE Turn(ph[P + m + 1] - ph[P + m]) \in Small(half)
    <3>1. m \in 1 .. n
      OBVIOUS
    <3> QED BY <3>1, <1>2, <1>8 DEF RunAt
  <2>2. n \in 1 .. n
    OBVIOUS
  <2> QED BY <2>1, <2>2, <1>2, <1>8 DEF RunAt, Passes
<1>10. T < P /\ P < T + N /\ P + n < Len(ph)
  <2>1. P + n < Len(ph)
    <3>1. d + n \in Nat /\ d + n <= d + n /\ T + (d + n) = P + n
      BY SMTT(60), <1>7
    <3>2. F + (d + n) \in 1 .. L /\ r[F + (d + n)].nth = P + n
      BY <1>6, <3>1
    <3> QED BY <3>2, <1>1, <1>2 DEF Carry
  <2> QED BY <2>1, <1>3, <1>7
<1>11. T = c * N
  BY <1>2 DEF Base
<1> QED BY <1>9, <1>10, <1>11, ImitatesFrom

\* The frame buffer takes symbols: the stream is as it should be behind them.
LEMMA BufferTakes ==
  ASSUME NEW y, Started(y), NEW half, NEW ph \in Seq(Phase), NEW rot,
         NEW t \in Seq(TaggedSymbol), NEW sy \in Seq(Symbol), NEW a, NEW w, NEW gone,
         Coming(ph, rot, Stream(t, sy), a, w, gone), TagsTell(y, half, t, Stream(t, sy), gone),
         NEW k, NEW t2, Shed(t, k, t2)
  PROVE  /\ t2 \in Seq(TaggedSymbol) /\ RestOf(Stream(t, sy), k, Stream(t2, sy)) /\ k <= Len(Stream(t, sy))
         /\ Coming(ph, rot, Stream(t2, sy), a, w, gone)
         /\ TagsTell(y, half, t2, Stream(t2, sy), gone)
<1>1. t2 \in Seq(TaggedSymbol) /\ Shorter(t, k, t2) /\ RestOf(Stream(t, sy), k, Stream(t2, sy)) /\ k <= Len(Stream(t, sy))
  BY StreamGoes
<1>0. k \in Nat /\ k <= Len(t)
  BY DEF Shed
<1>2. PICK r, r2 : r = Stream(t, sy) /\ r2 = Stream(t2, sy)
  OBVIOUS
<1>3. Coming(ph, rot, r, a, w, gone) /\ RestOf(r, k, r2) /\ k <= Len(r) /\ TagsTell(y, half, t, r, gone)
  BY <1>1, <1>2
<1>4. Coming(ph, rot, r2, a, w, gone)
  <2>1. r2 \in Seq(Symbol) /\ Len(r2) = Len(r) - k /\ \A i \in 1 .. Len(r) - k : r2[i] = r[k + i]
    BY <1>3 DEF RestOf
  <2> QED BY <1>0, <1>3, <2>1, DropComing
<1>5. TagsTell(y, half, t2, r2, gone)
  <2>1. Len(r) \in Nat /\ Len(t) \in Nat /\ Len(t) <= Len(r)
    <3>1. Len(t) \in Nat /\ Len(sy) \in Nat /\ Len(r) = Len(t) + Len(sy)
      BY <1>2, LenProperties, StreamItems
    <3> QED BY <3>1
  <2>2. y.len_preamble \in Nat /\ y.len_preamble >= 1
    BY DEF Started
  <2>3. Len(r2) = Len(r) - k /\ \A i \in 1 .. Len(r) - k : r2[i] = r[k + i]
    BY <1>3 DEF RestOf
  <2>4. Len(t2) = Len(t) - k /\ \A i \in 1 .. Len(t) - k : t2[i] = t[k + i]
    BY <1>1 DEF Shorter
  <2> HIDE <1>1, <1>2
  <2> QED BY <1>0, <1>3, <2>1, <2>2, <2>3, <2>4, TagsDropped
<1> QED BY <1>1, <1>2, <1>4, <1>5

\* The frames passed on before stay behind.
LEMMA BeyondStays ==
  ASSUME NEW y, NEW ph \in Seq(Phase), NEW rot, NEW r, NEW a, NEW w, NEW gone,
         Coming(ph, rot, r, a, w, gone), NEW k \in Nat, k <= Len(r), NEW r2, RestOf(r, k, r2),
         NEW p, Beyond(y, Len(ph), r, a, w, p)
  PROVE  Beyond(y, Len(ph), r2, a, w, p)
<1>1. \A P \in Nat : AllAhead(P, r, a, w) => AllAhead(P, r2, a, w)
  <2>1. r2 \in Seq(Symbol) /\ Len(r2) = Len(r) - k /\ \A i \in 1 .. Len(r) - k : r2[i] = r[k + i]
    BY DEF RestOf
  <2> QED BY <2>1, DropComing
<1> QED BY <1>1 DEF Beyond

\* The frame buffer drops symbols: what was passed on is still right, and nothing is
\* missed.
LEMMA HistoryDrops ==
  ASSUME NEW y, Started(y), NEW half, NEW ph \in Seq(Phase), NEW rot \in Phase,
         NEW t \in Seq(TaggedSymbol), NEW sy \in Seq(Symbol), NEW a, NEW w, NEW gone, NEW p,
         Coming(ph, rot, Stream(t, sy), a, w, gone), TagsTell(y, half, t, Stream(t, sy), gone),
         History(y, half, ph, Stream(t, sy), a, w, gone, p),
         NEW R, Dropping(t, y.nsym_frame, R), NEW t2, Shed(t, R.consumed, t2)
  PROVE  History(y, half, ph, Stream(t2, sy), a, w, gone, p)
<1>1. PICK N \in Nat \ {0}, n \in Nat : N = y.nsym_frame /\ n = y.len_preamble /\ n >= 1 /\ n < N
  <2>1. y.nsym_frame \in Nat \ {0} /\ y.len_preamble \in Nat /\ y.len_preamble >= 1 /\ y.len_preamble < y.nsym_frame
    <3>1. PICK n \in Nat : n = y.len_preamble /\ n >= 2
      BY SizesOf
    <3> QED BY <3>1, SizesOf
  <2> QED BY <2>1
<1>2. PICK k \in Nat : k = R.consumed /\ k <= Len(t) /\ (Untold(t, k) \/ TooClose(t, N, k))
  BY <1>1 DEF Dropping
<1>3. RestOf(Stream(t, sy), k, Stream(t2, sy)) /\ k <= Len(Stream(t, sy))
  <2>1. Shed(t, k, t2)
    BY <1>2
  <2> QED BY <2>1, BufferTakes
<1>4. PICK r, r2 : r = Stream(t, sy) /\ r2 = Stream(t2, sy)
  OBVIOUS
<1>5. Coming(ph, rot, r, a, w, gone) /\ RestOf(r, k, r2) /\ k <= Len(r) /\ TagsTell(y, half, t, r, gone)
      /\ History(y, half, ph, r, a, w, gone, p)
  BY <1>3, <1>4
<1>6. Beyond(y, Len(ph), r2, a, w, p)
  BY <1>5, BeyondStays DEF History
<1>7. ASSUME NEW c \in Nat, NEW T \in Nat, Base(N, c, T), T < Len(ph), AllAhead(T, r2, a, w)
      PROVE  Kept(y, half, ph, gone, p, c)
  <2>1. CASE HitIn(N, gone, c) \/ HitIn(N, gone, c + 1)
    BY <1>1, <2>1 DEF Kept
  <2>2. CASE ~ HitIn(N, gone, c) /\ ~ HitIn(N, gone, c + 1)
    <3>1. AllAhead(T, r, a, w) \/ GoesTagged(t, r, k, T)
      <4>1. k <= Len(t) /\ N = y.nsym_frame
        BY <1>1, <1>2
      <4> HIDE <1>2
      <4> QED BY <4>1, <1>3, <1>4, <1>7, <2>2, BeginningGoes
    <3>2. CASE AllAhead(T, r, a, w)
      BY <1>1, <1>5, <1>7, <3>2 DEF History, NoneMissed
    <3>3. ASSUME NEW i \in 1 .. Len(t), i <= k, r[i].nth = T, t[i].sof PROVE ImitatesIn(y, half, ph, c)
      <4>1. TooClose(t, N, k)
        BY <1>2, <3>3 DEF Untold
      <4>2. PICK f \in 1 .. Len(t), g \in 1 .. Len(t) : f < g /\ g < f + N /\ t[g].sof /\ i = f
        BY <3>3, <4>1 DEF TooClose
      <4>3. f \in 1 .. Len(r) /\ g \in 1 .. Len(r)
        <5>1. Len(t) \in Nat /\ Len(sy) \in Nat /\ Len(r) = Len(t) + Len(sy)
          BY <1>4, LenProperties, StreamItems
        <5> QED BY <5>1
      <4>4. RunAt(n, half, r, g)
        BY <1>1, <1>5, <4>2 DEF TagsTell
      <4>5. Base(N, c, r[f].nth)
        BY <1>7, <3>3, <4>2
      <4> HIDE <1>2, <1>3, <1>4, <1>7, <3>1, <3>3
      <4> QED BY <1>1, <1>5, <2>2, <4>2, <4>3, <4>4, <4>5, CloseImitates
    <3> QED BY <3>1, <3>2, <3>3 DEF Kept, GoesTagged
  <2> QED BY <2>1, <2>2
<1>8. NoneMissed(y, half, ph, r2, a, w, gone, p)
  BY <1>1, <1>7 DEF NoneMissed
<1> QED BY <1>4, <1>5, <1>6, <1>8 DEF History

\* The numbers of the symbols of a frame that comes out.
NumbersOf(v) == [i \in DOMAIN v |-> v[i].nth]

\* They are those of the symbols taken.
LEMMA FrameComes ==
  ASSUME NEW t \in Seq(TaggedSymbol), NEW sy \in Seq(Symbol), NEW N \in Nat \ {0}, NEW f \in Nat, Alone(t, f, N),
         NEW x, x = NumbersOf(SubSeq(t, f, f + N - 1))
  PROVE  x \in Seq(Nat) /\ Len(x) = N /\ Taking(Stream(t, sy), f, N, FromZero(x, N)) /\ SubSeq(t, f, f + N - 1) # << >>
<1>1. PICK v, r : v = SubSeq(t, f, f + N - 1) /\ r = Stream(t, sy)
  OBVIOUS
<1>2. f \in 1 .. Len(t) /\ f + N - 1 <= Len(t) /\ Len(t) \in Nat
  BY LenProperties DEF Alone
<1>3. v \in Seq(TaggedSymbol) /\ Len(v) = N /\ \A i \in 1 .. N : v[i] = t[f + i - 1] /\ f + i - 1 \in 1 .. Len(t)
  <2>1. f + N - 1 \in 1 .. Len(t) /\ f + N - 1 - f + 1 = N
    BY <1>2
  <2>2. v \in Seq(TaggedSymbol) /\ Len(v) = N
    BY <1>1, <1>2, <2>1
  <2>3. ASSUME NEW i \in 1 .. N PROVE v[i] = t[f + i - 1] /\ f + i - 1 \in 1 .. Len(t)
    BY <1>1, <1>2
  <2> QED BY <2>2, <2>3
<1>4. DOMAIN v = 1 .. N /\ v # << >>
  BY <1>3
<1>5. x = [i \in 1 .. N |-> v[i].nth]
  BY <1>1, <1>4 DEF NumbersOf
<1>6. \A i \in 1 .. N : v[i].nth \in Nat
  <2>1. \A i \in 1 .. N : v[i] \in TaggedSymbol
    BY <1>3
  <2>2. \A z \in TaggedSymbol : z.nth \in Nat
    BY DEF TaggedSymbol
  <2> QED BY <2>1, <2>2
<1>7. x \in [1 .. N -> Nat] /\ \A i \in 1 .. N : x[i] = v[i].nth
  BY <1>5, <1>6
<1>8. x \in Seq(Nat) /\ Len(x) = N
  BY <1>7
<1>9. ASSUME NEW m \in 0 .. N - 1 PROVE f + m \in 1 .. Len(r) /\ FromZero(x, N)[m] = r[f + m].nth
  <2>1. m + 1 \in 1 .. N /\ f + (m + 1) - 1 = f + m
    BY <1>2
  <2>2. f + m \in 1 .. Len(t) /\ v[m + 1] = t[f + m]
    BY <1>3, <2>1
  <2>3. f + m \in 1 .. Len(r)
    <3>1. Len(t) \in Nat /\ Len(sy) \in Nat /\ Len(r) = Len(t) + Len(sy)
      BY <1>1, LenProperties, StreamItems
    <3> QED BY <2>2, <3>1
  <2>4. r[f + m] = [phase |-> t[f + m].phase, nth |-> t[f + m].nth]
    BY <1>1, <2>2, StreamItems
  <2>5. FromZero(x, N)[m] = x[m + 1]
    BY DEF FromZero
  <2> QED BY <1>7, <2>1, <2>2, <2>3, <2>4, <2>5
<1> QED BY <1>1, <1>4, <1>8, <1>9 DEF Taking

\* A frame's length on is the next frame.
LEMMA NextFrames ==
  ASSUME NEW N \in Nat \ {0}, NEW A \in Nat, NEW B \in Nat, A + N <= B
  PROVE  A \div N < B \div N
<1>1. PICK q \in Nat, m \in 0 .. N - 1 : q = A \div N /\ A = N * q + m
  <2>1. A \div N \in Nat /\ A % N \in 0 .. N - 1 /\ A = N * (A \div N) + (A % N)
    OBVIOUS
  <2> QED BY <2>1
<1>2. PICK s \in Nat, l \in 0 .. N - 1 : s = B \div N /\ B = N * s + l
  <2>1. B \div N \in Nat /\ B % N \in 0 .. N - 1 /\ B = N * (B \div N) + (B % N)
    OBVIOUS
  <2> QED BY <2>1
<1>3. SUFFICES ASSUME s <= q PROVE FALSE
  BY <1>1, <1>2
<1>4. PICK d \in Nat : q = s + d
  <2>1. q - s \in Nat /\ q = s + (q - s)
    BY <1>3
  <2> QED BY <2>1
<1>5. PICK Z \in Nat, D \in Nat : Z = N * s /\ D = N * d /\ N * q = Z + D
  <2>1. N * s \in Nat /\ N * d \in Nat /\ N * q = N * s + N * d
    BY <1>4
  <2> QED BY <2>1
<1>6. A = Z + D + m /\ B = Z + l
  BY <1>1, <1>2, <1>5
<1> QED BY <1>6

\* What is told of all frames, with one more.
LEMMA OneMore ==
  ASSUME NEW S, NEW p \in Seq(S), NEW x \in S, NEW p2, p2 = Append(p, x)
  PROVE  /\ p2 \in Seq(S) /\ Len(p) \in Nat /\ Len(p2) = Len(p) + 1
         /\ \A j \in 1 .. Len(p) : j \in 1 .. Len(p2) /\ p2[j] = p[j]
         /\ Len(p) + 1 \in 1 .. Len(p2) /\ p2[Len(p) + 1] = x
         /\ \A j \in 1 .. Len(p2) : j \in 1 .. Len(p) \/ j = Len(p) + 1
<1>1. p2 \in Seq(S) /\ Len(p) \in Nat /\ Len(p2) = Len(p) + 1
  BY LenProperties
<1>2. \A j \in 1 .. Len(p) : p2[j] = p[j]
  OBVIOUS
<1>3. p2[Len(p) + 1] = x
  OBVIOUS
<1> QED BY <1>1, <1>2, <1>3

\* The frame that comes out is behind those before, and before all that is to come.
LEMMA RisingItems ==
  ASSUME NEW y, NEW N \in Nat \ {0}, N = y.nsym_frame, NEW ph \in Seq(Phase), NEW X,
         WTyped(y, ph, X), WRising(y, X), NEW m \in 0 .. N - 1, NEW l \in 0 .. N - 1, m <= l, NEW d, d = l - m
  PROVE  Spaced(ph, X, m, l, d)
<1>1. X[m] \in Nat /\ X[l] \in Nat /\ X[l] < Len(ph)
  BY DEF WTyped
<1>2. X[m] + (l - m) <= X[l]
  BY DEF WRising
<1> QED BY <1>1, <1>2 DEF Spaced

\* A symbol consumed is before all that is still to come.
LEMMA GoneAhead ==
  ASSUME NEW ph \in Seq(Phase), NEW rot, NEW r, NEW a, NEW w, NEW gone, Coming(ph, rot, r, a, w, gone),
         NEW k \in Nat, k <= Len(r), NEW r2, RestOf(r, k, r2), NEW i \in 1 .. Len(r), i <= k
  PROVE  AllAhead(r[i].nth, r2, a, w)
<1>1. r2 \in Seq(Symbol) /\ Len(r2) = Len(r) - k /\ \A j \in 1 .. Len(r) - k : r2[j] = r[k + j]
  BY DEF RestOf
<1>2. \A j \in 1 .. Len(r) : j <= k => AllAhead(r[j].nth, r2, a, w)
  BY <1>1, DropComing
<1> QED BY <1>2

\* A number some distance below another.
LEMMA Reaches ==
  ASSUME NEW P \in Nat, NEW A \in Nat, NEW d \in Nat, NEW B \in Nat, P < A, A + d <= B
  PROVE  P + d < B
OBVIOUS

\* All that is still to come is behind the frame passed on, and it behind what was before.
LEMMA ComesBehind ==
  ASSUME NEW y, NEW N \in Nat \ {0}, NEW n \in Nat, N = y.nsym_frame, n = y.len_preamble, n < N,
         NEW ph \in Seq(Phase), NEW rot, NEW r, NEW a, NEW w, NEW gone, Coming(ph, rot, r, a, w, gone),
         NEW f \in Nat, NEW x, Len(x) = N, Taking(r, f, N, FromZero(x, N)),
         NEW k \in Nat, k = f - 1 + N, k <= Len(r), NEW r2, RestOf(r, k, r2)
  PROVE  /\ EndOf(y, x) \in Nat /\ EndOf(y, x) < Len(ph) /\ AllAhead(EndOf(y, x), r2, a, w)
         /\ \A P \in Nat : AllAhead(P, r, a, w) => P + n < x[n + 1] /\ x[n + 1] \in Nat
<1>1. PICK X : X = FromZero(x, N)
  OBVIOUS
<1>2. WTyped(y, ph, X) /\ WRising(y, X)
  BY <1>1, TakingRises
<1>3. 0 \in 0 .. N - 1 /\ n \in 0 .. N - 1 /\ N - 1 \in 0 .. N - 1
  BY SMTT(60)
<1>4. PICK A \in Nat, B \in Nat, C \in Nat :
        A = X[0] /\ B = X[n] /\ C = X[N - 1] /\ A + n <= B /\ B + (N - 1 - n) <= C /\ C < Len(ph)
  <2>1. 0 <= n /\ n <= N - 1 /\ n = n - 0
    OBVIOUS
  <2>2. Spaced(ph, X, 0, n, n)
    BY <1>2, <1>3, <2>1, RisingItems
  <2>3. Spaced(ph, X, n, N - 1, N - 1 - n)
    BY <1>2, <1>3, <2>1, RisingItems
  <2> QED BY <2>2, <2>3 DEF Spaced
<1>5. X[0] = r[f].nth /\ f \in 1 .. Len(r) /\ X[N - 1] = r[k].nth /\ k \in 1 .. Len(r)
  <2>1. f + 0 = f /\ f + (N - 1) = k
    OBVIOUS
  <2> QED BY <1>1, <1>3, <2>1 DEF Taking
<1>6. X[n] = x[n + 1]
  BY <1>1, <1>3 DEF FromZero
<1>7. PICK d \in Nat : d = N - 1 - n /\ EndOf(y, x) = B + d
  <2>1. N - 1 - n \in Nat
    OBVIOUS
  <2> QED BY <2>1, <1>4, <1>6 DEF EndOf
<1>8. B + d <= C /\ B + d \in Nat /\ Len(ph) \in Nat
  <2>1. B + d <= C
    BY <1>4, <1>7
  <2>2. B + d \in Nat
    OBVIOUS
  <2>3. Len(ph) \in Nat
    BY LenProperties
  <2> QED BY <2>1, <2>2, <2>3
<1>9. AllAhead(C, r2, a, w)
  <2>1. k \in 1 .. Len(r) /\ k <= k /\ C = r[k].nth
    BY <1>4, <1>5
  <2> QED BY <2>1, GoneAhead
<1>10. AllAhead(B + d, r2, a, w)
  <2>1. Numbered(r2) /\ Numbered(a) /\ Numbered(w)
    BY SymbolsNumbered, SubchirpsNumbered DEF RestOf, Coming
  <2>2. ASSUME NEW s, Numbered(s), Ahead(C, s) PROVE Ahead(B + d, s)
    <3>1. ASSUME NEW i \in 1 .. Len(s) PROVE B + d < s[i].nth
      <4>1. s[i].nth \in Nat /\ C < s[i].nth
        BY <2>2 DEF Ahead, Numbered
      <4> QED BY <4>1, <1>8
    <3> QED BY <3>1 DEF Ahead
  <2> QED BY <2>1, <2>2, <1>9 DEF AllAhead
<1>11. B + d < Len(ph)
  BY SMTT(60), <1>4, <1>8
<1>12. ASSUME NEW P \in Nat, AllAhead(P, r, a, w) PROVE P + n < x[n + 1] /\ x[n + 1] \in Nat
  <2>1. P < A
    BY <1>4, <1>5, <1>12 DEF AllAhead, Ahead
  <2>2. P + n < B
    BY <1>4, <2>1, Reaches
  <2> QED BY <2>2, <1>4, <1>6
<1> QED BY <1>7, <1>8, <1>10, <1>11, <1>12

\* A frame whose beginning goes with its tag, and was not hit, is passed on.
KeptAs(y, N, n, c, T, x) == ClaimOf(y, x) = c /\ FromSfd(n, N, T, FromZero(x, N))

\* Of a frame that was not hit, it holds the symbols from the SFD on.
LEMMA BeginningKept ==
  ASSUME NEW y, NEW N \in Nat \ {0}, NEW n \in Nat, N = y.nsym_frame, n = y.len_preamble, n < N,
         NEW ph \in Seq(Phase), NEW rot, NEW r, NEW a, NEW w, NEW gone, Coming(ph, rot, r, a, w, gone),
         NEW f \in Nat, NEW x, Taking(r, f, N, FromZero(x, N)),
         NEW c \in Nat, NEW T \in Nat, Base(N, c, T), T = r[f].nth, ~ HitIn(N, gone, c)
  PROVE  KeptAs(y, N, n, c, T, x)
<1>1. PICK X : X = FromZero(x, N)
  OBVIOUS
<1>2. WTyped(y, ph, X) /\ WDense(y, gone, X)
  BY <1>1, TakingRises
<1>3. X[0] = T
  <2>1. 0 \in 0 .. N - 1 /\ f + 0 = f
    OBVIOUS
  <2> QED BY <1>1, <2>1 DEF Taking
<1>4. RunsOn(X, X[0], N - 1)
  <2>1. N - 1 \in 0 .. N - 1 /\ T <= T + 1 /\ T + (N - 1) < T + N
    BY SMTT(60)
  <2> QED BY <1>2, <1>3, <2>1, RunsOnFrom
<1>5. ASSUME NEW i \in n .. N - 1 PROVE X[i] = T + i
  <2>1. i \in 0 .. N - 1
    OBVIOUS
  <2> QED BY <2>1, <1>3, <1>4 DEF RunsOn
<1>6. x[n + 1] = T + n
  <2>1. n \in 0 .. N - 1 /\ n \in n .. N - 1
    OBVIOUS
  <2> QED BY <1>1, <1>5, <2>1 DEF FromZero
<1>7. (T + n) \div N = c
  <2>1. n \in 0 .. N - 1
    OBVIOUS
  <2>2. (N * c + n) \div N = c
    BY <2>1, Division
  <2>3. N * c = T
    BY DEF Base
  <2> QED BY <2>2, <2>3
<1> QED BY <1>1, <1>5, <1>6, <1>7 DEF ClaimOf, FromSfd, KeptAs

FrameOut(p, R, p2) == p2 = Append(p, NumbersOf(R.frame))

\* The frame buffer passes a frame on: it is right, in order, and nothing is missed.
LEMMA HistoryPasses ==
  ASSUME NEW y, Started(y), NEW half, NEW ph \in Seq(Phase), Headed(y, ph), NEW rot \in Phase,
         NEW t \in Seq(TaggedSymbol), NEW sy \in Seq(Symbol), NEW a, NEW w, NEW gone, NEW p,
         Coming(ph, rot, Stream(t, sy), a, w, gone), TagsTell(y, half, t, Stream(t, sy), gone),
         History(y, half, ph, Stream(t, sy), a, w, gone, p),
         NEW R, Passing(t, y.nsym_frame, R), NEW t2, Shed(t, R.consumed, t2),
         NEW p2, FrameOut(p, R, p2)
  PROVE  R.frame # << >> /\ History(y, half, ph, Stream(t2, sy), a, w, gone, p2)
<1>0. PICK x : x = NumbersOf(R.frame) /\ p2 = Append(p, x)
  BY DEF FrameOut
<1>1. PICK N \in Nat \ {0}, n \in Nat : N = y.nsym_frame /\ n = y.len_preamble /\ n >= 2 /\ n < N
  <2>1. y.nsym_frame \in Nat \ {0} /\ y.len_preamble \in Nat /\ y.len_preamble >= 2 /\ y.len_preamble < y.nsym_frame
    BY SizesOf
  <2> QED BY <2>1
<1>2. PICK f \in Nat : /\ Alone(t, f, N) /\ R.consumed = f - 1 + N /\ R.consumed <= Len(t)
                       /\ R.frame = SubSeq(t, f, f + N - 1)
                       /\ \A i \in 1 .. Len(t) : i < f => ~ t[i].sof
  BY <1>1 DEF Passing
<1>3. PICK k \in Nat : k = R.consumed /\ k <= Len(t) /\ k = f - 1 + N
  <2>1. f - 1 + N \in Nat
    OBVIOUS
  <2> QED BY <1>2, <2>1
<1>4. RestOf(Stream(t, sy), k, Stream(t2, sy)) /\ k <= Len(Stream(t, sy))
  <2>1. Shed(t, k, t2)
    BY <1>3
  <2> QED BY <2>1, BufferTakes
<1>5. PICK r, r2 : r = Stream(t, sy) /\ r2 = Stream(t2, sy)
  OBVIOUS
<1>6. Coming(ph, rot, r, a, w, gone) /\ RestOf(r, k, r2) /\ k <= Len(r) /\ TagsTell(y, half, t, r, gone)
      /\ History(y, half, ph, r, a, w, gone, p)
  BY <1>4, <1>5
<1>7. x \in Seq(Nat) /\ Len(x) = N /\ Taking(r, f, N, FromZero(x, N)) /\ R.frame # << >>
  <2>1. x = NumbersOf(SubSeq(t, f, f + N - 1)) /\ Alone(t, f, N)
    BY <1>0, <1>2
  <2> QED BY ZenonT(60), <2>1, <1>2, <1>5, FrameComes
<1>8. PICK X : X = FromZero(x, N)
  OBVIOUS
<1>9. TakenIn(y, half, ph, gone, X, ClaimOf(y, x))
  <2>1. Window(y, half, ph, gone, X)
    BY <1>1, <1>2, <1>5, <1>7, <1>8, StreamWindow
  <2>2. X[n] = x[n + 1] /\ x[n + 1] \in Nat
    <3>1. n \in 0 .. N - 1 /\ n + 1 \in 1 .. N
      BY <1>1
    <3>2. x \in Seq(Nat) /\ Len(x) = N
      BY <1>7
    <3>3. x[n + 1] \in Nat
      BY <3>1, <3>2, ElementOfSeq
    <3>4. X = [m \in 0 .. N - 1 |-> x[m + 1]]
      BY <1>8 DEF FromZero
    <3> QED BY <3>1, <3>3, <3>4
  <2>3. ClaimOf(y, x) = X[y.len_preamble] \div y.nsym_frame /\ ClaimOf(y, x) \in Nat
    <3>1. \A z \in Nat : z \div N \in Nat
      OBVIOUS
    <3> QED BY <3>1, <1>1, <2>2 DEF ClaimOf
  <2> QED BY <2>1, <2>3, WindowTaken
<1>10. p \in Seq(Seq(Nat))
  BY <1>6 DEF History, PassedWell
<1>11. /\ p2 \in Seq(Seq(Nat)) /\ Len(p) \in Nat /\ Len(p2) = Len(p) + 1
       /\ \A j \in 1 .. Len(p) : j \in 1 .. Len(p2) /\ p2[j] = p[j]
       /\ Len(p) + 1 \in 1 .. Len(p2) /\ p2[Len(p) + 1] = x
       /\ \A j \in 1 .. Len(p2) : j \in 1 .. Len(p) \/ j = Len(p) + 1
  <2>1. x \in Seq(Nat) /\ p2 = Append(p, x)
    BY <1>0, <1>7
  <2> HIDE <1>0
  <2> QED BY <2>1, <1>10, OneMore
<1>12. PassedWell(y, half, ph, gone, p2)
  <2>1. ASSUME NEW j \in 1 .. Len(p2)
        PROVE  Len(p2[j]) = y.nsym_frame /\ TakenIn(y, half, ph, gone, FromZero(p2[j], y.nsym_frame), ClaimOf(y, p2[j]))
    <3>1. CASE j \in 1 .. Len(p)
      BY <3>1, <1>6, <1>11 DEF History, PassedWell
    <3>2. CASE j = Len(p) + 1
      BY <3>2, <1>1, <1>7, <1>8, <1>9, <1>11
    <3> QED BY <3>1, <3>2, <1>11
  <2> QED BY <2>1, <1>11 DEF PassedWell
<1>13. /\ EndOf(y, x) \in Nat /\ EndOf(y, x) < Len(ph) /\ AllAhead(EndOf(y, x), r2, a, w)
       /\ \A P \in Nat : AllAhead(P, r, a, w) => P + n < x[n + 1] /\ x[n + 1] \in Nat
  <2> HIDE <1>2, <1>4, <1>5
  <2> QED BY <1>1, <1>3, <1>6, <1>7, ComesBehind
<1>14. Beyond(y, Len(ph), r2, a, w, p2)
  <2>1. Beyond(y, Len(ph), r2, a, w, p)
    BY <1>6, BeyondStays DEF History
  <2>2. ASSUME NEW j \in 1 .. Len(p2)
        PROVE  EndOf(y, p2[j]) \in Nat /\ EndOf(y, p2[j]) < Len(ph) /\ AllAhead(EndOf(y, p2[j]), r2, a, w)
    <3>1. CASE j \in 1 .. Len(p)
      BY <3>1, <2>1, <1>11 DEF Beyond
    <3>2. CASE j = Len(p) + 1
      BY <3>2, <1>11, <1>13
    <3> QED BY <3>1, <3>2, <1>11
  <2> QED BY <2>2 DEF Beyond
<1>15. ASSUME NEW j \in 1 .. Len(p) PROVE ClaimOf(y, p[j]) < ClaimOf(y, x)
  <2>1. PICK E \in Nat : E = EndOf(y, p[j]) /\ AllAhead(E, r, a, w)
    BY <1>6 DEF History, Beyond
  <2>2. PICK z \in Nat : z = p[j][n + 1]
    <3>1. p[j] \in Seq(Nat) /\ Len(p[j]) = N
      BY <1>1, <1>6, <1>10 DEF History, PassedWell
    <3>2. n + 1 \in 1 .. N
      BY SMTT(60), <1>1
    <3> QED BY SMTT(60), <3>1, <3>2
  <2>3. PICK v \in Nat : v = x[n + 1] /\ E + n < v
    BY <1>13, <2>1
  <2>4. E = z + (N - 1 - n)
    BY <1>1, <2>1, <2>2 DEF EndOf
  <2>5. z + N <= v
    BY <2>3, <2>4
  <2>6. z \div N < v \div N
    BY <2>5, NextFrames
  <2> QED BY <2>2, <2>3, <2>6, <1>1 DEF ClaimOf
<1>16. InOrder(y, p2)
  <2>1. PICK L \in Nat : L = Len(p) /\ Len(p2) = L + 1
    BY <1>11
  <2>2. ASSUME NEW j \in 1 .. L PROVE ClaimOf(y, p2[j]) < ClaimOf(y, p2[j + 1])
    <3>1. CASE j = L
      BY <2>1, <3>1, <1>11, <1>15
    <3>2. CASE j # L
      <4>1. j \in 1 .. L - 1 /\ j + 1 \in 1 .. L
        BY <3>2
      <4>2. ClaimOf(y, p[j]) < ClaimOf(y, p[j + 1])
        BY <2>1, <4>1, <1>6 DEF History, InOrder
      <4> QED BY <2>1, <4>1, <4>2, <1>11
    <3> QED BY <3>1, <3>2
  <2>3. 1 .. Len(p2) - 1 = 1 .. L
    BY <2>1
  <2> QED BY <2>2, <2>3 DEF InOrder
<1>17. ASSUME NEW c \in Nat, Kept(y, half, ph, gone, p, c) PROVE Kept(y, half, ph, gone, p2, c)
  BY <1>11, <1>17 DEF Kept
<1>18. ASSUME NEW c \in Nat, NEW T \in Nat, Base(N, c, T), T < Len(ph), AllAhead(T, r2, a, w)
      PROVE  Kept(y, half, ph, gone, p2, c)
  <2>1. CASE HitIn(N, gone, c)
    BY <1>1, <2>1 DEF Kept
  <2>2. CASE ~ HitIn(N, gone, c)
    <3>1. AllAhead(T, r, a, w) \/ GoesTagged(t, r, k, T)
      <4>1. k <= Len(t) /\ N = y.nsym_frame
        BY <1>1, <1>3
      <4> HIDE <1>2, <1>3
      <4> QED BY <4>1, <1>4, <1>5, <1>18, <2>2, BeginningGoes
    <3>2. CASE AllAhead(T, r, a, w)
      <4>1. Kept(y, half, ph, gone, p, c)
        BY <1>1, <1>6, <1>18, <3>2 DEF History, NoneMissed
      <4> QED BY <4>1, <1>17
    <3>3. CASE GoesTagged(t, r, k, T)
      <4>1. PICK i \in 1 .. Len(t) : i <= k /\ r[i].nth = T /\ t[i].sof
        BY <3>3 DEF GoesTagged
      <4>2. i = f
        <5>1. ~ (i < f)
          BY <1>2, <4>1
        <5>2. ~ (f < i /\ i < f + N)
          BY <1>2, <4>1 DEF Alone
        <5>3. i < f + N /\ i \in Nat
          BY <1>3, <4>1
        <5> QED BY <5>1, <5>2, <5>3
      <4>3. ClaimOf(y, x) = c /\ FromSfd(n, N, T, FromZero(x, N))
        <5>1. T = r[f].nth
          BY <4>1, <4>2
        <5>2. N = y.nsym_frame /\ n = y.len_preamble /\ n < N
          BY <1>1
        <5>3. Coming(ph, rot, r, a, w, gone) /\ Taking(r, f, N, FromZero(x, N)) /\ Base(N, c, T) /\ ~ HitIn(N, gone, c)
          BY <1>6, <1>7, <1>18, <2>2
        <5>4. KeptAs(y, N, n, c, T, x)
          BY <5>1, <5>2, <5>3, BeginningKept
        <5> QED BY <5>4 DEF KeptAs
      <4>4. T = c * N
        BY <1>18 DEF Base
      <4> QED BY <1>1, <1>11, <4>3, <4>4 DEF Kept
    <3> QED BY <3>1, <3>2, <3>3
  <2> QED BY <2>1, <2>2
<1>19. NoneMissed(y, half, ph, r2, a, w, gone, p2)
  BY <1>1, <1>18 DEF NoneMissed
<1> QED BY <1>5, <1>7, <1>12, <1>14, <1>16, <1>19 DEF History

-----------------------------------------------------------------------------
(***************************************************************************)
(* The link: what holds of the symbols on their way and of the frames      *)
(* passed on, and how every step keeps it.                                 *)
(***************************************************************************)
Received == Stream(tagged, symbols)
Kinds ==
  /\ tagged \in Seq(TaggedSymbol) /\ symbols \in Seq(Symbol)
  /\ halfTurn \in BOOLEAN /\ rotation \in Phase /\ detector \in Detectors
  /\ bursts \in Nat /\ airLen \in Nat /\ silence \in Nat
InTime ==
  /\ bursts * phy.nsamp_frame <= dqcsk.pos
  /\ Later(waiting) /\ Within(waiting, bursts * phy.nsamp_frame, dqcsk.pos)
  /\ Later(air) /\ Within(air, 0, airLen)
OnTheWay == Coming(phases, rotation, Received, air, waiting, lost)
TagsRead == TagsTell(phy, halfTurn, tagged, Received, lost)
FramesTold == History(phy, halfTurn, phases, Received, air, waiting, lost, passed)
LinkInv == /\ Layer /\ packets \in Seq(Seq(Byte)) /\ Intake /\ Sending
           /\ Kinds /\ InTime /\ OnTheWay /\ TagsRead /\ FramesTold

\* The physical layers of the setups have the shape that the lemmas ask for.
LEMMA LinkShape ==
  ASSUME Layer
  PROVE  Shaped(phy) /\ Started(phy) /\ Timed(phy)
<1>1. PICK s \in Setups : phy = PhysicalLayer(s.slow, s.size, s.chirp)
  BY DEF Layer
<1>2. Shaped(phy)
  BY <1>1, ShapeOfSetup
<1> QED BY <1>2 DEF Shaped

\* Subchirps behind others.
LEMMA LaterJoined ==
  ASSUME NEW s \in Seq(Subchirp), NEW t \in Seq(Subchirp), Later(s), Later(t),
         NEW A \in Int, NEW B \in Int, NEW C \in Int, NEW D \in Int, A <= C, B <= C, B <= D,
         Within(s, A, B), Within(t, C, D), NEW u, u = s \o t
  PROVE  Later(u) /\ Within(u, A, D)
<1>1. PICK M \in Nat, N \in Nat : M = Len(s) /\ N = Len(t)
  BY LenProperties
<1>2. /\ u \in Seq(Subchirp) /\ Len(u) = M + N
      /\ \A i \in 1 .. M : u[i] = s[i]
      /\ \A i \in 1 .. N : u[M + i] = t[i]
  BY <1>1, Concatenated
<1>3. ASSUME NEW i \in 1 .. M + N
      PROVE  \/ i \in 1 .. M /\ u[i] = s[i]
             \/ \E j \in 1 .. N : i = M + j /\ u[i] = t[j]
  <2>1. CASE i <= M
    BY <1>2, <2>1
  <2>2. CASE ~ (i <= M)
    <3>1. i - M \in 1 .. N /\ i = M + (i - M)
      BY <2>2
    <3>2. u[i] = t[i - M]
      BY <1>2, <3>1
    <3> QED BY <3>1, <3>2
  <2> QED BY <2>1, <2>2
<1>4. ASSUME NEW i \in 1 .. M PROVE s[i].at \in Int /\ A <= s[i].at /\ s[i].at < B
  <2>1. s[i] \in Subchirp
    BY <1>1, ElementOfSeq
  <2> QED BY <1>1, <2>1 DEF Subchirp, Within
<1>5. ASSUME NEW i \in 1 .. N PROVE t[i].at \in Int /\ C <= t[i].at /\ t[i].at < D
  <2>1. t[i] \in Subchirp
    BY <1>1, ElementOfSeq
  <2> QED BY <1>1, <2>1 DEF Subchirp, Within
<1>6. ASSUME NEW i \in 1 .. M + N PROVE A <= u[i].at /\ u[i].at < D
  <2>1. CASE i \in 1 .. M /\ u[i] = s[i]
    <3>1. s[i].at \in Int /\ A <= s[i].at /\ s[i].at < B
      BY <1>4, <2>1
    <3>2. A <= s[i].at /\ s[i].at < D
      BY <3>1
    <3> QED BY <2>1, <3>2
  <2>2. CASE \E j \in 1 .. N : i = M + j /\ u[i] = t[j]
    <3>1. PICK j \in 1 .. N : i = M + j /\ u[i] = t[j]
      BY <2>2
    <3>2. t[j].at \in Int /\ C <= t[j].at /\ t[j].at < D
      BY <1>5
    <3>3. A <= t[j].at /\ t[j].at < D
      BY <3>2
    <3> QED BY <3>1, <3>3
  <2> QED BY <1>3, <2>1, <2>2
<1>7. ASSUME NEW i \in 1 .. M + N, NEW j \in 1 .. M + N, i < j PROVE u[i].at < u[j].at
  <2>1. CASE i \in 1 .. M /\ u[i] = s[i]
    <3>1. CASE j \in 1 .. M /\ u[j] = s[j]
      BY <1>1, <1>7, <2>1, <3>1 DEF Later
    <3>2. CASE \E l \in 1 .. N : j = M + l /\ u[j] = t[l]
      BY SMTT(60), <1>4, <1>5, <2>1, <3>2
    <3> QED BY <1>3, <3>1, <3>2
  <2>2. CASE \E k \in 1 .. N : i = M + k /\ u[i] = t[k]
    <3>1. PICK k \in 1 .. N : i = M + k /\ u[i] = t[k]
      BY <2>2
    <3>2. PICK l \in 1 .. N : j = M + l /\ u[j] = t[l]
      <4>1. ~ (j \in 1 .. M)
        BY <1>7, <3>1
      <4> QED BY <1>3, <4>1
    <3>3. k < l
      BY <1>7, <3>1, <3>2
    <3> QED BY <1>1, <3>1, <3>2, <3>3 DEF Later
  <2> QED BY <1>3, <2>1, <2>2
<1> QED BY <1>2, <1>6, <1>7 DEF Later, Within

\* At first there is nothing.
LEMMA LinkBegins == Init => LinkInv
<1> SUFFICES ASSUME Init PROVE LinkInv
  OBVIOUS
<1>1. Layer
  BY DEF Init, Layer
<1>2. Shaped(phy) /\ Started(phy) /\ Timed(phy)
  BY <1>1, LinkShape
<1>3. /\ tagged = << >> /\ symbols = << >> /\ air = << >> /\ waiting = << >> /\ phases = << >>
      /\ passed = << >> /\ packets = << >> /\ lost = {} /\ bursts = 0 /\ airLen = 0
      /\ prefixer = 0 /\ dqpsk = FreshMemory /\ dqcsk = FirstChirp /\ detector = Searching(0)
      /\ toPad = << >> /\ dbuf = << >> /\ toMapper = [p \in Ports |-> << >>]
      /\ toIntlv = [p \in Ports |-> << >>] /\ toPrefixer = [p \in Ports |-> << >>]
  BY DEF Init, SenderInit, ReceiverInit
<1>4. rotation \in Phase /\ halfTurn \in BOOLEAN /\ silence \in Nat
  BY LinkAssumption DEF Init, Phase
<1>5. Len(<< >>) = 0 /\ \A S : << >> \in Seq(S)
  BY EmptySeq
<1>6. packets \in Seq(Seq(Byte))
  BY <1>3, <1>5
<1>7. Intake
  <2>1. /\ toMapper[0] = << >> /\ toMapper[1] = << >> /\ toIntlv[0] = << >> /\ toIntlv[1] = << >>
        /\ toPrefixer[0] = << >> /\ toPrefixer[1] = << >>
    BY <1>3 DEF Ports
  <2>2. EvenBits(dbuf)
    <3>1. 0 = 2 * 0 /\ 0 \in Nat
      OBVIOUS
    <3> QED BY <1>3, <1>5, <3>1 DEF EvenBits
  <2>3. Messages(toPad)
    BY <1>3, <1>5 DEF Messages
  <2> QED BY <1>5, <2>1, <2>2, <2>3 DEF Intake, Twins
<1>8. Sending
  <2>1. PICK N \in Nat \ {0} : N = phy.nsym_frame
    BY <1>2 DEF Started
  <2>2. 0 % N = 0
    BY <2>1
  <2>3. phases \in Seq(Phase) /\ Headed(phy, phases)
    <3>1. 0 .. 0 - 1 = {}
      OBVIOUS
    <3> QED BY <1>3, <1>5, <3>1 DEF Headed
  <2>4. Position(phy, 0, prefixer)
    BY <1>3, <2>1, <2>2 DEF Position
  <2>5. FreshMemory \in Memories /\ FreshMemory.ctr = 0 /\ \A i \in 1 .. 4 : FreshMemory.mem[i] = 0
    <3>1. <<0, 0, 0, 0>> \in Memory
      BY DEF Memory, Phase
    <3> QED BY <3>1 DEF FreshMemory, Memories
  <2>6. Rolled(phy, 0, dqpsk)
    BY <1>3, <2>1, <2>2, <2>5 DEF Rolled
  <2>7. dqcsk \in Counters /\ dqcsk.nth = 0
    BY <1>3 DEF FirstChirp, Counters
  <2> QED BY <1>3, <1>5, <2>3, <2>4, <2>6, <2>7 DEF Sending
<1>9. Kinds
  <2>1. detector \in Detectors
    BY <1>3 DEF Searching, Detectors
  <2> QED BY <1>3, <1>4, <1>5, <2>1 DEF Kinds
<1>10. InTime
  <2>1. PICK n \in Nat : n = phy.nsamp_frame
    BY <1>2 DEF Timed
  <2>2. 0 * n = 0 /\ dqcsk.pos = 0
    BY <1>3, <2>1 DEF FirstChirp
  <2> QED BY <1>3, <1>5, <2>1, <2>2 DEF InTime, Later, Within
<1>11. Received \in Seq(Symbol) /\ Len(Received) = 0
  <2>1. << >> \in Seq(TaggedSymbol) /\ << >> \in Seq(Symbol)
    BY <1>5
  <2>2. Received = Stream(<< >>, << >>)
    BY <1>3 DEF Received
  <2>3. Stream(<< >>, << >>) \in Seq(Symbol) /\ Len(Stream(<< >>, << >>)) = Len(<< >>) + Len(<< >>)
    BY <2>1, StreamItems
  <2>4. Len(Stream(<< >>, << >>)) = 0
    BY <1>5, <2>3
  <2> QED BY <2>2, <2>3, <2>4
<1>12. OnTheWay
  BY <1>3, <1>5, <1>11 DEF OnTheWay, Coming, Rising, Apart, Carry, Accounted
<1>13. TagsRead
  BY <1>3, <1>5 DEF TagsRead, TagsTell
<1>14. FramesTold
  <2>1. PassedWell(phy, halfTurn, phases, lost, passed)
    BY <1>3, <1>5 DEF PassedWell
  <2>2. Beyond(phy, Len(phases), Received, air, waiting, passed) /\ InOrder(phy, passed)
    BY <1>3, <1>5 DEF Beyond, InOrder
  <2>3. NoneMissed(phy, halfTurn, phases, Received, air, waiting, lost, passed)
    BY <1>3, <1>5 DEF NoneMissed
  <2> QED BY <2>1, <2>2, <2>3 DEF FramesTold, History
<1> QED BY <1>1, <1>6, <1>7, <1>8, <1>9, <1>10, <1>12, <1>13, <1>14 DEF LinkInv

\* A step that leaves the symbols, and all that puts them out, alone.
AsTheyWere ==
  /\ UNCHANGED <<phy, crossed, prefixer, dqpsk, dqcsk, phases>>
  /\ UNCHANGED <<rotation, halfTurn, detector, symbols, tagged, air, airLen, passed>>
  /\ UNCHANGED <<waiting, bursts, silence, lost>>

\* Such a step keeps the invariant, if what the sender has taken in stays well-formed.
LEMMA LinkRests ==
  ASSUME LinkInv, AsTheyWere, Intake', packets' \in Seq(Seq(Byte))
  PROVE  LinkInv'
<1>1. Layer' /\ Sending' /\ Kinds' /\ InTime'
  BY DEF LinkInv, AsTheyWere, Layer, Sending, Kinds, InTime
<1>2. Received' = Received
  BY DEF AsTheyWere, Received
<1>3. OnTheWay' /\ TagsRead' /\ FramesTold'
  BY <1>2 DEF LinkInv, AsTheyWere, OnTheWay, TagsRead, FramesTold
<1> QED BY <1>1, <1>3 DEF LinkInv

\* A message is handled.
LEMMA LinkHandles ==
  ASSUME LinkInv, Handle
  PROVE  LinkInv'
<1>1. Layer /\ Shaped(phy) /\ Intake /\ packets \in Seq(Seq(Byte))
  BY LinkShape DEF LinkInv
<1>2. UNCHANGED <<receiverVars, waiting, bursts, silence, lost>>
  BY DEF Handle
<1>3. CASE /\ Len(packets) < MaxPackets
           /\ \E p \in Payloads \cup {Usual(phy.size, Len(packets))} : PrefixPhrHandler(p)
  <2>1. PICK p \in Payloads \cup {Usual(phy.size, Len(packets))} : PrefixPhrHandler(p)
    BY <1>3
  <2>2. PICK s \in Setups : phy = PhysicalLayer(s.slow, s.size, s.chirp)
    BY <1>1 DEF Layer
  <2>3. Len(packets) \in 0 .. MaxPackets
    <3>1. Len(packets) \in Nat
      BY <1>1, LenProperties
    <3> QED BY <1>3, <3>1, LinkAssumption
  <2>4. Usual(phy.size, Len(packets)) \in Seq(0 .. 255)
    BY <2>2, <2>3, LinkAssumption
  <2>5. p \in Seq(Byte)
    BY <2>1, <2>4, LinkAssumption DEF Byte
  <2>6. Intake'
    BY <1>1, <2>1, <2>5, IntakeAccepts
  <2>7. packets' \in Seq(Seq(Byte))
    BY <1>1, <2>1, <2>5, AppendProperties DEF PrefixPhrHandler
  <2>8. AsTheyWere
    BY <1>2, <2>1 DEF PrefixPhrHandler, AsTheyWere, receiverVars
  <2> QED BY <2>6, <2>7, <2>8, LinkRests
<1>4. CASE PrefixPhrEof
  <2>1. Intake'
    BY <1>1, <1>4, IntakeEnds
  <2>2. AsTheyWere /\ packets' = packets
    BY <1>2, <1>4 DEF PrefixPhrEof, AsTheyWere, receiverVars
  <2> QED BY <1>1, <2>1, <2>2, LinkRests
<1>5. CASE PadZeros
  <2>1. Intake'
    BY <1>1, <1>5, IntakePads
  <2>2. AsTheyWere /\ packets' = packets
    BY <1>2, <1>5 DEF PadZeros, AsTheyWere, receiverVars
  <2> QED BY <1>1, <2>1, <2>2, LinkRests
<1>6. CASE MapCodewords
  <2>1. Intake'
    BY <1>1, <1>6, IntakeMaps
  <2>2. AsTheyWere /\ packets' = packets
    BY <1>2, <1>6 DEF MapCodewords, AsTheyWere, receiverVars
  <2> QED BY <1>1, <2>1, <2>2, LinkRests
<1> QED BY <1>3, <1>4, <1>5, <1>6 DEF Handle

\* Chirps are sent.
LEMMA LinkSends ==
  ASSUME LinkInv, SendChirps
  PROVE  LinkInv'
<1>1. Layer /\ Shaped(phy) /\ Started(phy) /\ Timed(phy) /\ Intake /\ Sending
  BY LinkShape DEF LinkInv
<1>2. Modulate(Modulated) /\ waiting' = waiting \o Modulated.chirps.out
  BY DEF SendChirps
<1>3. /\ UNCHANGED <<rotation, halfTurn, detector, symbols, tagged, air, airLen, passed>>
      /\ UNCHANGED <<bursts, silence, lost>>
  BY DEF SendChirps
<1>4. phy' = phy /\ packets' = packets
  BY <1>2 DEF Modulate
<1>5. Intake' /\ Sending' /\ \E out, c : Sent(Modulated, out, c)
  BY <1>1, <1>2, Sends
<1>6. PICK out, c : Sent(Modulated, out, c)
  BY <1>5
<1> HIDE <1>6
<1>7. /\ out \in Seq(Phase) /\ c \in Seq(Subchirp) /\ Len(c) = Len(out)
      /\ phases' = phases \o out /\ waiting' = waiting \o c
      /\ dqcsk' \in Counters /\ dqcsk.pos <= dqcsk'.pos
      /\ Later(c) /\ Within(c, dqcsk.pos, dqcsk'.pos)
  BY <1>2, <1>6 DEF Sent, Chirped
<1>8. Supplied(phases, waiting, out, c, phases', waiting')
  <2>1. dqcsk.nth = Len(phases)
    BY <1>1 DEF Sending
  <2> QED BY <1>6, <1>7, <2>1 DEF Sent, Chirped, Supplied
<1>9. phases \in Seq(Phase) /\ phases' \in Seq(Phase) /\ dqcsk \in Counters
  BY <1>1, <1>5 DEF Sending
<1>10. Coming(phases, rotation, Received, air, waiting, lost)
  BY DEF LinkInv, OnTheWay
<1>11. /\ Coming(phases', rotation, Received, air, waiting', lost)
       /\ AheadSame(phases, Received, air, waiting, phases', waiting')
  BY <1>8, <1>9, <1>10, SendComing
<1>12. Received' = Received
  BY <1>3 DEF Received
<1>13. OnTheWay' /\ TagsRead'
  BY <1>3, <1>4, <1>11, <1>12 DEF OnTheWay, TagsRead, LinkInv
<1>14. FramesTold'
  <2>1. More(phases, phases')
    <3>1. /\ Len(phases') = Len(phases) + Len(out) /\ Len(phases) \in Nat /\ Len(out) \in Nat
          /\ \A i \in 1 .. Len(phases) : phases'[i] = phases[i]
      BY <1>7, <1>9, Concatenated, LenProperties
    <3>2. Len(phases) <= Len(phases')
      BY <3>1
    <3> QED BY <3>1, <3>2 DEF More
  <2>2. Onwards(phases, Received, air, waiting, phases', Received, air, waiting', lost)
    BY <1>11 DEF Onwards, AheadSame
  <2>3. History(phy, halfTurn, phases, Received, air, waiting, lost, passed)
    BY DEF LinkInv, FramesTold
  <2>4. History(phy, halfTurn, phases', Received, air, waiting', lost, passed)
    BY <1>1, <1>9, <2>1, <2>2, <2>3, HistoryOn
  <2> QED BY <1>3, <1>4, <1>12, <2>4 DEF FramesTold
<1>15. InTime'
  <2>1. PICK B \in Nat : B = bursts * phy.nsamp_frame
    BY <1>1 DEF Timed, LinkInv, Kinds
  <2>2. PICK z \in Int, z2 \in Int : z = dqcsk.pos /\ z2 = dqcsk'.pos /\ z <= z2 /\ B <= z
    BY <1>7, <1>9, <2>1 DEF Counters, LinkInv, InTime
  <2>3. waiting \in Seq(Subchirp)
    BY <1>10 DEF Coming
  <2>4. Later(waiting) /\ Within(waiting, B, z) /\ Later(c) /\ Within(c, z, z2)
    BY <1>7, <2>1, <2>2 DEF LinkInv, InTime
  <2>5. Later(waiting') /\ Within(waiting', B, z2)
    <3>1. B \in Int /\ z <= z
      BY <2>2
    <3> QED BY <1>7, <2>2, <2>3, <2>4, <3>1, LaterJoined
  <2>6. B <= z2
    BY <2>2
  <2>7. Later(air) /\ Within(air, 0, airLen)
    BY DEF LinkInv, InTime
  <2> QED BY <1>3, <1>4, <2>1, <2>2, <2>5, <2>6, <2>7 DEF InTime
<1>16. Kinds' /\ Layer' /\ packets' \in Seq(Seq(Byte))
  BY <1>1, <1>3, <1>4 DEF LinkInv, Kinds, Layer
<1> QED BY <1>5, <1>13, <1>14, <1>15, <1>16 DEF LinkInv

\* A burst is sent.
LEMMA BurstOnwards ==
  ASSUME NEW ph \in Seq(Phase), NEW rot, NEW r, NEW a, NEW w, NEW gone,
         Coming(ph, rot, r, a, w, gone), NEW k \in Nat, k <= Len(w),
         NEW B, NEW n, NEW T, NEW x, NEW s, NEW w2, NEW gone2, gone \subseteq gone2,
         BurstGone(w, B, n, T, x, s, k, w2, gone2), NEW a2, Joined(a, s, a2)
  PROVE  Coming(ph, rot, r, a2, w2, gone2) /\ Onwards(ph, r, a, w, ph, r, a2, w2, gone2)
<1>1. /\ s \in Seq(Subchirp) /\ w2 = SubSeq(w, k + 1, Len(w))
      /\ Sifted(s, w, k, 0) /\ Missed(s, w, k, gone2) /\ a2 = a \o s
  BY DEF BurstGone, Joined
<1>2. Coming(ph, rot, r, a2, w2, gone2) /\ Advanced(Len(ph), r, a, w, r, a2, w2, gone2)
  BY <1>1, TransmitComing
<1>3. Onwards(ph, r, a, w, ph, r, a2, w2, gone2)
  <2>1. ASSUME NEW P \in Nat, AllAhead(P, r, a, w) PROVE AllAhead(P, r, a2, w2)
    BY <1>2, <2>1 DEF Advanced
  <2>2. ASSUME NEW P \in Nat, P < Len(ph), AllAhead(P, r, a2, w2)
        PROVE  AllAhead(P, r, a, w) \/ P \in gone2
    BY <1>2, <2>2 DEF Advanced
  <2> QED BY <2>1, <2>2 DEF Onwards
<1> QED BY <1>2, <1>3

\* No more symbols, and no other ones.
LEMMA SameStream ==
  ASSUME NEW y, Started(y), NEW half, NEW ph \in Seq(Phase), NEW t \in Seq(TaggedSymbol), NEW sy \in Seq(Symbol),
         NEW gone, NEW gone2, gone \subseteq gone2, TagsTell(y, half, t, Stream(t, sy), gone)
  PROVE  TagsTell(y, half, t, Stream(t, sy), gone2) /\ More(ph, ph)
<1>1. PICK r : r = Stream(t, sy)
  OBVIOUS
<1>2. r \in Seq(Symbol) /\ Len(r) = Len(t) + Len(sy)
  BY <1>1, StreamItems
<1>3. Len(r) \in Nat /\ Len(t) \in Nat /\ Len(sy) \in Nat /\ Len(ph) \in Nat
  BY <1>2, LenProperties
<1>4. Len(t) <= Len(r) /\ Len(r) <= Len(r) /\ Len(ph) <= Len(ph)
  BY <1>2, <1>3
<1>5. y.len_preamble \in Nat /\ y.len_preamble >= 1
  BY DEF Started
<1>6. TagsTell(y, half, t, r, gone) /\ \A i \in 1 .. Len(r) : r[i] = r[i]
  BY <1>1
<1>7. TagsTell(y, half, t, r, gone2)
  BY <1>3, <1>4, <1>5, <1>6, TagsKept
<1> QED BY <1>1, <1>4, <1>7 DEF More

\* The samples of the bursts sent.
LEMMA BurstsSent ==
  ASSUME NEW n \in Nat, NEW b \in Nat, NEW pos \in Int, pos >= (b + 1) * n
  PROVE  b * n \in Nat /\ (b + 1) * n = b * n + n /\ b * n + n <= pos
<1>1. (b + 1) * n = b * n + n /\ b * n \in Nat
  OBVIOUS
<1> QED BY <1>1

\* What a burst does.
Burst(pause, mine, heard) ==
  /\ mine = Picked(waiting, Soon(waiting, bursts * phy.nsamp_frame, phy.nsamp_frame))
  /\ waiting' = SubSeq(waiting, Len(mine) + 1, Len(waiting))
  /\ \E kept : heard = Picked(mine, kept)
  /\ Joined(air, Shift(heard, bursts * phy.nsamp_frame, airLen, pause), air')
  /\ airLen' = airLen + pause + phy.nsamp_frame
  /\ lost \subseteq lost' /\ Unheard(mine, heard, lost')

\* Transmit is such a burst.
LEMMA Bursts ==
  ASSUME Transmit
  PROVE  /\ \E pause \in Silences \cup {silence} : \E mine, heard : Burst(pause, mine, heard)
         /\ dqcsk.pos >= (bursts + 1) * phy.nsamp_frame /\ bursts' = bursts + 1
         /\ UNCHANGED <<senderVars, silence, rotation, halfTurn, detector, symbols, tagged, passed>>
<1>1. PICK base \in {bursts * phy.nsamp_frame} :
        \E mine \in {Picked(waiting, {n \in DOMAIN waiting : waiting[n].at < base + phy.nsamp_frame})} :
          /\ waiting' = SubSeq(waiting, Len(mine) + 1, Len(waiting))
          /\ \E pause \in Silences \cup {silence}, spoilt \in Spoils \cup {-1} :
             \E heard \in {Picked(mine, {n \in DOMAIN mine : mine[n].nth % phy.nsym_frame # spoilt})} :
               /\ Quirk((IF pause = silence THEN 0 ELSE 1) + (IF spoilt = -1 THEN 0 ELSE 1))
               /\ air' = air \o [n \in DOMAIN heard |->
                                   [heard[n] EXCEPT !.at = heard[n].at - base + airLen + pause]]
               /\ airLen' = airLen + pause + phy.nsamp_frame
               /\ lost' = lost \cup ({mine[n].nth : n \in DOMAIN mine}
                                     \ {heard[n].nth : n \in DOMAIN heard})
  BY Zenon DEF Transmit
<1>2. PICK mine \in {Picked(waiting, {n \in DOMAIN waiting : waiting[n].at < base + phy.nsamp_frame})} :
        /\ waiting' = SubSeq(waiting, Len(mine) + 1, Len(waiting))
        /\ \E pause \in Silences \cup {silence}, spoilt \in Spoils \cup {-1} :
           \E heard \in {Picked(mine, {n \in DOMAIN mine : mine[n].nth % phy.nsym_frame # spoilt})} :
             /\ Quirk((IF pause = silence THEN 0 ELSE 1) + (IF spoilt = -1 THEN 0 ELSE 1))
             /\ air' = air \o [n \in DOMAIN heard |->
                                 [heard[n] EXCEPT !.at = heard[n].at - base + airLen + pause]]
             /\ airLen' = airLen + pause + phy.nsamp_frame
             /\ lost' = lost \cup ({mine[n].nth : n \in DOMAIN mine}
                                   \ {heard[n].nth : n \in DOMAIN heard})
  BY <1>1, Zenon
<1>3. PICK pause \in Silences \cup {silence}, spoilt \in Spoils \cup {-1} :
        \E heard \in {Picked(mine, {n \in DOMAIN mine : mine[n].nth % phy.nsym_frame # spoilt})} :
          /\ Quirk((IF pause = silence THEN 0 ELSE 1) + (IF spoilt = -1 THEN 0 ELSE 1))
          /\ air' = air \o [n \in DOMAIN heard |->
                              [heard[n] EXCEPT !.at = heard[n].at - base + airLen + pause]]
          /\ airLen' = airLen + pause + phy.nsamp_frame
          /\ lost' = lost \cup ({mine[n].nth : n \in DOMAIN mine}
                                \ {heard[n].nth : n \in DOMAIN heard})
  BY <1>2, Zenon
<1>4. PICK heard \in {Picked(mine, {n \in DOMAIN mine : mine[n].nth % phy.nsym_frame # spoilt})} :
        /\ air' = air \o [n \in DOMAIN heard |->
                            [heard[n] EXCEPT !.at = heard[n].at - base + airLen + pause]]
        /\ airLen' = airLen + pause + phy.nsamp_frame
        /\ lost' = lost \cup ({mine[n].nth : n \in DOMAIN mine}
                              \ {heard[n].nth : n \in DOMAIN heard})
  BY <1>3, Zenon
<1>5. Burst(pause, mine, heard)
  <2>1. base = bursts * phy.nsamp_frame
    BY ZenonT(30), <1>1
  <2>2. mine = Picked(waiting, Soon(waiting, base, phy.nsamp_frame))
    BY <1>2, Zenon DEF Soon
  <2>3. \E kept : heard = Picked(mine, kept)
    BY <1>4, Zenon
  <2>4. Joined(air, Shift(heard, base, airLen, pause), air')
    BY <1>4, Zenon DEF Joined, Shift
  <2>5. lost \subseteq lost' /\ Unheard(mine, heard, lost')
    BY ZenonT(30), <1>4 DEF Unheard
  <2>6. airLen' = airLen + pause + phy.nsamp_frame /\ waiting' = SubSeq(waiting, Len(mine) + 1, Len(waiting))
    BY <1>2, <1>4, Zenon
  <2> QED BY <2>1, <2>2, <2>3, <2>4, <2>5, <2>6, Zenon DEF Burst
<1>6. /\ dqcsk.pos >= (bursts + 1) * phy.nsamp_frame /\ bursts' = bursts + 1
      /\ UNCHANGED <<senderVars, silence, rotation, halfTurn, detector, symbols, tagged, passed>>
  BY Zenon DEF Transmit, BurstWaits
<1>7. \E p \in Silences \cup {silence} : \E m, h : Burst(p, m, h)
  BY <1>5, Zenon
<1> QED BY <1>6, <1>7

\* A burst goes on the air.
LEMMA LinkTransmits ==
  ASSUME LinkInv, Transmit
  PROVE  LinkInv'
<1>1. Layer /\ Shaped(phy) /\ Started(phy) /\ Timed(phy) /\ Intake /\ Sending /\ Kinds
  BY LinkShape DEF LinkInv
<1>2. /\ \E pause \in Silences \cup {silence} : \E mine, heard : Burst(pause, mine, heard)
      /\ dqcsk.pos >= (bursts + 1) * phy.nsamp_frame /\ bursts' = bursts + 1
      /\ UNCHANGED <<senderVars, silence, rotation, halfTurn, detector, symbols, tagged, passed>>
  BY Bursts
<1>3. PICK pause \in Silences \cup {silence} : \E mine, heard : Burst(pause, mine, heard)
  BY <1>2, Zenon
<1>25. PICK mine, heard : Burst(pause, mine, heard)
  BY <1>3, Zenon
<1> HIDE <1>25
<1>4. PICK n \in Nat, b \in Nat, z \in Nat, T \in Int :
        n = phy.nsamp_frame /\ b = bursts /\ z = airLen /\ T = dqcsk.pos
  BY <1>1 DEF Timed, Kinds, Sending, Counters
<1>5. pause \in Nat
  BY <1>1, LinkAssumption DEF Kinds
<1>6. b * n \in Nat /\ (b + 1) * n = b * n + n /\ b * n + n <= T
  BY <1>2, <1>4, BurstsSent
<1>7. PICK B \in Nat : B = b * n /\ (b + 1) * n = B + n /\ B + n <= T
  BY <1>6
<1>8. Coming(phases, rotation, Received, air, waiting, lost)
  BY DEF LinkInv, OnTheWay
<1>9. waiting \in Seq(Subchirp) /\ air \in Seq(Subchirp) /\ Rising(waiting)
  BY <1>8 DEF Coming
<1>10. Later(waiting) /\ Within(waiting, B, T) /\ Later(air) /\ Within(air, 0, z)
  BY <1>4, <1>7 DEF LinkInv, InTime
<1>11. PICK s : s = Shift(heard, B, z, pause)
  OBVIOUS
<1>12. /\ mine = Picked(waiting, Soon(waiting, B, n)) /\ waiting' = SubSeq(waiting, Len(mine) + 1, Len(waiting))
       /\ \E kept : heard = Picked(mine, kept)
       /\ Joined(air, s, air') /\ airLen' = z + pause + n
       /\ lost \subseteq lost' /\ Unheard(mine, heard, lost')
  BY <1>25, <1>4, <1>7, <1>11, Zenon DEF Burst
<1>13. PICK k \in Nat : k <= Len(waiting) /\ BurstGone(waiting, B, n, T, z + pause, s, k, waiting', lost')
  <2>1. PICK kept : heard = Picked(mine, kept)
    BY <1>12, Zenon
  <2>2. \E k \in Nat : /\ k <= Len(waiting) /\ k = Len(mine)
                       /\ BurstGone(waiting, B, n, T, z + pause, s, k, SubSeq(waiting, k + 1, Len(waiting)), lost')
    BY <1>5, <1>9, <1>10, <1>11, <1>12, <2>1, BurstGoes
  <2>3. PICK k \in Nat : /\ k <= Len(waiting) /\ k = Len(mine)
                         /\ BurstGone(waiting, B, n, T, z + pause, s, k, SubSeq(waiting, k + 1, Len(waiting)), lost')
    BY <2>2
  <2>4. BurstGone(waiting, B, n, T, z + pause, s, k, waiting', lost')
    BY <1>12, <2>3
  <2> QED BY <2>3, <2>4
<1>14. phases \in Seq(Phase) /\ phases' = phases /\ phy' = phy /\ dqcsk' = dqcsk
  BY <1>1, <1>2 DEF Sending, senderVars
<1>15. /\ Coming(phases, rotation, Received, air', waiting', lost')
       /\ Onwards(phases, Received, air, waiting, phases, Received, air', waiting', lost')
  BY <1>8, <1>12, <1>13, <1>14, BurstOnwards
<1>16. Received' = Received /\ rotation' = rotation /\ halfTurn' = halfTurn /\ passed' = passed /\ tagged' = tagged
  BY <1>2 DEF Received
<1>17. OnTheWay'
  BY <1>14, <1>15, <1>16 DEF OnTheWay
<1>18. TagsTell(phy, halfTurn, tagged, Received, lost') /\ More(phases, phases)
  <2>1. tagged \in Seq(TaggedSymbol) /\ symbols \in Seq(Symbol)
    BY <1>1 DEF Kinds
  <2>2. TagsTell(phy, halfTurn, tagged, Stream(tagged, symbols), lost)
    BY DEF LinkInv, TagsRead, Received
  <2>3. TagsTell(phy, halfTurn, tagged, Stream(tagged, symbols), lost')
    BY <1>1, <1>12, <1>14, <2>1, <2>2, SameStream
  <2>4. More(phases, phases)
    BY <1>1, <1>12, <1>14, <2>1, <2>2, SameStream
  <2> QED BY <2>3, <2>4 DEF Received
<1>19. TagsRead'
  BY <1>14, <1>16, <1>18 DEF TagsRead
<1>20. FramesTold'
  <2>1. History(phy, halfTurn, phases, Received, air, waiting, lost, passed)
    BY DEF LinkInv, FramesTold
  <2>2. History(phy, halfTurn, phases, Received, air', waiting', lost', passed)
    BY <1>1, <1>12, <1>14, <1>15, <1>18, <2>1, HistoryOn
  <2> QED BY <1>14, <1>16, <2>2 DEF FramesTold
<1>21. InTime'
  <2>1. s \in Seq(Subchirp) /\ Later(s) /\ Within(s, z + pause, z + pause + n)
        /\ Later(waiting') /\ Within(waiting', B + n, T)
    BY <1>13 DEF BurstGone
  <2>2. bursts' * phy'.nsamp_frame = B + n
    BY <1>2, <1>4, <1>7, <1>14
  <2>3. 0 \in Int /\ z + pause + n \in Int /\ z + pause \in Int /\ z \in Int
        /\ 0 <= z + pause /\ z <= z + pause /\ z <= z + pause + n
    BY <1>5
  <2>4. air' = air \o s
    BY <1>12 DEF Joined
  <2>5. Later(air') /\ Within(air', 0, z + pause + n)
    BY <1>9, <1>10, <2>1, <2>3, <2>4, LaterJoined
  <2> QED BY <1>4, <1>7, <1>12, <1>14, <2>1, <2>2, <2>5 DEF InTime
<1>22. Kinds'
  <2>1. bursts' \in Nat
    BY <1>2, <1>4
  <2>2. airLen' \in Nat
    BY <1>4, <1>5, <1>12
  <2>3. UNCHANGED <<tagged, symbols, halfTurn, rotation, detector, silence>>
    BY <1>2
  <2> QED BY <1>1, <2>1, <2>2, <2>3 DEF Kinds
<1>23. Layer' /\ Intake' /\ Sending' /\ packets' \in Seq(Seq(Byte))
  BY <1>1, <1>2 DEF LinkInv, Layer, Intake, Sending, senderVars
<1> QED BY <1>17, <1>19, <1>20, <1>21, <1>22, <1>23 DEF LinkInv

\* The detector listens.
LEMMA FoundOnwards ==
  ASSUME NEW ph \in Seq(Phase), NEW rot \in Phase, NEW r, NEW a, NEW w, NEW gone,
         Coming(ph, rot, r, a, w, gone), NEW k \in Nat, k <= Len(a),
         NEW y, NEW T, NEW s, NEW a2, NEW gone2, gone \subseteq gone2,
         DetectedFrom(y, a, T, rot, s, k, a2, gone2), NEW r2, Joined(r, s, r2)
  PROVE  Coming(ph, rot, r2, a2, w, gone2) /\ Onwards(ph, r, a, w, ph, r2, a2, w, gone2)
<1>1. /\ s \in Seq(Symbol) /\ a2 = SubSeq(a, k + 1, Len(a))
      /\ Sifted(s, a, k, rot) /\ Missed(s, a, k, gone2) /\ r2 = r \o s /\ rot \in Int
  BY DEF DetectedFrom, Joined, Phase
<1>2. Coming(ph, rot, r2, a2, w, gone2) /\ Advanced(Len(ph), r, a, w, r2, a2, w, gone2)
  BY <1>1, ListenComing
<1>3. Onwards(ph, r, a, w, ph, r2, a2, w, gone2)
  <2>1. ASSUME NEW P \in Nat, AllAhead(P, r, a, w) PROVE AllAhead(P, r2, a2, w)
    BY <1>2, <2>1 DEF Advanced
  <2>2. ASSUME NEW P \in Nat, P < Len(ph), AllAhead(P, r2, a2, w)
        PROVE  AllAhead(P, r, a, w) \/ P \in gone2
    BY <1>2, <2>2 DEF Advanced
  <2> QED BY <2>1, <2>2 DEF Onwards
<1> QED BY <1>2, <1>3

\* More symbols behind those there are.
LEMMA StreamJoined ==
  ASSUME NEW y, Started(y), NEW half, NEW t \in Seq(TaggedSymbol), NEW sy \in Seq(Symbol), NEW s \in Seq(Symbol),
         NEW sy2, Joined(sy, s, sy2),
         NEW gone, NEW gone2, gone \subseteq gone2, TagsTell(y, half, t, Stream(t, sy), gone)
  PROVE  /\ Joined(Stream(t, sy), s, Stream(t, sy2)) /\ sy2 \in Seq(Symbol)
         /\ TagsTell(y, half, t, Stream(t, sy2), gone2)
<1>1. PICK f : f = Untagged(t)
  OBVIOUS
<1>2. f \in Seq(Symbol) /\ Len(f) = Len(t)
  <2>1. PICK H \in Nat : H = Len(t)
    BY LenProperties
  <2>2. f = [n \in 1 .. H |-> [phase |-> t[n].phase, nth |-> t[n].nth]]
    BY <1>1, <2>1 DEF Untagged
  <2>3. ASSUME NEW n \in 1 .. H PROVE [phase |-> t[n].phase, nth |-> t[n].nth] \in Symbol
    <3>1. t[n] \in TaggedSymbol
      BY <2>1, ElementOfSeq
    <3> QED BY <3>1 DEF TaggedSymbol, Symbol
  <2>4. f \in [1 .. H -> Symbol]
    BY <2>2, <2>3
  <2> QED BY SMTT(60), <2>1, <2>4
<1>3. Stream(t, sy) = f \o sy /\ Stream(t, sy2) = f \o sy2 /\ sy2 = sy \o s
  BY <1>1 DEF Stream, Joined
<1>4. PICK H \in Nat, M \in Nat, K \in Nat : H = Len(f) /\ M = Len(sy) /\ K = Len(s)
  BY <1>2, LenProperties
<1>5. /\ sy2 \in Seq(Symbol) /\ Len(sy2) = M + K
      /\ (\A i \in 1 .. M : sy2[i] = sy[i]) /\ (\A i \in 1 .. K : sy2[M + i] = s[i])
  BY <1>3, <1>4, Concatenated
<1>6. PICK r : r = f \o sy
  OBVIOUS
<1>7. /\ r \in Seq(Symbol) /\ Len(r) = H + M
  <2>1. r \in Seq(Symbol) /\ Len(r) = Len(f) + Len(sy)
    BY <1>2, <1>6, Concatenated
  <2> QED BY <1>4, <2>1
<1>8. PICK q : q = f \o sy2
  OBVIOUS
<1>9. q = r \o s
  <2>1. f \o (sy \o s) = (f \o sy) \o s
    BY <1>2
  <2> QED BY <1>3, <1>6, <1>8, <2>1
<1>10. /\ q \in Seq(Symbol) /\ Len(q) = (H + M) + K
       /\ \A i \in 1 .. Len(r) : q[i] = r[i]
  <2>1. /\ q \in Seq(Symbol) /\ Len(q) = Len(r) + Len(s)
        /\ \A i \in 1 .. Len(r) : q[i] = r[i]
    BY <1>7, <1>9, Concatenated
  <2> QED BY <1>4, <1>7, <2>1
<1>11. TagsTell(y, half, t, q, gone2)
  <2>1. Len(r) \in Nat /\ Len(q) \in Nat /\ Len(t) \in Nat /\ Len(t) <= Len(r) /\ Len(r) <= Len(q)
    BY <1>2, <1>4, <1>7, <1>10
  <2>2. y.len_preamble \in Nat /\ y.len_preamble >= 1
    BY DEF Started
  <2>3. TagsTell(y, half, t, r, gone)
    BY <1>3, <1>6
  <2> QED BY <1>10, <2>1, <2>2, <2>3, TagsKept
<1> QED BY <1>3, <1>5, <1>6, <1>8, <1>9, <1>11 DEF Joined

\* What the detector does.
Hears ==
  /\ detector' = RunDetector(phy, detector, Picked(air, Heard)).state
  /\ Joined(symbols, Rotated(RunDetector(phy, detector, Picked(air, Heard)).out, rotation), symbols')
  /\ air' = Picked(air, DOMAIN air \ Heard)
  /\ lost \subseteq lost' /\ Unfound(air, air', symbols', lost')

\* Listen is that.
LEMMA Listens ==
  ASSUME Listen
  PROVE  /\ Hears
         /\ UNCHANGED <<senderVars, waiting, bursts, silence, airLen, rotation, halfTurn, tagged, passed>>
<1>1. PICK r : r = RunDetector(phy, detector, Picked(air, Heard))
  OBVIOUS
<1>2. detector' = r.state /\ Joined(symbols, Rotated(r.out, rotation), symbols')
  BY <1>1, Zenon DEF Listen, DetectChirps, RunDetector, Joined, Rotated
<1>3. air' = Picked(air, DOMAIN air \ Heard)
  BY Zenon DEF Listen, DetectChirps
<1>4. lost \subseteq lost' /\ Unfound(air, air', symbols', lost')
  BY DEF Listen, Unfound
<1>5. UNCHANGED <<senderVars, waiting, bursts, silence, airLen, rotation, halfTurn, tagged, passed>>
  BY Zenon DEF Listen, DetectChirps
<1> QED BY <1>1, <1>2, <1>3, <1>4, <1>5 DEF Hears

\* The detector finds symbols, or loses them.
LEMMA LinkListens ==
  ASSUME LinkInv, Listen
  PROVE  LinkInv'
<1>1. Layer /\ Shaped(phy) /\ Started(phy) /\ Timed(phy) /\ Intake /\ Sending /\ Kinds
  BY LinkShape DEF LinkInv
<1>2. /\ Hears
      /\ UNCHANGED <<senderVars, waiting, bursts, silence, airLen, rotation, halfTurn, tagged, passed>>
  BY Listens
<1>3. Coming(phases, rotation, Received, air, waiting, lost)
  BY DEF LinkInv, OnTheWay
<1>4. /\ air \in Seq(Subchirp) /\ Rising(air) /\ Later(air) /\ Within(air, 0, airLen)
      /\ rotation \in Phase /\ tagged \in Seq(TaggedSymbol) /\ symbols \in Seq(Symbol)
      /\ detector \in Detectors /\ airLen \in Nat
  BY <1>1, <1>3 DEF LinkInv, InTime, Coming, Kinds
<1>5. PICK k : Parted(air, Heard, k)
  <2>1. PICK M \in Nat, z \in Int : M = Len(air) /\ z = NSub + MaxGap
    <3>1. NSub \in Int /\ MaxGap \in Int
      BY <1>1, CssAssumption DEF MaxGap, Timed
    <3> QED BY <1>4, <3>1, LenProperties
  <2>2. ASSUME NEW i \in 1 .. M PROVE i \in Heard <=> air[i].at + NSub + MaxGap <= airLen
    <3>1. i \in DOMAIN air
      BY <1>4, <2>1
    <3> QED BY <3>1 DEF Heard
  <2>3. ASSUME NEW i \in 1 .. M PROVE i \in Heard <=> air[i].at + z <= airLen
    <3>1. air[i].at \in Int
      <4>1. air[i] \in Subchirp
        BY <1>4, <2>1, ElementOfSeq
      <4> QED BY <4>1 DEF Subchirp
    <3>2. NSub \in Int /\ MaxGap \in Int
      BY <1>1, CssAssumption DEF MaxGap, Timed
    <3> QED BY <2>1, <2>2, <3>1, <3>2
  <2>4. ASSUME NEW i \in 1 .. M, NEW j \in 1 .. M, i < j, j \in Heard PROVE i \in Heard
    <3>1. air[i].at < air[j].at
      BY <1>4, <2>1, <2>4 DEF Later
    <3>2. air[i].at \in Int /\ air[j].at \in Int
      <4>1. air[i] \in Subchirp /\ air[j] \in Subchirp
        BY <1>4, <2>1, ElementOfSeq
      <4> QED BY <4>1 DEF Subchirp
    <3>3. air[j].at + z <= airLen
      BY <2>3, <2>4
    <3>4. air[i].at + z <= airLen
      BY SMTT(60), <1>4, <3>1, <3>2, <3>3
    <3> QED BY <2>3, <3>4
  <2> QED BY <1>4, <2>1, <2>4, FirstPicked
<1>6. k \in Nat /\ k <= Len(air)
  BY <1>5 DEF Parted
<1>7. PICK r, s : r = RunDetector(phy, detector, Picked(air, Heard)) /\ s = Rotated(r.out, rotation)
  OBVIOUS
<1>8. /\ detector' = r.state /\ Joined(symbols, s, symbols')
      /\ air' = Picked(air, DOMAIN air \ Heard)
      /\ lost \subseteq lost' /\ Unfound(air, air', symbols', lost')
  BY <1>2, <1>7 DEF Hears
<1>9. Apart(symbols, air)
  <2>1. PICK M \in Nat, K \in Nat : M = Len(tagged) /\ K = Len(symbols)
    BY <1>4, LenProperties
  <2>2. /\ Len(Received) = M + K
        /\ \A i \in 1 .. K : Received[M + i] = symbols[i]
    BY <1>4, <2>1, StreamItems DEF Received
  <2>3. Apart(Received, air)
    BY <1>3 DEF Coming
  <2>4. ASSUME NEW i \in 1 .. K, NEW j \in 1 .. Len(air) PROVE symbols[i].nth < air[j].nth
    <3>1. M + i \in 1 .. Len(Received)
      BY <2>2
    <3>2. Received[M + i].nth < air[j].nth
      BY <2>3, <3>1 DEF Apart
    <3> QED BY <2>2, <3>2
  <2> QED BY <2>1, <2>4 DEF Apart
<1>10. r.state \in Detectors /\ DetectedFrom(phy, air, airLen, rotation, s, k, air', lost')
  BY <1>1, <1>4, <1>5, <1>7, <1>8, <1>9, HearsFirst
<1>11. s \in Seq(Symbol) /\ Later(air') /\ Within(air', 0, airLen)
  BY <1>10 DEF DetectedFrom
<1>12. phases \in Seq(Phase) /\ phases' = phases /\ phy' = phy
  BY <1>1, <1>2 DEF Sending, senderVars
<1>13. /\ tagged' = tagged /\ waiting' = waiting /\ rotation' = rotation /\ halfTurn' = halfTurn
       /\ passed' = passed /\ airLen' = airLen /\ bursts' = bursts /\ silence' = silence
  BY <1>2
<1>14. /\ Joined(Received, s, Received') /\ symbols' \in Seq(Symbol)
       /\ TagsTell(phy, halfTurn, tagged, Received', lost')
  <2>1. Received' = Stream(tagged, symbols')
    BY <1>13 DEF Received
  <2>2. TagsTell(phy, halfTurn, tagged, Stream(tagged, symbols), lost)
    BY DEF LinkInv, TagsRead, Received
  <2>3. /\ Joined(Stream(tagged, symbols), s, Stream(tagged, symbols')) /\ symbols' \in Seq(Symbol)
        /\ TagsTell(phy, halfTurn, tagged, Stream(tagged, symbols'), lost')
    BY ZenonT(60), <1>1, <1>4, <1>8, <1>11, <2>2, StreamJoined
  <2> QED BY <2>1, <2>3 DEF Received
<1>15. /\ Coming(phases, rotation, Received', air', waiting, lost')
       /\ Onwards(phases, Received, air, waiting, phases, Received', air', waiting, lost')
  BY <1>3, <1>4, <1>6, <1>8, <1>10, <1>12, <1>14, FoundOnwards
<1>16. OnTheWay' /\ TagsRead'
  BY <1>12, <1>13, <1>14, <1>15 DEF OnTheWay, TagsRead
<1>17. FramesTold'
  <2>1. More(phases, phases)
    <3>1. Len(phases) \in Nat
      BY <1>12, LenProperties
    <3> QED BY <3>1 DEF More
  <2>2. History(phy, halfTurn, phases, Received, air, waiting, lost, passed)
    BY DEF LinkInv, FramesTold
  <2>3. History(phy, halfTurn, phases, Received', air', waiting, lost', passed)
    BY <1>1, <1>8, <1>12, <1>15, <2>1, <2>2, HistoryOn
  <2> QED BY <1>12, <1>13, <2>3 DEF FramesTold
<1>18. InTime' /\ Kinds'
  <2>1. dqcsk' = dqcsk
    BY <1>2 DEF senderVars
  <2>2. InTime'
    BY <1>11, <1>12, <1>13, <2>1 DEF LinkInv, InTime
  <2> QED BY <1>1, <1>8, <1>10, <1>13, <1>14, <2>2 DEF Kinds
<1>19. Layer' /\ Intake' /\ Sending' /\ packets' \in Seq(Seq(Byte))
  BY <1>1, <1>2 DEF LinkInv, Layer, Intake, Sending, senderVars
<1> QED BY <1>16, <1>17, <1>18, <1>19 DEF LinkInv

\* The preamble tagger, and the frame buffer, leave the rest as it is.
Finding ==
  UNCHANGED <<senderVars, linkVars, air, airLen, rotation, halfTurn, detector>>

\* The tagger tags symbols.
LEMMA LinkTags ==
  ASSUME LinkInv, TagPreamble, Finding
  PROVE  LinkInv'
<1>1. Layer /\ Shaped(phy) /\ Started(phy) /\ Timed(phy) /\ Intake /\ Sending /\ Kinds
  BY LinkShape DEF LinkInv
<1>2. Retagged(phy, halfTurn, tagged, symbols, tagged', symbols') /\ passed' = passed
  <2>1. PICK tags \in {Tags(phy, [n \in 1 .. 2 * phy.len_preamble |-> symbols[n].phase], halfTurn)} :
          tagged' = tagged \o [n \in 1 .. phy.len_preamble |->
                                [phase |-> symbols[n].phase, nth |-> symbols[n].nth, sof |-> n - 1 \in tags]]
    BY Zenon DEF TagPreamble
  <2>2. tagged' = tagged \o NewlyTagged(phy, halfTurn, symbols)
    BY <2>1, Zenon DEF NewlyTagged
  <2>3. /\ symbols' = SubSeq(symbols, phy.len_preamble + 1, Len(symbols)) /\ passed' = passed
        /\ Len(symbols) >= 2 * phy.len_preamble
    BY DEF TagPreamble
  <2>4. 2 * phy.len_preamble <= Len(symbols)
    BY <1>1, <2>3, LenProperties DEF Kinds, Started
  <2> QED BY <2>2, <2>3, <2>4, Zenon DEF Retagged
<1>3. /\ phases \in Seq(Phase) /\ Headed(phy, phases) /\ rotation \in Phase /\ halfTurn \in BOOLEAN
      /\ tagged \in Seq(TaggedSymbol) /\ symbols \in Seq(Symbol)
  BY <1>1 DEF Sending, Kinds
<1>4. /\ Coming(phases, rotation, Stream(tagged, symbols), air, waiting, lost)
      /\ TagsTell(phy, halfTurn, tagged, Stream(tagged, symbols), lost)
  BY DEF LinkInv, OnTheWay, TagsRead, Received
<1>5. /\ tagged' \in Seq(TaggedSymbol) /\ symbols' \in Seq(Symbol)
      /\ Stream(tagged', symbols') = Stream(tagged, symbols)
      /\ TagsTell(phy, halfTurn, tagged', Stream(tagged, symbols), lost)
  BY <1>1, <1>2, <1>3, <1>4, TagsAdded
<1>6. UNCHANGED <<senderVars, linkVars, air, airLen, rotation, halfTurn, detector>>
  BY DEF Finding
<1>7. Received' = Received
  BY <1>5 DEF Received
<1>8. /\ phy' = phy /\ phases' = phases /\ waiting' = waiting /\ lost' = lost /\ dqcsk' = dqcsk
      /\ bursts' = bursts /\ silence' = silence
  BY <1>6 DEF senderVars, linkVars
<1>9. OnTheWay' /\ FramesTold'
  BY <1>2, <1>6, <1>7, <1>8 DEF LinkInv, OnTheWay, FramesTold
<1>10. TagsRead'
  BY <1>5, <1>6, <1>7, <1>8 DEF TagsRead, Received
<1>11. Kinds' /\ InTime'
  BY <1>1, <1>5, <1>6, <1>8 DEF LinkInv, Kinds, InTime
<1>12. Layer' /\ Intake' /\ Sending' /\ packets' \in Seq(Seq(Byte))
  BY <1>1, <1>6 DEF LinkInv, Layer, Intake, Sending, senderVars
<1> QED BY <1>9, <1>10, <1>11, <1>12 DEF LinkInv

\* What the frame buffer reads, when it has taken symbols.
Read(y, half, ph, rot, t, sy, a, w, gone) ==
  /\ t \in Seq(TaggedSymbol) /\ sy \in Seq(Symbol)
  /\ Coming(ph, rot, Stream(t, sy), a, w, gone) /\ TagsTell(y, half, t, Stream(t, sy), gone)

\* Of the invariant, the frame buffer needs this.
LEMMA BufferReads ==
  ASSUME NEW y, Started(y), NEW half, NEW ph \in Seq(Phase), NEW rot, NEW t, NEW sy, NEW a, NEW w, NEW gone,
         Read(y, half, ph, rot, t, sy, a, w, gone), NEW k, NEW t2, Shed(t, k, t2)
  PROVE  Read(y, half, ph, rot, t2, sy, a, w, gone)
<1>1. t \in Seq(TaggedSymbol)
  BY DEF Read
<1>2. sy \in Seq(Symbol)
  BY DEF Read
<1>3. Coming(ph, rot, Stream(t, sy), a, w, gone)
  BY DEF Read
<1>4. TagsTell(y, half, t, Stream(t, sy), gone)
  BY DEF Read
<1>5. /\ t2 \in Seq(TaggedSymbol) /\ RestOf(Stream(t, sy), k, Stream(t2, sy)) /\ k <= Len(Stream(t, sy))
      /\ Coming(ph, rot, Stream(t2, sy), a, w, gone)
      /\ TagsTell(y, half, t2, Stream(t2, sy), gone)
  BY <1>1, <1>2, <1>3, <1>4, BufferTakes
<1> QED BY <1>2, <1>5 DEF Read
PassesOn(R, p, p2) == p2 = (IF R.frame = << >> THEN p ELSE Append(p, NumbersOf(R.frame)))

\* With what the frame buffer does, what was passed on is still right.
LEMMA BufferTells ==
  ASSUME NEW y, Started(y), NEW half, NEW ph \in Seq(Phase), Headed(y, ph), NEW rot \in Phase,
         NEW t, NEW sy, NEW a, NEW w, NEW gone, NEW p, Read(y, half, ph, rot, t, sy, a, w, gone),
         History(y, half, ph, Stream(t, sy), a, w, gone, p),
         NEW R, Dropping(t, y.nsym_frame, R) \/ Passing(t, y.nsym_frame, R),
         NEW t2, Shed(t, R.consumed, t2), NEW p2, PassesOn(R, p, p2)
  PROVE  History(y, half, ph, Stream(t2, sy), a, w, gone, p2)
<1>1. /\ t \in Seq(TaggedSymbol) /\ sy \in Seq(Symbol)
      /\ Coming(ph, rot, Stream(t, sy), a, w, gone) /\ TagsTell(y, half, t, Stream(t, sy), gone)
  BY DEF Read
<1>2. CASE Dropping(t, y.nsym_frame, R)
  <2>1. p2 = p
    BY <1>2 DEF Dropping, PassesOn
  <2>2. History(y, half, ph, Stream(t2, sy), a, w, gone, p)
    BY <1>1, <1>2, HistoryDrops
  <2> QED BY <2>1, <2>2
<1>3. CASE Passing(t, y.nsym_frame, R)
  <2>1. PICK q : q = Append(p, NumbersOf(R.frame))
    OBVIOUS
  <2>2. FrameOut(p, R, q)
    BY <2>1 DEF FrameOut
  <2>3. R.frame # << >> /\ History(y, half, ph, Stream(t2, sy), a, w, gone, q)
    BY <1>1, <1>3, <2>2, HistoryPasses
  <2>4. p2 = q
    BY <2>1, <2>3 DEF PassesOn
  <2> QED BY <2>3, <2>4
<1> QED BY <1>2, <1>3

\* The frame buffer drops symbols or passes on a frame.
LEMMA LinkBuffers ==
  ASSUME LinkInv, BufferFrame, Finding
  PROVE  LinkInv'
<1>1. Layer /\ Shaped(phy) /\ Started(phy) /\ Timed(phy) /\ Intake /\ Sending /\ Kinds
  BY LinkShape DEF LinkInv
<1>2. PICK R : /\ R = FrameBuffer(phy, tagged)
               /\ tagged' = SubSeq(tagged, R.consumed + 1, Len(tagged))
               /\ passed' = (IF R.frame = << >> THEN passed ELSE Append(passed, NumbersOf(R.frame)))
  <2>1. PICK R \in {FrameBuffer(phy, tagged)} :
          /\ tagged' = SubSeq(tagged, R.consumed + 1, Len(tagged))
          /\ frames' = frames \o R.frame
          /\ passed' = (IF R.frame = << >> THEN passed
                        ELSE Append(passed, [i \in DOMAIN R.frame |-> R.frame[i].nth]))
    BY Zenon DEF BufferFrame
  <2> QED BY <2>1, Zenon DEF NumbersOf
<1>3. symbols' = symbols /\ Len(tagged) >= 3 * phy.nsym_frame
  BY DEF BufferFrame
<1>4. PICK N \in Nat \ {0} : N = phy.nsym_frame /\ N + N <= Len(tagged)
  <2>1. PICK N \in Nat \ {0}, H \in Nat : N = phy.nsym_frame /\ H = Len(tagged)
    BY <1>1, SizesOf, LenProperties DEF Kinds
  <2> QED BY <1>3, <2>1
<1>5. /\ phases \in Seq(Phase) /\ Headed(phy, phases) /\ rotation \in Phase /\ halfTurn \in BOOLEAN
      /\ tagged \in Seq(TaggedSymbol) /\ symbols \in Seq(Symbol)
  BY <1>1 DEF Sending, Kinds
<1>6. /\ Read(phy, halfTurn, phases, rotation, tagged, symbols, air, waiting, lost)
      /\ History(phy, halfTurn, phases, Stream(tagged, symbols), air, waiting, lost, passed)
  BY <1>5 DEF LinkInv, OnTheWay, TagsRead, FramesTold, Received, Read
<1>7. Dropping(tagged, phy.nsym_frame, R) \/ Passing(tagged, phy.nsym_frame, R)
  BY <1>2, <1>4, <1>5, BufferDoes
<1>8. R.consumed \in Nat /\ R.consumed <= Len(tagged)
  <2>1. CASE Dropping(tagged, phy.nsym_frame, R)
    BY <2>1 DEF Dropping
  <2>2. CASE Passing(tagged, phy.nsym_frame, R)
    <3>1. PICK f \in Nat : R.consumed = f - 1 + phy.nsym_frame /\ R.consumed <= Len(tagged) /\ f \in 1 .. Len(tagged)
      BY <2>2 DEF Passing, Alone
    <3>2. Len(tagged) \in Nat
      BY <1>5, LenProperties
    <3> QED BY <1>4, <3>1, <3>2
  <2> QED BY <1>7, <2>1, <2>2
<1>9. Shed(tagged, R.consumed, tagged') /\ PassesOn(R, passed, passed')
  BY <1>2, <1>8 DEF Shed, PassesOn
<1>10. Read(phy, halfTurn, phases, rotation, tagged', symbols, air, waiting, lost)
  BY <1>1, <1>5, <1>6, <1>9, BufferReads
<1>11. /\ tagged' \in Seq(TaggedSymbol)
       /\ Coming(phases, rotation, Stream(tagged', symbols), air, waiting, lost)
       /\ TagsTell(phy, halfTurn, tagged', Stream(tagged', symbols), lost)
  BY <1>10 DEF Read
<1>12. History(phy, halfTurn, phases, Stream(tagged', symbols), air, waiting, lost, passed')
  BY <1>1, <1>5, <1>6, <1>7, <1>9, BufferTells
<1>13. UNCHANGED <<senderVars, linkVars, air, airLen, rotation, halfTurn, detector>>
  BY DEF Finding
<1>14. /\ phy' = phy /\ phases' = phases /\ waiting' = waiting /\ lost' = lost /\ dqcsk' = dqcsk
       /\ bursts' = bursts /\ silence' = silence
  BY <1>13 DEF senderVars, linkVars
<1>15. Received' = Stream(tagged', symbols)
  BY <1>3 DEF Received
<1>16. OnTheWay' /\ FramesTold' /\ TagsRead'
  BY <1>11, <1>12, <1>13, <1>14, <1>15 DEF OnTheWay, FramesTold, TagsRead
<1>17. Kinds' /\ InTime'
  BY <1>1, <1>3, <1>11, <1>13, <1>14 DEF LinkInv, Kinds, InTime
<1>18. Layer' /\ Intake' /\ Sending' /\ packets' \in Seq(Seq(Byte))
  BY <1>1, <1>13 DEF LinkInv, Layer, Intake, Sending, senderVars
<1> QED BY <1>16, <1>17, <1>18 DEF LinkInv

\* Behind the frame buffer nothing touches them.
BehindBuffer == UNCHANGED <<senderVars, linkVars, air, airLen, rotation, halfTurn, detector, symbols, tagged, passed>>

\* Every step keeps the invariant.
LEMMA LinkKept == LinkInv /\ [Next]_vars => LinkInv'
<1> SUFFICES ASSUME LinkInv, [Next]_vars PROVE LinkInv'
  OBVIOUS
<1>1. ASSUME BehindBuffer PROVE LinkInv'
  <2>1. AsTheyWere /\ packets' = packets
    BY <1>1 DEF BehindBuffer, AsTheyWere, senderVars, linkVars
  <2>2. Intake'
    BY <1>1 DEF BehindBuffer, senderVars, LinkInv, Intake
  <2>3. packets' \in Seq(Seq(Byte))
    BY <2>1 DEF LinkInv
  <2> QED BY <2>1, <2>2, <2>3, LinkRests
<1>2. CASE Publish
  <2>1. BehindBuffer
    BY <1>2 DEF Publish, RemovePhrHandler, BehindBuffer
  <2> QED BY <1>1, <2>1
<1>3. CASE DecodeFrame
  <2>1. BehindBuffer
    BY <1>3, Zenon DEF DecodeFrame, Decode, BehindBuffer
  <2> QED BY <1>1, <2>1
<1>4. CASE FindFrames
  <2>1. CASE TagPreamble /\ UNCHANGED <<senderVars, linkVars>>
    <3>1. Finding
      BY <2>1, Zenon DEF TagPreamble, Finding
    <3> QED BY <2>1, <3>1, LinkTags
  <2>2. CASE BufferFrame /\ UNCHANGED <<senderVars, linkVars>>
    <3>1. Finding
      BY <2>2, Zenon DEF BufferFrame, Finding
    <3> QED BY <2>2, <3>1, LinkBuffers
  <2> QED BY <1>4, <2>1, <2>2 DEF FindFrames
<1>5. CASE Listen
  BY <1>5, LinkListens
<1>6. CASE Transmit
  BY <1>6, LinkTransmits
<1>7. CASE SendChirps
  BY <1>7, LinkSends
<1>8. CASE Handle
  BY <1>8, LinkHandles
<1>9. CASE UNCHANGED vars
  <2>1. BehindBuffer
    BY <1>9 DEF vars, BehindBuffer, receiverVars
  <2> QED BY <1>1, <2>1
<1> QED BY <1>2, <1>3, <1>4, <1>5, <1>6, <1>7, <1>8, <1>9 DEF Next

\* What was hit and what imitates a preamble.
LEMMA HitsAre ==
  ASSUME NEW k
  PROVE  /\ HitIn(phy.nsym_frame, lost, k) <=> Hit(k)
         /\ ImitatesIn(phy, halfTurn, phases, k) <=> Imitates(k)
         /\ BadIn(phy, halfTurn, phases, lost, k) <=> Hit(k) \/ Imitates(k)
<1>1. HitIn(phy.nsym_frame, lost, k) <=> Hit(k)
  BY DEF HitIn, Hit, FrameOf, NSym
<1>2. ImitatesIn(phy, halfTurn, phases, k) <=> Imitates(k)
  BY Zenon DEF ImitatesIn, Imitates, NSym, Small
<1> QED BY <1>1, <1>2 DEF BadIn

\* The symbols of frames before those that the frame buffer has before it are ahead.
LEMMA FrameBefore ==
  ASSUME NEW N \in Nat \ {0}, NEW P \in Nat, NEW k \in 0 .. (P \div N) - 1
  PROVE  k \in Nat /\ k * N \in Nat /\ k * N < P
<1>1. PICK q \in Nat : q = P \div N
  OBVIOUS
<1>2. k \in Nat /\ k + 1 <= q
  BY <1>1
<1>3. q * N <= P
  BY <1>1
<1>4. (k + 1) * N <= q * N
  BY <1>2
<1>5. (k + 1) * N = k * N + N /\ k * N \in Nat
  BY <1>2
<1>6. PICK a \in Nat, b \in Int : a = k * N /\ b = q * N /\ b <= P /\ a + N <= b
  BY <1>3, <1>4, <1>5
<1> QED BY <1>2, <1>6

\* What is before the first symbol that the frame buffer has is before all.
LEMMA FirstAhead ==
  ASSUME NEW ph \in Seq(Phase), NEW rot, NEW r, NEW a, NEW w, NEW gone, Coming(ph, rot, r, a, w, gone),
         NEW T \in Nat, NEW L \in Nat \ {0}, L = Len(r), T < r[1].nth
  PROVE  T < Len(ph) /\ AllAhead(T, r, a, w)
<1>1. Numbered(r) /\ Numbered(a) /\ Numbered(w)
  BY SymbolsNumbered, SubchirpsNumbered DEF Coming
<1>2. PICK x \in Nat : x = r[1].nth /\ T < x /\ 1 \in 1 .. L
  BY <1>1 DEF Numbered
<1>3. x < Len(ph) /\ Len(ph) \in Nat
  BY <1>2, LenProperties DEF Coming, Carry
<1>4. Ahead(T, r)
  <2>1. SUFFICES ASSUME NEW i \in 1 .. L PROVE T < r[i].nth
    BY DEF Ahead
  <2>2. PICK z \in Nat : z = r[i].nth
    BY <1>1 DEF Numbered
  <2>3. i = 1 \/ x < z
    BY <1>2, <2>2 DEF Coming, Rising
  <2> QED BY <1>2, <2>2, <2>3
<1>5. ASSUME NEW s, Numbered(s), Apart(r, s) PROVE Ahead(T, s)
  <2>1. SUFFICES ASSUME NEW i \in 1 .. Len(s) PROVE T < s[i].nth
    BY DEF Ahead
  <2>2. PICK z \in Nat : z = s[i].nth
    BY <1>5 DEF Numbered
  <2>3. x < z
    BY <1>2, <1>5, <2>2 DEF Apart
  <2> QED BY <1>2, <2>2, <2>3
<1>6. Apart(r, a) /\ Apart(r, w)
  BY DEF Coming
<1> QED BY <1>1, <1>2, <1>3, <1>4, <1>5, <1>6 DEF AllAhead

\* How often a number goes into another.
LEMMA WholePart ==
  ASSUME NEW x \in Nat, NEW N \in Nat \ {0}
  PROVE  x \div N \in Nat
OBVIOUS

\* The frames passed on are as the property has them.
LEMMA GenuineAs ==
  ASSUME NEW j \in 1 .. Len(passed), Len(passed[j]) = phy.nsym_frame, Started(phy), passed \in Seq(Seq(Nat))
  PROVE  /\ Claimed(j) = ClaimOf(phy, passed[j]) /\ Claimed(j) \in Nat
         /\ FromSfd(phy.len_preamble, phy.nsym_frame, Claimed(j) * phy.nsym_frame, FromZero(passed[j], phy.nsym_frame))
              => Genuine(j)
<1>1. PICK N \in Nat \ {0}, n \in Nat : N = phy.nsym_frame /\ n = phy.len_preamble /\ n < N
  BY SizesOf
<1>2. passed[j] \in Seq(Nat) /\ n + 1 \in 1 .. Len(passed[j])
  <2>1. passed[j] \in Seq(Nat)
    BY ElementOfSeq
  <2> QED BY <1>1, <2>1
<1>3. PICK C \in Nat : C = Claimed(j)
  <2>1. PICK x \in Nat : x = passed[j][n + 1]
    BY <1>2, ElementOfSeq
  <2>2. Claimed(j) = x \div N
    BY <1>1, <2>1 DEF Claimed, FrameOf, NSym
  <2>3. x \div N \in Nat
    BY <1>1, WholePart
  <2> QED BY <2>2, <2>3
<1>4. Claimed(j) = ClaimOf(phy, passed[j])
  BY DEF Claimed, FrameOf, NSym, ClaimOf
<1>5. ASSUME FromSfd(n, N, C * N, FromZero(passed[j], N)) PROVE Genuine(j)
  <2>1. PICK T \in Nat : T = C * N
    OBVIOUS
  <2>2. SUFFICES ASSUME NEW i \in n + 1 .. N PROVE passed[j][i] = T + i - 1
    BY <1>1, <1>3, <2>1 DEF Genuine, NSym
  <2>3. PICK m \in n .. N - 1 : m = i - 1 /\ i = m + 1 /\ m \in 0 .. N - 1
    BY SMTT(60), <1>1
  <2>4. FromZero(passed[j], N)[m] = T + m
    BY <1>5, <2>1 DEF FromSfd
  <2>5. FromZero(passed[j], N)[m] = passed[j][m + 1]
    BY <2>3 DEF FromZero
  <2> QED BY <2>3, <2>4, <2>5
<1> QED BY <1>1, <1>3, <1>4, <1>5

\* The invariant tells what frames are passed on.
LEMMA LinkTells ==
  ASSUME LinkInv
  PROVE  FramesPassedOn
<1>1. Started(phy) /\ Kinds /\ phases \in Seq(Phase)
  BY LinkShape DEF LinkInv, Sending
<1>2. PICK N \in Nat \ {0}, n \in Nat : N = phy.nsym_frame /\ n = phy.len_preamble /\ n < N
  BY <1>1, SizesOf
<1>3. History(phy, halfTurn, phases, Received, air, waiting, lost, passed)
  BY DEF LinkInv, FramesTold
<1>4. /\ passed \in Seq(Seq(Nat))
      /\ \A j \in 1 .. Len(passed) :
           /\ Len(passed[j]) = phy.nsym_frame
           /\ TakenIn(phy, halfTurn, phases, lost, FromZero(passed[j], phy.nsym_frame), ClaimOf(phy, passed[j]))
  BY <1>3 DEF History, PassedWell
<1>5. ASSUME NEW j \in 1 .. Len(passed)
      PROVE  /\ Claimed(j) = ClaimOf(phy, passed[j]) /\ Claimed(j) \in Nat
             /\ FromSfd(phy.len_preamble, phy.nsym_frame, Claimed(j) * phy.nsym_frame, FromZero(passed[j], phy.nsym_frame))
                  => Genuine(j)
  BY <1>1, <1>4, GenuineAs
<1>6. ASSUME NEW j \in DOMAIN passed
      PROVE  \/ Genuine(j)
             \/ \E k \in {Claimed(j) - 1, Claimed(j)} \cap Nat : \A m \in {k, k + 1} : Hit(m) \/ Imitates(m)
  <2>1. j \in 1 .. Len(passed)
    BY <1>4
  <2>2. PICK C \in Nat : C = Claimed(j) /\ C = ClaimOf(phy, passed[j])
    BY <1>5, <2>1
  <2>3. TakenIn(phy, halfTurn, phases, lost, FromZero(passed[j], phy.nsym_frame), C)
    BY <1>4, <2>1, <2>2
  <2>4. CASE FromSfd(phy.len_preamble, phy.nsym_frame, C * phy.nsym_frame, FromZero(passed[j], phy.nsym_frame))
    BY <1>5, <2>1, <2>2, <2>4
  <2>5. CASE \E m \in {C - 1, C} \cap Nat : BadIn(phy, halfTurn, phases, lost, m) /\ BadIn(phy, halfTurn, phases, lost, m + 1)
    <3>1. PICK k \in {C - 1, C} \cap Nat : BadIn(phy, halfTurn, phases, lost, k) /\ BadIn(phy, halfTurn, phases, lost, k + 1)
      BY <2>5
    <3>2. (Hit(k) \/ Imitates(k)) /\ (Hit(k + 1) \/ Imitates(k + 1))
      BY <3>1, HitsAre
    <3>3. \A m \in {k, k + 1} : Hit(m) \/ Imitates(m)
      BY <3>2, Zenon
    <3> QED BY <2>2, <3>3
  <2> QED BY <2>3, <2>4, <2>5 DEF TakenIn
<1>7. ASSUME NEW j \in 1 .. Len(passed) - 1 PROVE Claimed(j) < Claimed(j + 1)
  <2>1. Len(passed) \in Nat
    BY <1>4, LenProperties
  <2>2. j \in 1 .. Len(passed) /\ j + 1 \in 1 .. Len(passed)
    BY <2>1
  <2>3. ClaimOf(phy, passed[j]) < ClaimOf(phy, passed[j + 1])
    BY <1>3, <1>7 DEF History, InOrder
  <2>4. Claimed(j) = ClaimOf(phy, passed[j]) /\ Claimed(j + 1) = ClaimOf(phy, passed[j + 1])
    BY <1>5, <2>2
  <2> QED BY <2>3, <2>4
<1>8. ASSUME tagged # << >>, NEW k \in 0 .. FrameOf(tagged[1].nth) - 1
      PROVE  \/ \E j \in DOMAIN passed : Claimed(j) = k /\ Genuine(j)
             \/ Hit(k) \/ Hit(k + 1) \/ Imitates(k)
  <2>1. tagged \in Seq(TaggedSymbol) /\ symbols \in Seq(Symbol)
    BY <1>1 DEF Kinds
  <2>2. PICK K \in Nat \ {0}, M \in Nat : K = Len(tagged) /\ M = Len(symbols)
    BY <1>8, <2>1, LenProperties, EmptySeq
  <2>3. PICK r : r = Received
    OBVIOUS
  <2>4. /\ r \in Seq(Symbol) /\ Len(r) = K + M
        /\ r[1] = [phase |-> tagged[1].phase, nth |-> tagged[1].nth]
    <3>1. 1 \in 1 .. Len(tagged)
      BY <2>2
    <3> QED BY <2>1, <2>2, <2>3, <3>1, StreamItems DEF Received
  <2>5. tagged[1].nth \in Nat
    <3>1. tagged[1] \in TaggedSymbol
      BY <2>1, <2>2, ElementOfSeq
    <3> QED BY <3>1 DEF TaggedSymbol
  <2>6. PICK P \in Nat : P = tagged[1].nth /\ P = r[1].nth
    BY <2>4, <2>5
  <2>7. k \in 0 .. (P \div N) - 1
    BY <1>2, <1>8, <2>6 DEF FrameOf, NSym
  <2>8. k \in Nat /\ k * N \in Nat /\ k * N < P
    BY <2>7, FrameBefore
  <2>9. PICK T \in Nat : T = k * N /\ T < P
    BY <2>8
  <2>10. T < Len(phases) /\ AllAhead(T, r, air, waiting)
    <3>1. Coming(phases, rotation, r, air, waiting, lost)
      BY <2>3 DEF LinkInv, OnTheWay
    <3>2. PICK L \in Nat \ {0} : L = Len(r)
      BY <2>2, <2>4
    <3>3. T < r[1].nth
      BY <2>6, <2>9
    <3> QED BY <1>1, <3>1, <3>2, <3>3, FirstAhead
  <2>11. Kept(phy, halfTurn, phases, lost, passed, k)
    <3>1. Base(phy.nsym_frame, k, T)
      BY <1>2, <2>9 DEF Base
    <3>2. NoneMissed(phy, halfTurn, phases, r, air, waiting, lost, passed)
      BY <1>3, <2>3 DEF History
    <3> QED BY <2>8, <2>10, <3>1, <3>2 DEF NoneMissed
  <2>12. CASE \E j \in 1 .. Len(passed) :
                /\ ClaimOf(phy, passed[j]) = k
                /\ FromSfd(phy.len_preamble, phy.nsym_frame, k * phy.nsym_frame, FromZero(passed[j], phy.nsym_frame))
    <3>1. PICK j \in 1 .. Len(passed) :
                /\ ClaimOf(phy, passed[j]) = k
                /\ FromSfd(phy.len_preamble, phy.nsym_frame, k * phy.nsym_frame, FromZero(passed[j], phy.nsym_frame))
      BY <2>12
    <3>2. j \in DOMAIN passed
      BY <1>4
    <3> QED BY <1>5, <3>1, <3>2
  <2>13. CASE HitIn(phy.nsym_frame, lost, k) \/ HitIn(phy.nsym_frame, lost, k + 1) \/ ImitatesIn(phy, halfTurn, phases, k)
    BY <2>13, HitsAre
  <2> QED BY <2>11, <2>12, <2>13 DEF Kept
<1> QED BY <1>6, <1>7, <1>8, Zenon DEF FramesPassedOn

\* In every behaviour, for all tables, setups, packets, silences and noise: what the frame
\* buffer passes on are frames of the sender, in their order, and all of them, except where
\* noise, or a payload that imitates a preamble, is to blame.
THEOREM FramesKept == Spec => []FramesPassedOn
<1>1. Spec => []LinkInv
  BY LinkBegins, LinkKept, PTL DEF Spec
<1>2. LinkInv => FramesPassedOn
  BY LinkTells
<1> QED BY <1>1, <1>2, PTL
=============================================================================
