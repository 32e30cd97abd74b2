-------------------------- MODULE CssSenderProofs --------------------------
(***************************************************************************)
(* Theorems about the sender of the CSS physical layer, for every choice   *)
(* of the tables and every size of a packet: the lengths of frames; and    *)
(* how the frames of the blocks and of the Python reference compare. That  *)
(* takes                                                                   *)
(*   - what each block computes, step by step (Run) and of a whole frame;  *)
(*   - that codewords, ports and frames are undone by their receivers;     *)
(*   - that blocks which get many packets at once give the blocks of each; *)
(*   - an invariant of what the sender holds: frames put out, chips, bits  *)
(*     and messages on their way are the packets accepted, in their order. *)
(***************************************************************************)
EXTENDS CssLink, Lemmas

-----------------------------------------------------------------------------
(***************************************************************************)
(* Lengths.                                                                 *)
(***************************************************************************)

\* The fast rate pads with as few zeros as fill up the codewords of three bits in both
\* streams, so that a frame always holds whole codewords: 0, 2 or 4 zeros.
THEOREM FastFrameWhole ==
  ASSUME NEW size \in Nat
  PROVE  /\ FrameBits(FALSE, size) % 6 = 0
         /\ PaddedZeros(FALSE, size) \in {0, 2, 4}
         /\ PaddedZeros(FALSE, size) = 0 <=> size % 3 = 0
<1> DEFINE k == CeilDiv(4 * size, 3)
<1>1. k \in Int /\ k = (4 * size + 2) \div 3
  BY DEF CeilDiv
<1>2. FrameBits(FALSE, size) = 6 * (k + 2)
  BY <1>1 DEF FrameBits, PaddedZeros, PhrLen
<1>3. PaddedZeros(FALSE, size) = 6 * k - 8 * size
  BY <1>1 DEF PaddedZeros
<1>4. (6 * (k + 2)) % 6 = 0
  <2> HIDE DEF k
  <2> QED BY <1>1
<1>5. PICK q \in Nat, r \in {0, 1, 2} : size = 3 * q + r /\ size % 3 = r
  BY size \div 3 \in Nat, size = 3 * (size \div 3) + (size % 3), size % 3 \in {0, 1, 2}
<1>6. k = 4 * q + (IF r = 0 THEN 0 ELSE r + 1)
  BY <1>1, <1>5
<1> HIDE DEF k
<1>7. 6 * k - 8 * size \in {0, 2, 4} /\ (6 * k - 8 * size = 0 <=> r = 0)
  <2>1. CASE r = 0
    BY <1>5, <1>6, <2>1
  <2>2. CASE r = 1
    BY <1>5, <1>6, <2>2
  <2>3. CASE r = 2
    BY <1>5, <1>6, <2>3
  <2> QED BY <2>1, <2>2, <2>3
<1> QED BY <1>2, <1>3, <1>4, <1>5, <1>7, Zenon

\* The slow rate does not: a frame holds whole codewords of six bits in both streams only
\* for an even size, and whole blocks of the interleaver, of two codewords, only for a
\* multiple of four. In all other frames a codeword or a block goes on in the next one.
THEOREM SlowFrameWhole ==
  ASSUME NEW size \in Nat
  PROVE  /\ PaddedZeros(TRUE, size) >= 6 * size
         /\ FrameBits(TRUE, size) % 12 = 0 <=> size % 2 = 0
         /\ FrameBits(TRUE, size) % 24 = 0 <=> size % 4 = 0
<1> DEFINE k == CeilDiv(2 * size + 3, 6)
<1>1. k \in Int /\ k = (2 * size + 8) \div 6
  BY DEF CeilDiv
<1>2. 6 * k >= 2 * size + 3
  BY <1>1
<1>3. PaddedZeros(TRUE, size) = 24 * k - 12 - 2 * size
  BY <1>1 DEF PaddedZeros
<1>4. FrameBits(TRUE, size) = 6 * size + 24 * k
  BY <1>1 DEF FrameBits, PaddedZeros, PhrLen
<1> HIDE DEF k
<1>5. 24 * k - 12 - 2 * size >= 6 * size
  BY <1>1, <1>2
<1>6. (6 * size + 24 * k) % 12 = 0 <=> size % 2 = 0
  BY <1>1
<1>7. (6 * size + 24 * k) % 24 = 0 <=> size % 4 = 0
  BY <1>1
<1> QED BY <1>3, <1>4, <1>5, <1>6, <1>7, Zenon

-----------------------------------------------------------------------------
(***************************************************************************)
(* Samples.                                                                *)
(***************************************************************************)

\* Two chirps with their silences take twice the average.
LEMMA GapsAverage ==
  ASSUME NEW chirp \in 1 .. 4
  PROVE  /\ TimeGap1(chirp) \in Nat /\ TimeGap2(chirp) \in Nat
         /\ 2 * (4 * NSub) + TimeGap1(chirp) + TimeGap2(chirp) = 2 * NChirp
<1>1. NTau[chirp] \in Nat /\ NSub \in Nat /\ NChirp \in Nat
      /\ 4 * NSub + 2 * NTau[chirp] <= NChirp
  BY CssAssumption DEF NSubchirps
<1> QED BY <1>1 DEF TimeGap1, TimeGap2, NSubchirps

\* nsamp_frame, by which the flow graph cuts the samples into bursts, is what
\* dqcsk_mapper_fc writes for a frame of whole chirps: every chirp with its silence, the
\* first one's behind the odd chirps and the second one's behind the even ones.
THEOREM FrameSamples ==
  ASSUME NEW chirp \in 1 .. 4, NEW c \in Nat
  PROVE  NsampFrame(4 * c, chirp) =
           c * (4 * NSub) + (c - c \div 2) * TimeGap1(chirp) + (c \div 2) * TimeGap2(chirp)
<1> DEFINE h == c \div 2
           a == TimeGap1(chirp)
           b == TimeGap2(chirp)
<1>1. a \in Nat /\ b \in Nat /\ NSub \in Nat /\ NChirp \in Nat /\ 8 * NSub + a + b = 2 * NChirp
  BY GapsAverage, CssAssumption
<1>2. h \in Nat /\ (c = 2 * h \/ c = 2 * h + 1)
  OBVIOUS
<1>3. (4 * c) \div 4 = c
  OBVIOUS
<1> HIDE DEF a, b, h
<1>4. CASE c = 2 * h
  <2>1. (4 * c) % 8 = 0
    BY <1>2, <1>4
  <2>2. NsampFrame(4 * c, chirp) = c * NChirp
    BY <2>1, <1>3 DEF NsampFrame
  <2>3. c * NChirp = h * (2 * NChirp)
    BY <1>1, <1>2, <1>4
  <2>4. h * (8 * NSub + a + b) = c * (4 * NSub) + h * a + h * b
    BY <1>1, <1>2, <1>4
  <2>5. c - h = h
    BY <1>2, <1>4
  <2> QED BY <1>1, <2>2, <2>3, <2>4, <2>5 DEF a, b, h
<1>5. CASE c = 2 * h + 1
  <2>1. (4 * c) % 8 # 0
    BY <1>2, <1>5
  <2>2. NsampFrame(4 * c, chirp) = ((4 * c - 4) * NChirp) \div 4 + 4 * NSub + a
    BY <2>1 DEF NsampFrame, a
  <2>3. (4 * c - 4) * NChirp = 4 * (h * (2 * NChirp))
    BY <1>1, <1>2, <1>5
  <2>4. h * (2 * NChirp) \in Nat
    BY <1>1, <1>2
  <2>5. (4 * (h * (2 * NChirp))) \div 4 = h * (2 * NChirp)
    BY <2>4
  <2>6. h * (8 * NSub + a + b) + 4 * NSub + a = c * (4 * NSub) + (h + 1) * a + h * b
    BY <1>1, <1>2, <1>5
  <2>7. c - h = h + 1
    BY <1>2, <1>5
  <2> QED BY <1>1, <2>2, <2>3, <2>5, <2>6, <2>7 DEF a, b, h
<1> QED BY <1>2, <1>4, <1>5

-----------------------------------------------------------------------------
(***************************************************************************)
(* What blocks with memory put out.                                        *)
(***************************************************************************)
Phase == 0 .. 3
Bit == {0, 1}
Chip == {-1, 1}
Memory == {m \in Seq(Phase) : Len(m) = 4}
Memories == [mem : Memory, ctr : Nat]

\* A turn of any integer is a phase.
LEMMA TurnType ==
  ASSUME NEW x \in Int
  PROVE  Turn(x) \in Phase
BY DEF Turn, Phase

\* The memory keeps its length.
LEMMA PushFrontType ==
  ASSUME NEW m \in Memory, NEW x \in Phase
  PROVE  /\ PushFront(m, x) \in Memory
         /\ PushFront(m, x)[1] = x
         /\ PushFront(m, x)[2] = m[1] /\ PushFront(m, x)[3] = m[2] /\ PushFront(m, x)[4] = m[3]
<1>1. PICK s \in Seq(Phase) : s = m /\ Len(s) = 4
  BY DEF Memory
<1>2. SubSeq(s, 1, 3) \in Seq(Phase) /\ Len(SubSeq(s, 1, 3)) = 3
      /\ \A i \in 1 .. 3 : SubSeq(s, 1, 3)[i] = s[i]
  BY <1>1, Stretch
<1>3. PICK t \in Seq(Phase) : t = SubSeq(s, 1, 3)
  BY <1>2
<1>4. <<x>> \in Seq(Phase) /\ Len(<<x>>) = 1 /\ <<x>>[1] = x
  OBVIOUS
<1>5. PICK u \in Seq(Phase) : u = <<x>> /\ Len(u) = 1 /\ u[1] = x
  BY <1>4
<1>6. u \o t \in Seq(Phase) /\ Len(u \o t) = 4
      /\ \A i \in 1 .. 4 : (u \o t)[i] = IF i <= 1 THEN u[i] ELSE t[i - 1]
  BY <1>2, <1>3, <1>5, ConcatProperties
<1>7. PushFront(m, x) = u \o t
  BY <1>1, <1>3, <1>5 DEF PushFront
<1> QED BY <1>1, <1>2, <1>3, <1>5, <1>6, <1>7 DEF Memory

\* What Run() has put out so far, and its state.
Results(O, S) == [out : Seq(O), state : S]

\* A step of dqpsk_mapper_ff puts out one phase, and leaves a memory.
LEMMA DqpskType ==
  ASSUME NEW y, NEW forward \in BOOLEAN, NEW s \in Memories, NEW x \in Phase
  PROVE  /\ DqpskStep(y, forward, s, x).state \in Memories
         /\ DqpskStep(y, forward, s, x).out \in Seq(Phase)
<1>1. s.mem \in Memory /\ s.ctr \in Nat /\ s.mem[4] \in Phase
  BY DEF Memories, Memory
<1>2. Turn(x + s.mem[4]) \in Phase /\ Turn(-x) \in Phase
  <2>1. x + s.mem[4] \in Int /\ -x \in Int
    BY <1>1 DEF Phase
  <2> QED BY <2>1, TurnType
<1>3. FreshMemory \in Memories
  BY DEF FreshMemory, Memories, Memory, Phase
<1>4. \A z \in Phase : Remember(y, s, z) \in Memories
  BY <1>1, <1>3, PushFrontType DEF Remember, Memories
<1> QED BY <1>2, <1>4 DEF DqpskStep

\* The differential mapper on a stream.
RunDqpsk(y, forward, s0, in) == Run(LAMBDA s, x : DqpskStep(y, forward, s, x), s0, in)

DqpskTrace(y, forward, s0, in, u) ==
  /\ u[0] = [out |-> << >>, state |-> s0]
  /\ \A k \in 1 .. Len(in) :
       LET next == DqpskStep(y, forward, u[k - 1].state, in[k])
       IN  u[k] = [out |-> u[k - 1].out \o next.out, state |-> next.state]
  /\ \A k \in 0 .. Len(in) : u[k] \in Results(Phase, Memories)

\* Its work() on a stream, item by item.
LEMMA DqpskRun ==
  ASSUME NEW y, NEW forward \in BOOLEAN, NEW s0 \in Memories, NEW in \in Seq(Phase)
  PROVE  \E u : /\ DqpskTrace(y, forward, s0, in, u)
                /\ RunDqpsk(y, forward, s0, in) = u[Len(in)]
<1> DEFINE N == Len(in)
           X == Results(Phase, Memories)
           x0 == [out |-> << >>, state |-> s0]
           After(r, k) == LET next == DqpskStep(y, forward, r.state, in[k])
                          IN  [out |-> r.out \o next.out, state |-> next.state]
           h == [k \in 1 .. N |-> [r \in X |-> After(r, k)]]
           Body(f) == [k \in 0 .. N |-> IF k = 0 THEN x0 ELSE After(f[k - 1], k)]
           u == CHOOSE f : f = Body(f)
<1>1. N \in Nat /\ x0 \in X /\ \A k \in 1 .. N : in[k] \in Phase
  BY LenProperties DEF Results
<1>2. ASSUME NEW r \in X, NEW k \in 1 .. N PROVE After(r, k) \in X
  <2>1. r.out \in Seq(Phase) /\ r.state \in Memories
    BY DEF Results
  <2>2. PICK d : d = DqpskStep(y, forward, r.state, in[k])
    OBVIOUS
  <2>3. d.out \in Seq(Phase) /\ d.state \in Memories
    BY <1>1, <2>1, <2>2, DqpskType
  <2>4. r.out \o d.out \in Seq(Phase)
    BY <2>1, <2>3, Concatenated
  <2> QED BY <2>2, <2>3, <2>4 DEF Results
<1>3. RunDqpsk(y, forward, s0, in) = u[N]
  BY DEF RunDqpsk, Run
<1> HIDE DEF X, x0, After
<1>4. h \in [1 .. N -> [X -> X]]
  BY <1>2
<1> HIDE DEF h, N
<1>5. PICK g : Iterated(N, X, x0, h, g)
  BY <1>1, <1>4, Iterates
<1>6. g = Body(g)
  <2>1. g \in [0 .. N -> X] /\ g[0] = x0
    BY <1>5 DEF Iterated
  <2>2. ASSUME NEW k \in 1 .. N PROVE g[k] = After(g[k - 1], k)
    <3>1. g[k - 1] \in X /\ g[k] = h[k][g[k - 1]]
      BY <1>1, <1>5 DEF Iterated
    <3> QED BY <3>1 DEF h
  <2>3. \A k \in 0 .. N : g[k] = IF k = 0 THEN x0 ELSE After(g[k - 1], k)
    BY <1>1, <2>1, <2>2
  <2> QED BY <2>1, <2>3
<1>7. u = Body(u)
  <2> HIDE DEF Body
  <2> QED BY <1>6, Zenon
<1> HIDE DEF u
<1>8. u[0] = x0 /\ \A k \in 1 .. N : u[k] = After(u[k - 1], k)
  BY <1>1, <1>7
<1>9. \A k \in 0 .. N : u[k] \in X
  BY <1>1, <1>2, <1>8, Throughout
<1>10. DqpskTrace(y, forward, s0, in, u)
  BY <1>8, <1>9 DEF DqpskTrace, After, x0, X, N
<1> QED BY <1>3, <1>10 DEF N

\* A quarter turn taken back.
LEMMA TurnBack ==
  ASSUME NEW x \in Phase, NEW m \in Phase
  PROVE  /\ Turn(Turn(x + m) - m) = x
         /\ Turn(Turn(x + m) + Turn(-m)) = x
         /\ Turn(x + m) \in Phase /\ Turn(-m) \in Phase /\ Turn(x + 0) = x /\ Turn(x - 0) = x
<1>1. x \in {0, 1, 2, 3} /\ m \in {0, 1, 2, 3}
  BY DEF Phase
<1> QED BY <1>1 DEF Turn, Phase

\* What came d items before, and 0 if there is no such item.
Earlier(out, i, d) == IF i > d THEN out[i - d] ELSE 0

\* A frame through dqpsk_mapper_ff: each phase is the difference of what comes out and
\* what came out four symbols before, and the memory is as it was before the frame.
Differential(in, r) ==
  /\ r.state = FreshMemory
  /\ r.out \in Seq(Phase) /\ Len(r.out) = Len(in)
  /\ \A i \in 1 .. Len(in) : Turn(r.out[i] - Earlier(r.out, i, 4)) = in[i]

\* dqpsk_mapper_ff on the phases of a whole frame is differential.
LEMMA DqpskFrame ==
  ASSUME NEW y, NEW in \in Seq(Phase), in # << >>, y.nsym_frame = Len(in),
         NEW r, r = RunDqpsk(y, TRUE, FreshMemory, in)
  PROVE  Differential(in, r)
<1>1. FreshMemory \in Memories
  BY DEF FreshMemory, Memories, Memory, Phase
<1>2. PICK u : DqpskTrace(y, TRUE, FreshMemory, in, u) /\ r = u[Len(in)]
  <2>1. TRUE \in BOOLEAN
    OBVIOUS
  <2> QED BY <1>1, <2>1, DqpskRun
<1> DEFINE P(k) ==
      /\ Len(u[k].out) = k
      /\ \A i \in 1 .. k : Turn(u[k].out[i] - Earlier(u[k].out, i, 4)) = in[i]
      /\ k < Len(in) => /\ u[k].state.ctr = k
                        /\ \A j \in 1 .. 4 : u[k].state.mem[j] = Earlier(u[k].out, k + 1, j)
      /\ k = Len(in) => u[k].state = FreshMemory
<1>3. PICK N \in Nat \ {0} : N = Len(in)
  BY LenProperties, EmptySeq
<1>4. \A k \in 1 .. N : in[k] \in Phase
  BY <1>3, LenProperties
<1>5. P(0)
  BY <1>2, <1>3 DEF DqpskTrace, FreshMemory, Earlier
<1>6. ASSUME NEW k \in Nat, k + 1 <= N, P(k) PROVE P(k + 1)
  <2>1. u[k].out \in Seq(Phase) /\ u[k].state.mem \in Memory /\ u[k].state.ctr = k
        /\ \A j \in 1 .. 4 : u[k].state.mem[j] = Earlier(u[k].out, k + 1, j)
    BY <1>2, <1>3, <1>6 DEF DqpskTrace, Results, Memories
  <2>2. PICK o \in Seq(Phase) : o = u[k].out /\ Len(o) = k
    BY <1>6, <2>1
  <2>3. PICK m \in Memory : m = u[k].state.mem /\ \A j \in 1 .. 4 : m[j] = Earlier(o, k + 1, j)
    BY <2>1, <2>2
  <2>4. m[4] \in Phase
    <3>1. m \in Seq(Phase) /\ Len(m) = 4 /\ 4 \in 1 .. 4
      BY DEF Memory
    <3> QED BY <3>1, LenProperties
  <2>5. in[k + 1] \in Phase
    BY <1>4, <1>6
  <2>6. PICK x \in Phase : x = Turn(in[k + 1] + m[4])
    BY <2>4, <2>5, TurnBack
  <2>7. Turn(x - m[4]) = in[k + 1]
    BY <2>4, <2>5, <2>6, TurnBack
  <2>8. u[k + 1] = [out |-> o \o <<x>>, state |-> Remember(y, u[k].state, x)]
    <3>1. k + 1 \in 1 .. Len(in) /\ (k + 1) - 1 = k
      BY <1>3, <1>6
    <3> QED BY <1>2, <2>2, <2>3, <2>6, <3>1 DEF DqpskTrace, DqpskStep
  <2>9. PICK p : p = o \o <<x>>
    OBVIOUS
  <2>15. p \in Seq(Phase) /\ Len(p) = k + 1 /\ (\A i \in 1 .. k : p[i] = o[i]) /\ p[k + 1] = x
    <3>1. p \in Seq(Phase)
      BY <2>9, OneItemMore
    <3>2. Len(p) = k + 1
      BY <2>2, <2>9, OneItemMore
    <3>3. \A i \in 1 .. k : p[i] = o[i]
      BY <2>2, <2>9, OneItemMore
    <3>4. p[k + 1] = x
      <4>1. p[Len(o) + 1] = x
        BY <2>9, OneItemMore
      <4> QED BY <2>2, <4>1
    <3> QED BY <3>1, <3>2, <3>3, <3>4
  <2>10. u[k + 1].out = p
    BY <2>8, <2>9
  <2>11. ASSUME NEW i \in 1 .. k + 1 PROVE Turn(p[i] - Earlier(p, i, 4)) = in[i]
    <3>1. CASE i = k + 1
      <4>1. m[4] = Earlier(o, k + 1, 4)
        BY <2>3
      <4>2. Earlier(o, k + 1, 4) = Earlier(p, k + 1, 4)
        BY <2>15 DEF Earlier
      <4> QED BY <2>7, <2>15, <3>1, <4>1, <4>2
    <3>2. CASE i \in 1 .. k
      <4>1. p[i] = o[i] /\ Earlier(p, i, 4) = Earlier(o, i, 4)
        BY <2>15, <3>2 DEF Earlier
      <4> QED BY <1>6, <2>2, <3>2, <4>1
    <3> QED BY <3>1, <3>2
  <2>14. /\ Len(u[k + 1].out) = k + 1
         /\ \A i \in 1 .. k + 1 : Turn(u[k + 1].out[i] - Earlier(u[k + 1].out, i, 4)) = in[i]
    BY <2>15, <2>10, <2>11
  <2>12. CASE k + 1 < N
    <3>1. u[k + 1].state = [mem |-> PushFront(m, x), ctr |-> k + 1]
      BY <1>3, <2>1, <2>3, <2>8, <2>12 DEF Remember
    <3>2. PushFront(m, x)[1] = x /\ PushFront(m, x)[2] = m[1]
          /\ PushFront(m, x)[3] = m[2] /\ PushFront(m, x)[4] = m[3]
      BY PushFrontType
    <3>3. ASSUME NEW j \in 1 .. 4 PROVE PushFront(m, x)[j] = Earlier(p, k + 2, j)
      <4>1. CASE j = 1
        BY <2>15, <3>2, <4>1 DEF Earlier
      <4>2. CASE j # 1
        <5>1. PushFront(m, x)[j] = m[j - 1] /\ j - 1 \in 1 .. 4
          BY <3>2, <4>2
        <5>2. m[j - 1] = Earlier(o, k + 1, j - 1)
          BY <2>3, <5>1
        <5>3. Earlier(o, k + 1, j - 1) = Earlier(p, k + 2, j)
          BY <2>15, <4>2 DEF Earlier
        <5> QED BY <5>1, <5>2, <5>3
      <4> QED BY <4>1, <4>2
    <3>4. u[k + 1].state.ctr = k + 1
          /\ \A j \in 1 .. 4 : u[k + 1].state.mem[j] = Earlier(u[k + 1].out, (k + 1) + 1, j)
      <4>1. (k + 1) + 1 = k + 2
        OBVIOUS
      <4> QED BY <2>10, <3>1, <3>3, <4>1
    <3>5. k + 1 # Len(in)
      BY <1>3, <2>12
    <3> QED BY <2>14, <3>4, <3>5, Zenon
  <2>13. CASE k + 1 = N
    <3>1. u[k + 1].state = FreshMemory
      BY <1>3, <2>1, <2>8, <2>13 DEF Remember
    <3>2. ~ (k + 1 < Len(in))
      BY <1>3, <2>13
    <3> QED BY <2>14, <3>1, <3>2, Zenon
  <2> QED BY <1>6, <2>12, <2>13
<1> HIDE DEF P
<1> DEFINE S == {k \in Nat : k <= N => P(k)}
<1>7. Nat \subseteq S
  <2>1. 0 \in S
    BY <1>5
  <2>2. ASSUME NEW k \in Nat, k \in S PROVE k + 1 \in S
    BY <1>3, <1>6, <2>2
  <2> HIDE DEF S
  <2> QED BY <2>1, <2>2, InductiveSet
<1>8. P(N)
  BY <1>3, <1>7
<1>9. u[N].out \in Seq(Phase)
  BY <1>2, <1>3 DEF DqpskTrace, Results
<1> QED BY <1>2, <1>3, <1>8, <1>9 DEF P, Differential

-----------------------------------------------------------------------------
\* The parameters of a layer that the blocks in front of the air rely on.
Layered(y) == y.header \in Seq(Chip) /\ y.nsym_frame \in Nat \ {0}

\* A step of preamble_sfd_prefixer_ii puts out chips, and leaves a counter.
LEMMA PrefixerType ==
  ASSUME NEW y, Layered(y), NEW ctr \in Nat, NEW c \in Chip
  PROVE  /\ PrefixerStep(y, ctr, c).state \in Nat
         /\ PrefixerStep(y, ctr, c).out \in Seq(Chip)
<1>1. PICK h \in Seq(Chip) : h = y.header
  BY DEF Layered
<1>2. Len(h) \in Nat /\ \A i \in ctr + 1 .. Len(h) : h[i] \in Chip
  BY LenProperties
<1>3. SubSeq(h, ctr + 1, Len(h)) \in Seq(Chip)
  BY <1>2, ctr + 1 \in Int, Len(h) \in Int, SubSeqProperties
<1>4. PICK t : t = SubSeq(h, ctr + 1, Len(h)) \o <<c>>
  OBVIOUS
<1>5. t \in Seq(Chip)
  BY <1>3, <1>4, OneItemMore
<1>6. \A k \in Nat : k % y.nsym_frame \in Nat
  BY DEF Layered
<1>7. PrefixerStep(y, ctr, c).out = t
  BY <1>1, <1>4 DEF PrefixerStep
<1>8. PICK k \in Nat : k = IF ctr < Len(h) THEN Len(h) + 1 ELSE ctr + 1
  <2>1. (IF ctr < Len(h) THEN Len(h) + 1 ELSE ctr + 1) \in Nat
    BY <1>2
  <2> QED BY <2>1
<1>9. PrefixerStep(y, ctr, c).state = k % y.nsym_frame
  BY <1>1, <1>8 DEF PrefixerStep
<1> QED BY <1>5, <1>6, <1>7, <1>9

\* preamble_sfd_prefixer_ii on a stream.
RunPrefixer(y, s0, in) == Run(LAMBDA ctr, chip : PrefixerStep(y, ctr, chip), s0, in)

PrefixerTrace(y, s0, in, u) ==
  /\ u[0] = [out |-> << >>, state |-> s0]
  /\ \A k \in 1 .. Len(in) :
       LET next == PrefixerStep(y, u[k - 1].state, in[k])
       IN  u[k] = [out |-> u[k - 1].out \o next.out, state |-> next.state]
  /\ \A k \in 0 .. Len(in) : u[k] \in Results(Chip, Nat)

\* Its work() on a stream, item by item.
LEMMA PrefixerRun ==
  ASSUME NEW y, Layered(y), NEW s0 \in Nat, NEW in \in Seq(Chip)
  PROVE  \E u : /\ PrefixerTrace(y, s0, in, u)
                /\ RunPrefixer(y, s0, in) = u[Len(in)]
<1> DEFINE N == Len(in)
           X == Results(Chip, Nat)
           x0 == [out |-> << >>, state |-> s0]
           After(r, k) == LET next == PrefixerStep(y, r.state, in[k])
                          IN  [out |-> r.out \o next.out, state |-> next.state]
           h == [k \in 1 .. N |-> [r \in X |-> After(r, k)]]
           Body(f) == [k \in 0 .. N |-> IF k = 0 THEN x0 ELSE After(f[k - 1], k)]
           u == CHOOSE f : f = Body(f)
<1>1. N \in Nat /\ x0 \in X /\ \A k \in 1 .. N : in[k] \in Chip
  BY LenProperties DEF Results
<1>2. ASSUME NEW r \in X, NEW k \in 1 .. N PROVE After(r, k) \in X
  <2>1. r.out \in Seq(Chip) /\ r.state \in Nat
    BY DEF Results
  <2>2. PICK d : d = PrefixerStep(y, r.state, in[k])
    OBVIOUS
  <2>3. d.out \in Seq(Chip) /\ d.state \in Nat
    BY <1>1, <2>1, <2>2, PrefixerType
  <2>4. r.out \o d.out \in Seq(Chip)
    BY <2>1, <2>3, Concatenated
  <2> QED BY <2>2, <2>3, <2>4 DEF Results
<1>3. RunPrefixer(y, s0, in) = u[N]
  BY DEF RunPrefixer, Run
<1> HIDE DEF X, x0, After
<1>4. h \in [1 .. N -> [X -> X]]
  BY <1>2
<1> HIDE DEF h, N
<1>5. PICK g : Iterated(N, X, x0, h, g)
  BY <1>1, <1>4, Iterates
<1>6. g = Body(g)
  <2>1. g \in [0 .. N -> X] /\ g[0] = x0
    BY <1>5 DEF Iterated
  <2>2. ASSUME NEW k \in 1 .. N PROVE g[k] = After(g[k - 1], k)
    <3>1. g[k - 1] \in X /\ g[k] = h[k][g[k - 1]]
      BY <1>1, <1>5 DEF Iterated
    <3> QED BY <3>1 DEF h
  <2>3. \A k \in 0 .. N : g[k] = IF k = 0 THEN x0 ELSE After(g[k - 1], k)
    BY <1>1, <2>1, <2>2
  <2> QED BY <2>1, <2>3
<1>7. u = Body(u)
  <2> HIDE DEF Body
  <2> QED BY <1>6, Zenon
<1> HIDE DEF u
<1>8. u[0] = x0 /\ \A k \in 1 .. N : u[k] = After(u[k - 1], k)
  BY <1>1, <1>7
<1>9. \A k \in 0 .. N : u[k] \in X
  BY <1>1, <1>2, <1>8, Throughout
<1>10. PrefixerTrace(y, s0, in, u)
  BY <1>8, <1>9 DEF PrefixerTrace, After, x0, X, N
<1> QED BY <1>3, <1>10 DEF N

\* The delay chain of the reference keeps its length.
LEMMA ShiftedType ==
  ASSUME NEW m \in Memory, NEW x \in Phase
  PROVE  /\ Shifted(m, x) \in Memory /\ m[4] \in Phase
         /\ Shifted(m, x)[1] = x /\ Shifted(m, x)[4] = m[1]
<1>1. m \in Seq(Phase) /\ Len(m) = 4 /\ 1 \in 1 .. 4 /\ 4 \in 1 .. 4
  BY DEF Memory
<1>2. m[1] \in Phase /\ m[4] \in Phase
  BY <1>1, LenProperties
<1> QED BY <1>2 DEF Shifted, Memory

\* A step of mod_DQPSK().
LEMMA ModType ==
  ASSUME NEW m \in Memory, NEW x \in Phase
  PROVE  ModStep(m, x).state \in Memory /\ ModStep(m, x).out \in Seq(Phase)
<1>1. m[4] \in Phase /\ Turn(x + m[4]) \in Phase
  BY ShiftedType, TurnBack
<1> QED BY <1>1, ShiftedType DEF ModStep

\* A step of demod_DQPSK().
LEMMA DemodType ==
  ASSUME NEW m \in Memory, NEW x \in Phase
  PROVE  DemodStep(m, x).state \in Memory /\ DemodStep(m, x).out \in Seq(Phase)
<1>1. m[4] \in Phase /\ Turn(x + m[4]) \in Phase /\ Turn(-x) \in Phase
  BY ShiftedType, TurnBack
<1> QED BY <1>1, ShiftedType DEF DemodStep

\* mod_DQPSK() and demod_DQPSK() on the symbols of a frame.
RunMod(s0, in) == Run(ModStep, s0, in)

ModTrace(s0, in, u) ==
  /\ u[0] = [out |-> << >>, state |-> s0]
  /\ \A k \in 1 .. Len(in) :
       LET next == ModStep(u[k - 1].state, in[k])
       IN  u[k] = [out |-> u[k - 1].out \o next.out, state |-> next.state]
  /\ \A k \in 0 .. Len(in) : u[k] \in Results(Phase, Memory)

\* mod_DQPSK() of a frame, item by item.
LEMMA ModRun ==
  ASSUME NEW s0 \in Memory, NEW in \in Seq(Phase)
  PROVE  \E u : /\ ModTrace(s0, in, u)
                /\ RunMod(s0, in) = u[Len(in)]
<1> DEFINE N == Len(in)
           X == Results(Phase, Memory)
           x0 == [out |-> << >>, state |-> s0]
           After(r, k) == LET next == ModStep(r.state, in[k])
                          IN  [out |-> r.out \o next.out, state |-> next.state]
           h == [k \in 1 .. N |-> [r \in X |-> After(r, k)]]
           Body(f) == [k \in 0 .. N |-> IF k = 0 THEN x0 ELSE After(f[k - 1], k)]
           u == CHOOSE f : f = Body(f)
<1>1. N \in Nat /\ x0 \in X /\ \A k \in 1 .. N : in[k] \in Phase
  BY LenProperties DEF Results
<1>2. ASSUME NEW r \in X, NEW k \in 1 .. N PROVE After(r, k) \in X
  <2>1. r.out \in Seq(Phase) /\ r.state \in Memory
    BY DEF Results
  <2>2. PICK d : d = ModStep(r.state, in[k])
    OBVIOUS
  <2>3. d.out \in Seq(Phase) /\ d.state \in Memory
    BY <1>1, <2>1, <2>2, ModType
  <2>4. r.out \o d.out \in Seq(Phase)
    BY <2>1, <2>3, Concatenated
  <2> QED BY <2>2, <2>3, <2>4 DEF Results
<1>3. RunMod(s0, in) = u[N]
  BY DEF RunMod, Run
<1> HIDE DEF X, x0, After
<1>4. h \in [1 .. N -> [X -> X]]
  BY <1>2
<1> HIDE DEF h, N
<1>5. PICK g : Iterated(N, X, x0, h, g)
  BY <1>1, <1>4, Iterates
<1>6. g = Body(g)
  <2>1. g \in [0 .. N -> X] /\ g[0] = x0
    BY <1>5 DEF Iterated
  <2>2. ASSUME NEW k \in 1 .. N PROVE g[k] = After(g[k - 1], k)
    <3>1. g[k - 1] \in X /\ g[k] = h[k][g[k - 1]]
      BY <1>1, <1>5 DEF Iterated
    <3> QED BY <3>1 DEF h
  <2>3. \A k \in 0 .. N : g[k] = IF k = 0 THEN x0 ELSE After(g[k - 1], k)
    BY <1>1, <2>1, <2>2
  <2> QED BY <2>1, <2>3
<1>7. u = Body(u)
  <2> HIDE DEF Body
  <2> QED BY <1>6, Zenon
<1> HIDE DEF u
<1>8. u[0] = x0 /\ \A k \in 1 .. N : u[k] = After(u[k - 1], k)
  BY <1>1, <1>7
<1>9. \A k \in 0 .. N : u[k] \in X
  BY <1>1, <1>2, <1>8, Throughout
<1>10. ModTrace(s0, in, u)
  BY <1>8, <1>9 DEF ModTrace, After, x0, X, N
<1> QED BY <1>3, <1>10 DEF N

RunDemod(s0, in) == Run(DemodStep, s0, in)

DemodTrace(s0, in, u) ==
  /\ u[0] = [out |-> << >>, state |-> s0]
  /\ \A k \in 1 .. Len(in) :
       LET next == DemodStep(u[k - 1].state, in[k])
       IN  u[k] = [out |-> u[k - 1].out \o next.out, state |-> next.state]
  /\ \A k \in 0 .. Len(in) : u[k] \in Results(Phase, Memory)

\* demod_DQPSK() of a frame, item by item.
LEMMA DemodRun ==
  ASSUME NEW s0 \in Memory, NEW in \in Seq(Phase)
  PROVE  \E u : /\ DemodTrace(s0, in, u)
                /\ RunDemod(s0, in) = u[Len(in)]
<1> DEFINE N == Len(in)
           X == Results(Phase, Memory)
           x0 == [out |-> << >>, state |-> s0]
           After(r, k) == LET next == DemodStep(r.state, in[k])
                          IN  [out |-> r.out \o next.out, state |-> next.state]
           h == [k \in 1 .. N |-> [r \in X |-> After(r, k)]]
           Body(f) == [k \in 0 .. N |-> IF k = 0 THEN x0 ELSE After(f[k - 1], k)]
           u == CHOOSE f : f = Body(f)
<1>1. N \in Nat /\ x0 \in X /\ \A k \in 1 .. N : in[k] \in Phase
  BY LenProperties DEF Results
<1>2. ASSUME NEW r \in X, NEW k \in 1 .. N PROVE After(r, k) \in X
  <2>1. r.out \in Seq(Phase) /\ r.state \in Memory
    BY DEF Results
  <2>2. PICK d : d = DemodStep(r.state, in[k])
    OBVIOUS
  <2>3. d.out \in Seq(Phase) /\ d.state \in Memory
    BY <1>1, <2>1, <2>2, DemodType
  <2>4. r.out \o d.out \in Seq(Phase)
    BY <2>1, <2>3, Concatenated
  <2> QED BY <2>2, <2>3, <2>4 DEF Results
<1>3. RunDemod(s0, in) = u[N]
  BY DEF RunDemod, Run
<1> HIDE DEF X, x0, After
<1>4. h \in [1 .. N -> [X -> X]]
  BY <1>2
<1> HIDE DEF h, N
<1>5. PICK g : Iterated(N, X, x0, h, g)
  BY <1>1, <1>4, Iterates
<1>6. g = Body(g)
  <2>1. g \in [0 .. N -> X] /\ g[0] = x0
    BY <1>5 DEF Iterated
  <2>2. ASSUME NEW k \in 1 .. N PROVE g[k] = After(g[k - 1], k)
    <3>1. g[k - 1] \in X /\ g[k] = h[k][g[k - 1]]
      BY <1>1, <1>5 DEF Iterated
    <3> QED BY <3>1 DEF h
  <2>3. \A k \in 0 .. N : g[k] = IF k = 0 THEN x0 ELSE After(g[k - 1], k)
    BY <1>1, <2>1, <2>2
  <2> QED BY <2>1, <2>3
<1>7. u = Body(u)
  <2> HIDE DEF Body
  <2> QED BY <1>6, Zenon
<1> HIDE DEF u
<1>8. u[0] = x0 /\ \A k \in 1 .. N : u[k] = After(u[k - 1], k)
  BY <1>1, <1>7
<1>9. \A k \in 0 .. N : u[k] \in X
  BY <1>1, <1>2, <1>8, Throughout
<1>10. DemodTrace(s0, in, u)
  BY <1>8, <1>9 DEF DemodTrace, After, x0, X, N
<1> QED BY <1>3, <1>10 DEF N

-----------------------------------------------------------------------------
\* A frame through preamble_sfd_prefixer_ii: the header and the chips, and the counter is
\* where it was.
LEMMA PrefixerFrame ==
  ASSUME NEW y, Layered(y), NEW in \in Seq(Chip), in # << >>,
         y.nsym_frame = Len(y.header) + Len(in), NEW r, r = RunPrefixer(y, 0, in)
  PROVE  r.state = 0 /\ r.out = y.header \o in
<1>1. PICK u : PrefixerTrace(y, 0, in, u) /\ r = u[Len(in)]
  <2>1. 0 \in Nat
    OBVIOUS
  <2> QED BY <2>1, PrefixerRun
<1>2. PICK h \in Seq(Chip) : h = y.header
  BY DEF Layered
<1>3. PICK H \in Nat : H = Len(h)
  BY LenProperties
<1>4. PICK N \in Nat \ {0} : N = Len(in)
  BY LenProperties, EmptySeq
<1>5. PICK n \in Nat \ {0} : n = y.nsym_frame /\ n = H + N
  BY <1>2, <1>3, <1>4 DEF Layered
<1>6. /\ \A k \in 1 .. N : in[k] \in Chip
      /\ \A i \in 1 .. H : h[i] \in Chip
  BY <1>3, <1>4, LenProperties
<1> DEFINE P(k) ==
      /\ u[k].state = IF k = 0 THEN 0 ELSE (H + k) % n
      /\ u[k].out \in Seq(Chip)
      /\ k = 0 => u[k].out = << >>
      /\ k # 0 => /\ Len(u[k].out) = H + k
                  /\ \A i \in 1 .. H : u[k].out[i] = h[i]
                  /\ \A j \in 1 .. k : u[k].out[H + j] = in[j]
<1>7. P(0)
  BY <1>1 DEF PrefixerTrace
<1>8. ASSUME NEW k \in Nat, k + 1 <= N, P(k) PROVE P(k + 1)
  <2>1. PICK c \in Chip : c = in[k + 1]
    BY SMTT(60), <1>6, <1>8
  <2>2. PICK ctr \in Nat : ctr = u[k].state
    <3>1. (H + k) % n \in Nat /\ 0 \in Nat
      <4>1. PICK a \in Nat : a = H + k
        OBVIOUS
      <4>2. a % n \in 0 .. n - 1
        BY Remainders
      <4> QED BY <4>1, <4>2
    <3>2. u[k].state \in Nat
      BY <1>8, <3>1
    <3> QED BY <3>2
  <2>3. PICK o \in Seq(Chip) : o = u[k].out
    BY <1>8
  <2>4. PICK d : d = PrefixerStep(y, ctr, c)
    OBVIOUS
  <2>5. u[k + 1] = [out |-> o \o d.out, state |-> d.state]
    <3>1. k + 1 \in 1 .. Len(in) /\ (k + 1) - 1 = k
      BY <1>4, <1>8
    <3> QED BY <1>1, <2>1, <2>2, <2>3, <2>4, <3>1 DEF PrefixerTrace
  <2>6. PICK p : p = SubSeq(h, ctr + 1, H) \o <<c>>
    OBVIOUS
  <2>7. d.out = p /\ d.state = (IF ctr < H THEN H + 1 ELSE ctr + 1) % n
    BY <1>2, <1>3, <1>5, <2>4, <2>6 DEF PrefixerStep
  <2>8. PICK q : q = o \o p
    OBVIOUS
  <2>9. u[k + 1].out = q /\ u[k + 1].state = d.state
    BY <2>5, <2>7, <2>8
  <2>10. CASE k = 0
    <3>1. ctr = 0 /\ o = << >>
      BY <1>8, <2>2, <2>3, <2>10
    <3>2. PICK t \in Seq(Chip) : t = SubSeq(h, ctr + 1, H) /\ Len(t) = H
                                 /\ \A i \in 1 .. H : t[i] = h[i]
      <4>1. SubSeq(h, 1, H) \in Seq(Chip)
        BY <1>3, Stretch
      <4>2. Len(SubSeq(h, 1, H)) = H
        BY <1>3, Stretch
      <4>3. \A i \in 1 .. H : SubSeq(h, 1, H)[i] = h[i]
        BY <1>3, Stretch
      <4>4. SubSeq(h, ctr + 1, H) = SubSeq(h, 1, H)
        BY <3>1
      <4> QED BY <4>1, <4>2, <4>3, <4>4, Zenon
    <3>3. p \in Seq(Chip)
      BY <2>6, <3>2, OneItemMore
    <3>4. Len(p) = H + 1
      BY <2>6, <3>2, OneItemMore
    <3>5. \A i \in 1 .. H : p[i] = h[i]
      BY <2>6, <3>2, OneItemMore
    <3>6. p[H + 1] = c
      <4>1. p[Len(t) + 1] = c
        BY <2>6, <3>2, OneItemMore
      <4> QED BY <3>2, <4>1
    <3>7. q = p
      BY <2>8, <3>1, <3>3
    <3>8. d.state = (H + 1) % n
      <4>1. (IF ctr < H THEN H + 1 ELSE ctr + 1) = H + 1
        BY <3>1
      <4> QED BY <2>7, <4>1
    <3>9. u[k + 1].state = IF k + 1 = 0 THEN 0 ELSE (H + (k + 1)) % n
      BY <2>9, <2>10, <3>8
    <3>10. \A j \in 1 .. k + 1 : q[H + j] = in[j]
      BY <2>1, <2>10, <3>6, <3>7
    <3> QED BY <2>9, <2>10, <3>3, <3>4, <3>5, <3>7, <3>9, <3>10
  <2>11. CASE k # 0
    <3>1. ctr = H + k /\ Len(o) = H + k
      <4>1. H + k \in 0 .. n - 1
        BY <1>5, <1>8
      <4>2. (H + k) % n = H + k
        <5>1. PICK a \in Nat : a = H + k /\ a < n
          BY <4>1
        <5>2. a % n = a
          BY <5>1, Remainders
        <5> QED BY <5>1, <5>2
      <4> QED BY <1>8, <2>2, <2>3, <2>11, <4>2
    <3>2. SubSeq(h, ctr + 1, H) = << >>
      BY <2>11, <3>1, SubSeqEmpty
    <3>3. p = <<c>>
      <4>1. PICK t \in Seq(Chip) : t = <<c>>
        <5>1. <<c>> \in Seq(Chip)
          OBVIOUS
        <5> QED BY <5>1
      <4>2. << >> \o t = t
        BY ConcatEmptySeq
      <4> QED BY <2>6, <3>2, <4>1, <4>2
    <3>4. q = o \o <<c>>
      BY <2>8, <3>3
    <3>5. q \in Seq(Chip)
      BY <3>4, OneItemMore
    <3>6. Len(q) = H + (k + 1)
      <4>1. Len(q) = Len(o) + 1
        BY <3>4, OneItemMore
      <4> QED BY <3>1, <4>1
    <3>7. \A i \in 1 .. H + k : q[i] = o[i]
      <4>1. \A i \in 1 .. Len(o) : q[i] = o[i]
        BY <3>4, OneItemMore
      <4> QED BY <3>1, <4>1
    <3>8. q[H + (k + 1)] = c
      <4>1. q[Len(o) + 1] = c
        BY <3>4, OneItemMore
      <4> QED BY <3>1, <4>1
    <3>9. \A i \in 1 .. H : q[i] = h[i]
      BY <1>8, <2>3, <2>11, <3>7
    <3>10. \A j \in 1 .. k + 1 : q[H + j] = in[j]
      <4>1. \A j \in 1 .. k : q[H + j] = in[j]
        BY <1>8, <2>3, <2>11, <3>7
      <4>2. q[H + (k + 1)] = in[k + 1]
        BY <2>1, <3>8
      <4>3. ASSUME NEW j \in 1 .. k + 1 PROVE j \in 1 .. k \/ j = k + 1
        OBVIOUS
      <4> QED BY <4>1, <4>2, <4>3, Zenon
    <3>11. d.state = (H + (k + 1)) % n
      <4>1. (IF ctr < H THEN H + 1 ELSE ctr + 1) = H + (k + 1)
        BY <2>11, <3>1
      <4> QED BY <2>7, <4>1
    <3>12. u[k + 1].state = IF k + 1 = 0 THEN 0 ELSE (H + (k + 1)) % n
      BY <2>9, <3>11
    <3> QED BY <2>9, <3>5, <3>6, <3>9, <3>10, <3>12
  <2> QED BY <2>10, <2>11
<1> HIDE DEF P
<1> DEFINE S == {k \in Nat : k <= N => P(k)}
<1>9. Nat \subseteq S
  <2>1. 0 \in S
    BY <1>7
  <2>2. ASSUME NEW k \in Nat, k \in S PROVE k + 1 \in S
    BY <1>8, <2>2
  <2> HIDE DEF S
  <2> QED BY <2>1, <2>2, InductiveSet
<1>10. P(N)
  BY <1>9
<1>11. PICK o \in Seq(Chip) : o = u[N].out /\ Len(o) = H + N
                              /\ (\A i \in 1 .. H : o[i] = h[i])
                              /\ (\A j \in 1 .. N : o[H + j] = in[j])
  BY <1>10 DEF P
<1>12. u[N].state = 0
  <2>1. n % n = 0
    BY Remainders
  <2> QED BY <1>5, <1>10, <2>1 DEF P
<1>13. o = h \o in
  <2>1. PICK t : t = h \o in
    OBVIOUS
  <2>2. t \in Seq(Chip)
    BY <2>1, Concatenated
  <2>3. Len(t) = H + N
    BY <1>3, <1>4, <2>1, Concatenated
  <2>4. ASSUME NEW i \in 1 .. H + N PROVE t[i] = o[i]
    <3>1. CASE i <= H
      <4>1. t[i] = h[i]
        BY <1>3, <2>1, <3>1, Concatenated
      <4> QED BY <1>11, <3>1, <4>1
    <3>2. CASE i > H
      <4>1. PICK j \in 1 .. N : i = H + j
        <5>1. i - H \in 1 .. N /\ i = H + (i - H)
          BY <3>2
        <5> QED BY <5>1
      <4>2. t[Len(h) + j] = in[j]
        BY <1>4, <2>1, Concatenated
      <4> QED BY <1>3, <1>11, <4>1, <4>2
    <3> QED BY <3>1, <3>2
  <2>5. Len(o) = Len(t) /\ \A i \in 1 .. Len(o) : o[i] = t[i]
    BY <1>11, <2>3, <2>4
  <2> QED BY <2>1, <2>2, <2>5, SeqEqual
<1> QED BY <1>1, <1>2, <1>4, <1>11, <1>12, <1>13

\* A frame through mod_DQPSK(): the delay is two symbols.
LEMMA ModFrame ==
  ASSUME NEW in \in Seq(Phase), NEW r, r = RunMod(FreshMemory.mem, in)
  PROVE  /\ r.out \in Seq(Phase) /\ Len(r.out) = Len(in)
         /\ \A i \in 1 .. Len(in) : r.out[i] = Turn(in[i] + Earlier(r.out, i, 2))
<1>1. PICK u : ModTrace(FreshMemory.mem, in, u) /\ r = u[Len(in)]
  <2>1. FreshMemory.mem \in Memory
    BY DEF FreshMemory, Memory, Phase
  <2> QED BY <2>1, ModRun
<1>2. PICK N \in Nat : N = Len(in)
  BY LenProperties
<1>3. \A k \in 1 .. N : in[k] \in Phase
  BY <1>2, LenProperties
<1> DEFINE P(k) ==
      /\ u[k].out \in Seq(Phase) /\ Len(u[k].out) = k /\ u[k].state \in Memory
      /\ \A i \in 1 .. k : u[k].out[i] = Turn(in[i] + Earlier(u[k].out, i, 2))
      /\ u[k].state[1] = Earlier(u[k].out, k + 1, 1)
      /\ u[k].state[4] = Earlier(u[k].out, k + 1, 2)
<1>4. \A k \in 0 .. N : u[k].out \in Seq(Phase) /\ u[k].state \in Memory
  BY <1>1, <1>2 DEF ModTrace, Results
<1>5. P(0)
  <2>1. u[0] = [out |-> << >>, state |-> <<0, 0, 0, 0>>]
    BY <1>1 DEF ModTrace, FreshMemory
  <2>2. u[0].out = << >> /\ Len(u[0].out) = 0
    BY <2>1
  <2>3. u[0].state = <<0, 0, 0, 0>>
    BY <2>1
  <2>4. u[0].state[1] = 0 /\ u[0].state[4] = 0
    BY <2>3
  <2>5. Earlier(u[0].out, 0 + 1, 1) = 0 /\ Earlier(u[0].out, 0 + 1, 2) = 0
    BY DEF Earlier
  <2>6. u[0].out \in Seq(Phase) /\ u[0].state \in Memory
    BY <1>2, <1>4
  <2> QED BY <2>2, <2>4, <2>5, <2>6
<1>6. ASSUME NEW k \in Nat, k + 1 <= N, P(k) PROVE P(k + 1)
  <2>1. PICK o \in Seq(Phase) : o = u[k].out /\ Len(o) = k
    BY <1>6
  <2>2. PICK m \in Memory : m = u[k].state /\ m[1] = Earlier(o, k + 1, 1) /\ m[4] = Earlier(o, k + 1, 2)
    BY <1>6, <2>1
  <2>3. m[4] \in Phase
    BY ShiftedType, <1>3, <1>6
  <2>4. PICK z \in Phase : z = in[k + 1]
    BY <1>3, <1>6
  <2>5. PICK x \in Phase : x = Turn(z + m[4])
    BY <2>3, TurnBack
  <2>6. u[k + 1] = [out |-> o \o <<x>>, state |-> Shifted(m, x)]
    <3>1. k + 1 \in 1 .. Len(in) /\ (k + 1) - 1 = k
      BY <1>2, <1>6
    <3> QED BY <1>1, <2>1, <2>2, <2>4, <2>5, <3>1 DEF ModTrace, ModStep
  <2>7. PICK p : p = o \o <<x>>
    OBVIOUS
  <2>8. p \in Seq(Phase)
    BY <2>7, OneItemMore
  <2>9. Len(p) = k + 1
    <3>1. Len(p) = Len(o) + 1
      BY <2>7, OneItemMore
    <3> QED BY <2>1, <3>1
  <2>10. \A i \in 1 .. k : p[i] = o[i]
    <3>1. \A i \in 1 .. Len(o) : p[i] = o[i]
      BY <2>7, OneItemMore
    <3> QED BY <2>1, <3>1
  <2>11. p[k + 1] = x
    <3>1. p[Len(o) + 1] = x
      BY <2>7, OneItemMore
    <3> QED BY <2>1, <3>1
  <2>12. u[k + 1].out = p
    BY <2>6, <2>7
  <2>13. ASSUME NEW i \in 1 .. k + 1 PROVE p[i] = Turn(in[i] + Earlier(p, i, 2))
    <3>1. Earlier(p, i, 2) = Earlier(o, i, 2)
      BY <2>10 DEF Earlier
    <3>2. CASE i = k + 1
      BY <2>2, <2>4, <2>5, <2>11, <3>1, <3>2
    <3>3. CASE i \in 1 .. k
      BY <1>6, <2>1, <2>10, <3>1, <3>3
    <3> QED BY <3>2, <3>3
  <2>14. u[k + 1].state \in Memory /\ u[k + 1].state[1] = x /\ u[k + 1].state[4] = m[1]
    BY <2>6, ShiftedType
  <2>15. x = Earlier(p, (k + 1) + 1, 1)
    BY <2>11 DEF Earlier
  <2>16. m[1] = Earlier(p, (k + 1) + 1, 2)
    BY <2>2, <2>10 DEF Earlier
  <2> QED BY <2>8, <2>9, <2>12, <2>13, <2>14, <2>15, <2>16
<1> HIDE DEF P
<1> DEFINE S == {k \in Nat : k <= N => P(k)}
<1>7. Nat \subseteq S
  <2>1. 0 \in S
    BY <1>5
  <2>2. ASSUME NEW k \in Nat, k \in S PROVE k + 1 \in S
    BY <1>6, <2>2
  <2> HIDE DEF S
  <2> QED BY <2>1, <2>2, InductiveSet
<1>8. P(N)
  BY <1>7
<1> QED BY <1>1, <1>2, <1>8 DEF P

\* What d items before was turned by, backwards.
Undone(in, i, d) == IF i > d THEN Turn(-in[i - d]) ELSE 0

\* A frame through demod_DQPSK().
LEMMA DemodFrame ==
  ASSUME NEW in \in Seq(Phase), NEW r, r = RunDemod(FreshMemory.mem, in)
  PROVE  /\ r.out \in Seq(Phase) /\ Len(r.out) = Len(in)
         /\ \A i \in 1 .. Len(in) : r.out[i] = Turn(in[i] + Undone(in, i, 2))
<1>1. PICK u : DemodTrace(FreshMemory.mem, in, u) /\ r = u[Len(in)]
  <2>1. FreshMemory.mem \in Memory
    BY DEF FreshMemory, Memory, Phase
  <2> QED BY <2>1, DemodRun
<1>2. PICK N \in Nat : N = Len(in)
  BY LenProperties
<1>3. \A k \in 1 .. N : in[k] \in Phase
  BY <1>2, LenProperties
<1> DEFINE P(k) ==
      /\ u[k].out \in Seq(Phase) /\ Len(u[k].out) = k /\ u[k].state \in Memory
      /\ \A i \in 1 .. k : u[k].out[i] = Turn(in[i] + Undone(in, i, 2))
      /\ u[k].state[1] = Undone(in, k + 1, 1)
      /\ u[k].state[4] = Undone(in, k + 1, 2)
<1>4. \A k \in 0 .. N : u[k].out \in Seq(Phase) /\ u[k].state \in Memory
  BY <1>1, <1>2 DEF DemodTrace, Results
<1>5. P(0)
  <2>1. u[0] = [out |-> << >>, state |-> <<0, 0, 0, 0>>]
    BY <1>1 DEF DemodTrace, FreshMemory
  <2>2. u[0].out = << >> /\ Len(u[0].out) = 0
    BY <2>1
  <2>3. u[0].state = <<0, 0, 0, 0>>
    BY <2>1
  <2>4. u[0].state[1] = 0 /\ u[0].state[4] = 0
    BY <2>3
  <2>5. Undone(in, 0 + 1, 1) = 0 /\ Undone(in, 0 + 1, 2) = 0
    BY DEF Undone
  <2>6. u[0].out \in Seq(Phase) /\ u[0].state \in Memory
    BY <1>2, <1>4
  <2> QED BY <2>2, <2>4, <2>5, <2>6
<1>6. ASSUME NEW k \in Nat, k + 1 <= N, P(k) PROVE P(k + 1)
  <2>1. PICK o \in Seq(Phase) : o = u[k].out /\ Len(o) = k
    BY <1>6
  <2>2. PICK m \in Memory : m = u[k].state /\ m[1] = Undone(in, k + 1, 1) /\ m[4] = Undone(in, k + 1, 2)
    BY <1>6
  <2>3. m[4] \in Phase
    BY ShiftedType, <1>3, <1>6
  <2>4. PICK z \in Phase : z = in[k + 1]
    BY <1>3, <1>6
  <2>5. PICK x \in Phase : x = Turn(z + m[4])
    BY <2>3, TurnBack
  <2>6. u[k + 1] = [out |-> o \o <<x>>, state |-> Shifted(m, Turn(-z))]
    <3>1. k + 1 \in 1 .. Len(in) /\ (k + 1) - 1 = k
      BY <1>2, <1>6
    <3> QED BY <1>1, <2>1, <2>2, <2>4, <2>5, <3>1 DEF DemodTrace, DemodStep
  <2>7. PICK p : p = o \o <<x>>
    OBVIOUS
  <2>8. p \in Seq(Phase)
    BY <2>7, OneItemMore
  <2>9. Len(p) = k + 1
    <3>1. Len(p) = Len(o) + 1
      BY <2>7, OneItemMore
    <3> QED BY <2>1, <3>1
  <2>10. \A i \in 1 .. k : p[i] = o[i]
    <3>1. \A i \in 1 .. Len(o) : p[i] = o[i]
      BY <2>7, OneItemMore
    <3> QED BY <2>1, <3>1
  <2>11. p[k + 1] = x
    <3>1. p[Len(o) + 1] = x
      BY <2>7, OneItemMore
    <3> QED BY <2>1, <3>1
  <2>12. u[k + 1].out = p
    BY <2>6, <2>7
  <2>13. ASSUME NEW i \in 1 .. k + 1 PROVE p[i] = Turn(in[i] + Undone(in, i, 2))
    <3>2. CASE i = k + 1
      BY <2>2, <2>4, <2>5, <2>11, <3>2
    <3>3. CASE i \in 1 .. k
      BY <1>6, <2>1, <2>10, <3>3
    <3> QED BY <3>2, <3>3
  <2>14. u[k + 1].state \in Memory /\ u[k + 1].state[1] = Turn(-z) /\ u[k + 1].state[4] = m[1]
    <3>1. PICK w \in Phase : w = Turn(-z)
      BY TurnBack
    <3>2. Shifted(m, w) \in Memory /\ Shifted(m, w)[1] = w /\ Shifted(m, w)[4] = m[1]
      BY ShiftedType
    <3>3. u[k + 1].state = Shifted(m, w)
      BY <2>6, <3>1
    <3> QED BY <3>1, <3>2, <3>3
  <2>15. Turn(-z) = Undone(in, (k + 1) + 1, 1)
    BY <2>4 DEF Undone
  <2>16. m[1] = Undone(in, (k + 1) + 1, 2)
    BY <2>2 DEF Undone
  <2> QED BY <2>8, <2>9, <2>12, <2>13, <2>14, <2>15, <2>16
<1> HIDE DEF P
<1> DEFINE S == {k \in Nat : k <= N => P(k)}
<1>7. Nat \subseteq S
  <2>1. 0 \in S
    BY <1>5
  <2>2. ASSUME NEW k \in Nat, k \in S PROVE k + 1 \in S
    BY <1>6, <2>2
  <2> HIDE DEF S
  <2> QED BY <2>1, <2>2, InductiveSet
<1>8. P(N)
  BY <1>7
<1> QED BY <1>1, <1>2, <1>8 DEF P

\* demod_DQPSK() undoes mod_DQPSK().
LEMMA DemodOfMod ==
  ASSUME NEW in \in Seq(Phase)
  PROVE  RunDemod(FreshMemory.mem, RunMod(FreshMemory.mem, in).out).out = in
<1>1. PICK r : r = RunMod(FreshMemory.mem, in)
  OBVIOUS
<1>2. r.out \in Seq(Phase) /\ Len(r.out) = Len(in)
      /\ \A i \in 1 .. Len(in) : r.out[i] = Turn(in[i] + Earlier(r.out, i, 2))
  BY <1>1, ModFrame
<1>3. PICK o \in Seq(Phase) : o = r.out
  BY <1>2
<1>4. PICK d : d = RunDemod(FreshMemory.mem, o)
  OBVIOUS
<1>5. d.out \in Seq(Phase) /\ Len(d.out) = Len(o)
      /\ \A i \in 1 .. Len(o) : d.out[i] = Turn(o[i] + Undone(o, i, 2))
  BY <1>4, DemodFrame
<1>6. ASSUME NEW i \in 1 .. Len(in) PROVE d.out[i] = in[i]
  <2>1. in[i] \in Phase
    BY LenProperties
  <2>2. d.out[i] = Turn(Turn(in[i] + Earlier(o, i, 2)) + Undone(o, i, 2))
    BY <1>2, <1>3, <1>5
  <2>3. CASE i > 2
    <3>1. o[i - 2] \in Phase
      <4>1. i - 2 \in 1 .. Len(o)
        BY <1>2, <1>3, <2>3
      <4> QED BY <4>1, LenProperties
    <3> QED BY <2>1, <2>2, <2>3, <3>1, TurnBack DEF Earlier, Undone
  <2>4. CASE ~ (i > 2)
    <3>1. 0 \in Phase
      BY DEF Phase
    <3>2. Turn(in[i] + 0) = in[i]
      BY <2>1, <3>1, TurnBack
    <3> QED BY <2>2, <2>4, <3>2 DEF Earlier, Undone
  <2> QED BY <2>3, <2>4
<1>7. d.out = in
  <2>1. Len(d.out) = Len(in) /\ \A i \in 1 .. Len(d.out) : d.out[i] = in[i]
    BY <1>2, <1>3, <1>5, <1>6
  <2> QED BY <1>5, <2>1, SeqEqual
<1> QED BY <1>1, <1>3, <1>4, <1>7

-----------------------------------------------------------------------------
(***************************************************************************)
(* Codewords of three bits, and their way back.                            *)
(***************************************************************************)

\* bin2dec() of three bits.
LEMMA ThreeBits ==
  ASSUME NEW g \in Seq(Bit), Len(g) = 3
  PROVE  Bin2Dec(g) = 4 * g[1] + 2 * g[2] + g[3]
<1> DEFINE Body(f) == [i \in 0 .. Len(g) |-> IF i = 0 THEN 0 ELSE 2 * f[i - 1] + g[i]]
           u == CHOOSE f : f = Body(f)
           w == [i \in 0 .. 3 |-> IF i = 0 THEN 0 ELSE IF i = 1 THEN g[1]
                                  ELSE IF i = 2 THEN 2 * g[1] + g[2]
                                  ELSE 4 * g[1] + 2 * g[2] + g[3]]
<1>1. g[1] \in Bit /\ g[2] \in Bit /\ g[3] \in Bit
  BY LenProperties
<1>2. w = Body(w)
  <2>1. w[0] = 0 /\ w[1] = g[1] /\ w[2] = 2 * g[1] + g[2] /\ w[3] = 4 * g[1] + 2 * g[2] + g[3]
    OBVIOUS
  <2>2. w[1] = 2 * w[0] + g[1] /\ w[2] = 2 * w[1] + g[2] /\ w[3] = 2 * w[2] + g[3]
    BY <1>1, <2>1 DEF Bit
  <2>3. DOMAIN w = 0 .. 3
    OBVIOUS
  <2>5. w = [i \in 0 .. 3 |-> w[i]]
    OBVIOUS
  <2> HIDE DEF w
  <2>4. \A i \in 0 .. 3 : w[i] = IF i = 0 THEN 0 ELSE 2 * w[i - 1] + g[i]
    <3>1. ASSUME NEW i \in 0 .. 3 PROVE w[i] = IF i = 0 THEN 0 ELSE 2 * w[i - 1] + g[i]
      <4>1. i = 0 \/ i = 1 \/ i = 2 \/ i = 3
        OBVIOUS
      <4> QED BY <2>1, <2>2, <4>1
    <3> QED BY <3>1
  <2> QED BY <2>4, <2>5
<1>3. Bin2Dec(g) = u[3]
  BY DEF Bin2Dec
<1>4. u = Body(u)
  <2> HIDE DEF Body
  <2> QED BY <1>2, Zenon
<1> HIDE DEF u
<1>5. \A i \in 0 .. 3 : u[i] = IF i = 0 THEN 0 ELSE 2 * u[i - 1] + g[i]
  BY <1>4
<1>6. u[0] = 0 /\ u[1] = 2 * u[0] + g[1] /\ u[2] = 2 * u[1] + g[2] /\ u[3] = 2 * u[2] + g[3]
  BY <1>5
<1> QED BY <1>1, <1>3, <1>6 DEF Bit

\* dec2bin() of a number of three bits.
LEMMA BackToBits ==
  ASSUME NEW d \in Nat
  PROVE  Dec2Bin(d, 3) = <<((d \div 2) \div 2) % 2, (d \div 2) % 2, d % 2>>
<1> DEFINE Body(f) == [i \in 0 .. 3 |-> IF i = 0 THEN d ELSE f[i - 1] \div 2]
           u == CHOOSE f : f = Body(f)
           w == [i \in 0 .. 3 |-> IF i = 0 THEN d ELSE IF i = 1 THEN d \div 2
                                  ELSE IF i = 2 THEN (d \div 2) \div 2
                                  ELSE ((d \div 2) \div 2) \div 2]
<1>2. w = Body(w)
  <2>1. /\ w[0] = d /\ w[1] = d \div 2 /\ w[2] = (d \div 2) \div 2
        /\ w[3] = ((d \div 2) \div 2) \div 2
    OBVIOUS
  <2>2. w[1] = w[0] \div 2 /\ w[2] = w[1] \div 2 /\ w[3] = w[2] \div 2
    BY <2>1
  <2>5. w = [i \in 0 .. 3 |-> w[i]]
    OBVIOUS
  <2> HIDE DEF w
  <2>4. \A i \in 0 .. 3 : w[i] = IF i = 0 THEN d ELSE w[i - 1] \div 2
    <3>1. ASSUME NEW i \in 0 .. 3 PROVE w[i] = IF i = 0 THEN d ELSE w[i - 1] \div 2
      <4>1. i = 0 \/ i = 1 \/ i = 2 \/ i = 3
        OBVIOUS
      <4> QED BY <2>1, <2>2, <4>1
    <3> QED BY <3>1
  <2> QED BY <2>4, <2>5
<1>3. Dec2Bin(d, 3) = [i \in 1 .. 3 |-> u[3 - i] % 2]
  BY DEF Dec2Bin
<1>4. u = Body(u)
  <2> HIDE DEF Body
  <2> QED BY <1>2, Zenon
<1> HIDE DEF u
<1>5. \A i \in 0 .. 3 : u[i] = IF i = 0 THEN d ELSE u[i - 1] \div 2
  BY <1>4
<1>6. u[0] = d /\ u[1] = u[0] \div 2 /\ u[2] = u[1] \div 2
  BY <1>5
<1>7. [i \in 1 .. 3 |-> u[3 - i] % 2] = <<u[2] % 2, u[1] % 2, u[0] % 2>>
  OBVIOUS
<1> QED BY <1>3, <1>6, <1>7

\* A number of three bits.
LEMMA Octal ==
  ASSUME NEW a \in 0 .. 1, NEW b \in 0 .. 1, NEW c \in 0 .. 1, NEW d, d = 4 * a + 2 * b + c
  PROVE  /\ d \in 0 .. 7 /\ d % 2 = c
         /\ (d \div 2) \div 2 = a /\ (d \div 2) % 2 = b /\ a % 2 = a
<1>1. 2 * a + b \in Nat /\ d \in 0 .. 7 /\ d = 2 * (2 * a + b) + c
  OBVIOUS
<1>2. 2 \in Nat \ {0} /\ b \in 0 .. 2 - 1 /\ c \in 0 .. 2 - 1 /\ a < 2 /\ a \in Nat
  OBVIOUS
<1>3. d \div 2 = 2 * a + b /\ d % 2 = c
  BY <1>1, <1>2, Division
<1>4. (d \div 2) \div 2 = a /\ (d \div 2) % 2 = b
  BY <1>2, <1>3, Division
<1>5. a % 2 = a
  BY <1>2, Remainders
<1> QED BY <1>1, <1>3, <1>4, <1>5

\* dec2bin() undoes bin2dec().
LEMMA BitsAndBack ==
  ASSUME NEW g \in Seq(Bit), Len(g) = 3
  PROVE  Bin2Dec(g) \in 0 .. 7 /\ Dec2Bin(Bin2Dec(g), 3) = g
<1>1. PICK a \in 0 .. 1, b \in 0 .. 1, c \in 0 .. 1 : a = g[1] /\ b = g[2] /\ c = g[3]
  <2>1. g[1] \in Bit /\ g[2] \in Bit /\ g[3] \in Bit
    BY LenProperties
  <2>2. Bit = 0 .. 1
    BY DEF Bit
  <2> QED BY <2>1, <2>2
<1>2. PICK d : d = Bin2Dec(g)
  OBVIOUS
<1>3. d = 4 * a + 2 * b + c
  BY <1>1, <1>2, ThreeBits
<1>4. /\ d \in 0 .. 7 /\ d % 2 = c
      /\ (d \div 2) \div 2 = a /\ (d \div 2) % 2 = b /\ a % 2 = a
  BY <1>3, Octal
<1>5. Dec2Bin(d, 3) = <<((d \div 2) \div 2) % 2, (d \div 2) % 2, d % 2>>
  <2>1. d \in Nat
    BY <1>4
  <2> QED BY <2>1, BackToBits, Zenon
<1>6. Dec2Bin(d, 3) = <<a, b, c>>
  BY <1>4, <1>5
<1>7. g = <<g[1], g[2], g[3]>>
  OBVIOUS
<1> QED BY <1>1, <1>2, <1>4, <1>6, <1>7

\* Words at no distance are the same.
LEMMA Distances ==
  ASSUME NEW s \in Seq(Chip), NEW t \in Seq(Chip), Len(s) = Len(t)
  PROVE  /\ Distance(s, t) \in Nat
         /\ s = t => Distance(s, t) = 0
         /\ Distance(s, t) = 0 => s = t
<1> DEFINE At(i) == IF s[i] >= t[i] THEN s[i] - t[i] ELSE t[i] - s[i]
<1>1. PICK N \in Nat : N = Len(s) /\ N = Len(t) /\ DOMAIN s = 1 .. N
  BY LenProperties
<1>2. \A i \in 1 .. N : At(i) \in Nat /\ (s[i] = t[i] <=> At(i) = 0)
  <2>1. ASSUME NEW i \in 1 .. N PROVE At(i) \in Nat /\ (s[i] = t[i] <=> At(i) = 0)
    <3>1. PICK a \in Int, b \in Int : a = s[i] /\ b = t[i]
      <4>1. s[i] \in Chip /\ t[i] \in Chip
        BY <1>1, LenProperties
      <4> QED BY <4>1 DEF Chip
    <3> QED BY <3>1, SMTT(40)
  <2> QED BY <2>1
<1> HIDE DEF At
<1>3. PICK d : d = [i \in 1 .. N |-> At(i)]
  OBVIOUS
<1>4. Distance(s, t) = Sum(d)
  BY <1>1, <1>3 DEF Distance, At
<1>5. d \in Seq(Int)
  <2>1. \A i \in 1 .. N : At(i) \in Int
    BY <1>2
  <2> QED BY <1>3, <2>1, IsASeq
<1>8. Len(d) = N /\ \A i \in 1 .. N : d[i] = At(i)
  BY <1>3, <1>5
<1>6. Sum(d) \in Nat /\ \A i \in 1 .. N : d[i] <= Sum(d)
  <2>1. \A k \in 1 .. Len(d) : d[k] \in Nat
    BY <1>2, <1>8
  <2> QED BY <1>5, <1>8, <2>1, SumOfNaturals
<1>7. ASSUME s = t PROVE Sum(d) = 0
  <2>1. \A k \in 1 .. Len(d) : d[k] \in 0 .. 0
    BY <1>2, <1>7, <1>8
  <2>2. Sum(d) \in 0 .. Len(d) * 0
    BY <1>5, <2>1, SumBounded
  <2> QED BY <1>8, <2>2
<1>9. ASSUME Sum(d) = 0 PROVE s = t
  <2>1. ASSUME NEW i \in 1 .. N PROVE s[i] = t[i]
    <3>1. d[i] \in Nat /\ d[i] <= 0
      BY <1>2, <1>6, <1>8, <1>9
    <3> QED BY <1>2, <1>8, <3>1
  <2> QED BY <1>1, <2>1, SeqEqual
<1> QED BY <1>4, <1>6, <1>7, <1>9

\* A layer of eight codewords that differ, of one length.
CodeLen(y) == Len(y.codewords[1])
Coded(y) ==
  /\ y.bits_per_symbol = 3 /\ Len(y.codewords) = 8 /\ y.codewords \in Seq(Seq(Chip))
  /\ CodeLen(y) \in Nat \ {0}
  /\ \A i \in 1 .. 8 : Len(y.codewords[i]) = CodeLen(y)
  /\ \A i, j \in 1 .. 8 : y.codewords[i] = y.codewords[j] => i = j

\* The index of a codeword that nothing has spoilt.
LEMMA IndexOfCodeword ==
  ASSUME NEW y, Coded(y), NEW c \in 1 .. 8
  PROVE  HardIndex(y, y.codewords[c]) = c - 1
<1> DEFINE d == [n \in DOMAIN y.codewords |-> Distance(y.codewords[c], y.codewords[n])]
           Best(n) == /\ \A m \in DOMAIN d : d[n] <= d[m]
                      /\ \A m \in 1 .. n - 1 : d[n] < d[m]
<1>1. DOMAIN y.codewords = 1 .. 8 /\ \A n \in 1 .. 8 : y.codewords[n] \in Seq(Chip)
  <2>1. PICK w \in Seq(Seq(Chip)) : w = y.codewords /\ Len(w) = 8
    BY DEF Coded
  <2> QED BY <2>1, LenProperties
<1>2. \A n \in 1 .. 8 : /\ d[n] \in Nat
                        /\ n = c => d[n] = 0
                        /\ n # c => d[n] > 0
  <2>1. ASSUME NEW n \in 1 .. 8
        PROVE d[n] \in Nat /\ (n = c => d[n] = 0) /\ (n # c => d[n] > 0)
    <3>1. d[n] = Distance(y.codewords[c], y.codewords[n])
      BY <1>1
    <3>2. PICK s \in Seq(Chip), t \in Seq(Chip) :
            s = y.codewords[c] /\ t = y.codewords[n] /\ Len(s) = Len(t)
      BY <1>1 DEF Coded
    <3>3. Distance(s, t) \in Nat /\ (s = t => Distance(s, t) = 0) /\ (Distance(s, t) = 0 => s = t)
      BY <3>2, Distances
    <3>4. s = t <=> n = c
      BY <3>2 DEF Coded
    <3> HIDE DEF d
    <3> QED BY <3>1, <3>2, <3>3, <3>4
  <2> QED BY <2>1
<1>3. DOMAIN d = 1 .. 8
  BY <1>1
<1>4. HardIndex(y, y.codewords[c]) = (CHOOSE n \in DOMAIN d : Best(n)) - 1
  BY DEF HardIndex
<1> HIDE DEF d
<1>5. Best(c) /\ \A n \in 1 .. 8 : Best(n) => n = c
  BY <1>2, <1>3
<1> HIDE DEF Best
<1>6. (CHOOSE n \in DOMAIN d : Best(n)) = c
  BY <1>3, <1>5
<1> QED BY <1>4, <1>6

\* Whole groups of a sequence: N of n items each.
CutUp(S, s, n, N) ==
  /\ Groups(s, n) = N
  /\ \A k \in 1 .. N : /\ Group(s, n, k) \in Seq(S) /\ Len(Group(s, n, k)) = n
                       /\ \A j \in 1 .. n : Group(s, n, k)[j] = s[n * (k - 1) + j]
\* Group() cuts up a sequence of whole groups.
LEMMA GroupOf ==
  ASSUME NEW S, NEW s \in Seq(S), NEW n \in Nat \ {0}, NEW N \in Nat, Len(s) = n * N
  PROVE  CutUp(S, s, n, N)
<1>1. Groups(s, n) = N
  <2>1. 0 \in 0 .. n - 1 /\ n * N + 0 = n * N
    OBVIOUS
  <2>2. (n * N + 0) \div n = N
    BY <2>1, Division
  <2> QED BY <2>1, <2>2 DEF Groups
<1>2. ASSUME NEW k \in 1 .. N
      PROVE  /\ Group(s, n, k) \in Seq(S) /\ Len(Group(s, n, k)) = n
             /\ \A j \in 1 .. n : Group(s, n, k)[j] = s[n * (k - 1) + j]
  <2>1. PICK a \in Nat : a = n * (k - 1)
    <3>1. k - 1 \in Nat
      OBVIOUS
    <3>2. n * (k - 1) \in Nat
      BY <3>1
    <3> QED BY <3>2
  <2>2. (k - 1) * n + 1 = a + 1 /\ k * n = a + n
    BY <2>1
  <2>3. PICK g : g = SubSeq(s, a + 1, a + n)
    OBVIOUS
  <2>4. Group(s, n, k) = g
    BY <2>2, <2>3 DEF Group
  <2>5. a + n <= Len(s)
    <3>1. n \in 1 .. n
      OBVIOUS
    <3>2. a + n \in 1 .. n * N
      BY <2>1, <3>1, Places
    <3> QED BY <3>2
  <2>6. g \in Seq(S) /\ Len(g) = (a + n) - (a + 1) + 1
        /\ \A i \in 1 .. (a + n) - (a + 1) + 1 : g[i] = s[((a + 1) - 1) + i]
    <3>1. a + 1 \in Nat \ {0} /\ a + n \in Nat /\ a + 1 <= (a + n) + 1
      OBVIOUS
    <3> QED BY <2>3, <2>5, <3>1, Stretch
  <2>7. (a + n) - (a + 1) + 1 = n /\ (a + 1) - 1 = a
    OBVIOUS
  <2> QED BY <2>1, <2>4, <2>6, <2>7
<1> QED BY <1>1, <1>2 DEF CutUp

\* codeword_mapper_bi on whole groups of bits, with codewords of m chips.
Spelt(y, m, N, s, c) ==
  /\ c \in Seq(Chip) /\ Len(c) = m * N
  /\ \A k \in 1 .. N : \A j \in 1 .. m :
       c[m * (k - 1) + j] = y.codewords[Bin2Dec(Group(s, 3, k)) + 1][j]
\* codeword_mapper_bi replaces every group of bits by its codeword.
LEMMA MapperAt ==
  ASSUME NEW y, Coded(y), NEW N \in Nat, NEW s \in Seq(Bit), Len(s) = 3 * N
  PROVE  Spelt(y, CodeLen(y), N, s, CodewordMapper(y, s))
<1>1. PICK m \in Nat \ {0} : m = CodeLen(y)
  BY DEF Coded
<1>2. PICK w : w = y.codewords
  OBVIOUS
<1>11. PICK c : c = CodewordMapper(y, s)
  OBVIOUS
<1>3. /\ Groups(s, 3) = N
      /\ \A k \in 1 .. N : Group(s, 3, k) \in Seq(Bit) /\ Len(Group(s, 3, k)) = 3
  <2>1. PICK n \in Nat \ {0} : n = 3
    OBVIOUS
  <2>2. Len(s) = n * N
    BY <2>1
  <2>3. CutUp(Bit, s, n, N)
    BY <2>2, GroupOf
  <2> QED BY <2>1, <2>3 DEF CutUp
<1> DEFINE Word(k) == w[Bin2Dec(Group(s, 3, k)) + 1]
<1>4. c = [i \in 1 .. m * N |-> [k \in 1 .. N |-> Word(k)][(i - 1) \div m + 1][((i - 1) % m) + 1]]
  <2>1. c = MapGroups(LAMBDA g : w[Bin2Dec(g) + 1], s, 3, m)
    BY <1>1, <1>2, <1>11 DEF CodewordMapper, CodeLen, Coded
  <2>2. c = [i \in 1 .. m * Groups(s, 3) |->
               [k \in 1 .. Groups(s, 3) |-> Word(k)][(i - 1) \div m + 1][((i - 1) % m) + 1]]
    BY <2>1 DEF MapGroups
  <2>3. Groups(s, 3) = N
    BY <1>3
  <2> HIDE DEF Word
  <2> QED BY <2>2, <2>3, SMTT(40)
<1>5. \A k \in 1 .. N : Word(k) \in Seq(Chip) /\ Len(Word(k)) = m
  <2>1. ASSUME NEW k \in 1 .. N PROVE Word(k) \in Seq(Chip) /\ Len(Word(k)) = m
    <3>1. Bin2Dec(Group(s, 3, k)) \in 0 .. 7
      BY <1>3, BitsAndBack
    <3>2. PICK d \in 1 .. 8 : d = Bin2Dec(Group(s, 3, k)) + 1
      BY <3>1
    <3>3. w \in Seq(Seq(Chip)) /\ Len(w) = 8 /\ Len(w[d]) = m
      BY <1>1, <1>2 DEF Coded
    <3>4. w[d] \in Seq(Chip)
      BY <3>3, LenProperties
    <3> QED BY <3>2, <3>3, <3>4
  <2> QED BY <2>1
<1> HIDE DEF Word
<1>6. ASSUME NEW k \in 1 .. N, NEW j \in 1 .. m
      PROVE  m * (k - 1) + j \in 1 .. m * N /\ c[m * (k - 1) + j] = Word(k)[j]
  <2>1. PICK i : i = m * (k - 1) + j
    OBVIOUS
  <2>2. i \in 1 .. m * N /\ (i - 1) \div m + 1 = k /\ ((i - 1) % m) + 1 = j
    BY <2>1, Places
  <2>3. c[i] = [l \in 1 .. N |-> Word(l)][k][j]
    BY <1>4, <2>2
  <2> QED BY <2>1, <2>2, <2>3
<1>7. ASSUME NEW i \in 1 .. m * N PROVE c[i] \in Chip
  <2>1. PICK k \in 1 .. N : \E j \in 1 .. m : i = m * (k - 1) + j
    BY PlaceOf
  <2>3. PICK j \in 1 .. m : i = m * (k - 1) + j
    BY <2>1
  <2>2. c[i] = Word(k)[j] /\ Word(k) \in Seq(Chip) /\ Len(Word(k)) = m
    BY <1>5, <1>6, <2>3
  <2> QED BY <2>2, LenProperties
<1>8. m * N \in Nat
  OBVIOUS
<1>9. c \in Seq(Chip) /\ Len(c) = m * N
  <2>1. c = [i \in 1 .. m * N |-> c[i]]
    BY <1>4
  <2>2. [i \in 1 .. m * N |-> c[i]] \in Seq(Chip)
    BY <1>7, <1>8, IsASeq
  <2>3. c \in Seq(Chip) /\ DOMAIN c = 1 .. m * N
    BY <2>1, <2>2
  <2> QED BY <1>8, <2>3, LenProperties
<1>10. \A k \in 1 .. N : \A j \in 1 .. m : c[m * (k - 1) + j] = w[Bin2Dec(Group(s, 3, k)) + 1][j]
  BY <1>6 DEF Word
<1> QED BY <1>1, <1>2, <1>9, <1>10, <1>11 DEF Spelt

\* codewords_to_bits() gives back what codeword_mapper_bi was given.
LEMMA DemapperUndoesMapper ==
  ASSUME NEW y, Coded(y), NEW N \in Nat, NEW s \in Seq(Bit), Len(s) = 3 * N
  PROVE  HardDemapper(y, CodewordMapper(y, s)) = s
<1>1. PICK m \in Nat \ {0} : m = CodeLen(y)
  BY DEF Coded
<1>2. PICK c : c = CodewordMapper(y, s)
  OBVIOUS
<1>3. /\ c \in Seq(Chip) /\ Len(c) = m * N
      /\ \A k \in 1 .. N : \A j \in 1 .. m :
           c[m * (k - 1) + j] = y.codewords[Bin2Dec(Group(s, 3, k)) + 1][j]
  <2>1. Spelt(y, m, N, s, c)
    BY <1>1, <1>2, MapperAt
  <2> QED BY <2>1 DEF Spelt
<1>4. PICK n \in Nat \ {0} : n = 3
  OBVIOUS
<1>5. \A k \in 1 .. N : /\ Group(s, 3, k) \in Seq(Bit) /\ Len(Group(s, 3, k)) = 3
                        /\ \A j \in 1 .. 3 : Group(s, 3, k)[j] = s[3 * (k - 1) + j]
  <2>1. Len(s) = n * N
    BY <1>4
  <2>2. CutUp(Bit, s, n, N)
    BY <2>1, GroupOf
  <2> QED BY <1>4, <2>2 DEF CutUp
<1>6. /\ Groups(c, m) = N
      /\ \A k \in 1 .. N : /\ Group(c, m, k) \in Seq(Chip) /\ Len(Group(c, m, k)) = m
                           /\ \A j \in 1 .. m : Group(c, m, k)[j] = c[m * (k - 1) + j]
  <2>1. CutUp(Chip, c, m, N)
    BY <1>3, GroupOf
  <2> QED BY <2>1 DEF CutUp
<1> DEFINE Bits(g) == Dec2Bin(HardIndex(y, g), 3)
<1>7. ASSUME NEW k \in 1 .. N PROVE Bits(Group(c, m, k)) = Group(s, 3, k)
  <2>1. PICK g \in Seq(Bit) : g = Group(s, 3, k) /\ Len(g) = 3
    BY <1>5
  <2>2. Bin2Dec(g) \in 0 .. 7 /\ Dec2Bin(Bin2Dec(g), 3) = g
    BY <2>1, BitsAndBack
  <2>3. PICK d \in 1 .. 8 : d = Bin2Dec(g) + 1
    BY <2>2
  <2>4. PICK w \in Seq(Chip) : w = y.codewords[d] /\ Len(w) = m
    <3>1. PICK t \in Seq(Seq(Chip)) : t = y.codewords /\ Len(t) = 8
      BY DEF Coded
    <3>2. t[d] \in Seq(Chip)
      BY <3>1, LenProperties
    <3>3. Len(y.codewords[d]) = m
      BY <1>1 DEF Coded
    <3> QED BY <3>1, <3>2, <3>3
  <2>5. PICK h \in Seq(Chip) : h = Group(c, m, k) /\ Len(h) = m
    BY <1>6
  <2>6. \A j \in 1 .. m : h[j] = w[j]
    <3>1. \A j \in 1 .. m : Group(c, m, k)[j] = c[m * (k - 1) + j]
      BY <1>6
    <3>2. \A j \in 1 .. m : c[m * (k - 1) + j] = y.codewords[Bin2Dec(Group(s, 3, k)) + 1][j]
      BY <1>3
    <3>3. \A j \in 1 .. m : Group(c, m, k)[j] = y.codewords[Bin2Dec(Group(s, 3, k)) + 1][j]
      BY <3>1, <3>2, Zenon
    <3> QED BY <2>1, <2>3, <2>4, <2>5, <3>3, Zenon
  <2>7. h = w
    BY <2>4, <2>5, <2>6, SeqEqual
  <2>8. HardIndex(y, w) = d - 1
    BY <2>4, IndexOfCodeword
  <2>9. HardIndex(y, h) = Bin2Dec(g)
    <3>1. Bin2Dec(g) \in Int /\ d - 1 = Bin2Dec(g)
      BY <2>2, <2>3, SMTT(40)
    <3> QED BY <2>7, <2>8, <3>1
  <2> QED BY <2>1, <2>2, <2>5, <2>9
<1>8. PICK b : b = HardDemapper(y, c)
  OBVIOUS
<1>9. b = [i \in 1 .. 3 * N |-> [k \in 1 .. N |-> Group(s, 3, k)][(i - 1) \div 3 + 1][((i - 1) % 3) + 1]]
  <2>1. b = MapGroups(LAMBDA g : Bits(g), c, m, 3)
    BY <1>1, <1>8 DEF HardDemapper, CodeLen, Coded
  <2>2. b = [i \in 1 .. 3 * N |-> [k \in 1 .. N |-> Bits(Group(c, m, k))][(i - 1) \div 3 + 1][((i - 1) % 3) + 1]]
    BY <1>6, <2>1 DEF MapGroups
  <2>3. [k \in 1 .. N |-> Bits(Group(c, m, k))] = [k \in 1 .. N |-> Group(s, 3, k)]
    <3> HIDE DEF Bits
    <3> QED BY <1>7
  <2> QED BY <2>2, <2>3
<1>10. ASSUME NEW i \in 1 .. 3 * N PROVE b[i] = s[i]
  <2>1. i \in 1 .. n * N
    BY <1>4
  <2>2. PICK k \in 1 .. N : \E j \in 1 .. n : i = n * (k - 1) + j
    BY <2>1, PlaceOf
  <2>3. PICK j \in 1 .. n : i = n * (k - 1) + j
    BY <2>2
  <2>4. (i - 1) \div n + 1 = k /\ ((i - 1) % n) + 1 = j
    BY <2>3, Places
  <2>5. b[i] = [l \in 1 .. N |-> Group(s, 3, l)][(i - 1) \div 3 + 1][((i - 1) % 3) + 1]
    BY <1>9
  <2>6. b[i] = [l \in 1 .. N |-> Group(s, 3, l)][k][j]
    BY <1>4, <2>4, <2>5
  <2>7. b[i] = Group(s, 3, k)[j]
    BY <2>6
  <2> QED BY <1>4, <1>5, <2>3, <2>7
<1>11. DOMAIN b = DOMAIN s
  <2>1. DOMAIN b = 1 .. 3 * N
    BY <1>9
  <2> QED BY <2>1, LenProperties
<1>12. b = [i \in DOMAIN b |-> b[i]] /\ s = [i \in DOMAIN s |-> s[i]]
  <2>1. b = [i \in DOMAIN b |-> b[i]]
    BY <1>9
  <2> QED BY <2>1, LenProperties
<1>13. DOMAIN s = 1 .. 3 * N
  BY LenProperties
<1> QED BY <1>2, <1>8, <1>10, <1>11, <1>12, <1>13

\* The two streams of a sequence of even length, and the sequence they make up.
Half(S, h, s, port, d) ==
  d \in Seq(S) /\ Len(d) = h /\ \A i \in 1 .. h : d[i] = s[2 * i - 1 + port]
\* What deinterleave gives one of its ports.
LEMMA Halves ==
  ASSUME NEW S, NEW h \in Nat, NEW s \in Seq(S), Len(s) = 2 * h, NEW port \in {0, 1}
  PROVE  Half(S, h, s, port, Deinterleave(s, port))
<1>5. PICK d : d = Deinterleave(s, port)
  OBVIOUS
<1>1. (2 * h + 1 - port) \div 2 = h
  <2>1. 2 * h + 1 - port = 2 * h + (1 - port) /\ 1 - port \in 0 .. 2 - 1 /\ 2 \in Nat \ {0}
    BY port \in {0, 1}
  <2>2. (2 * h + (1 - port)) \div 2 = h
    BY <2>1, Division
  <2> QED BY <2>1, <2>2
<1>2. d = [i \in 1 .. h |-> s[2 * i - 1 + port]]
  BY <1>1, <1>5 DEF Deinterleave
<1>3. \A i \in 1 .. h : s[2 * i - 1 + port] \in S
  <2>1. ASSUME NEW i \in 1 .. h PROVE 2 * i - 1 + port \in 1 .. Len(s)
    BY port \in {0, 1}
  <2> QED BY <2>1, LenProperties
<1>4. d \in Seq(S)
  BY <1>2, <1>3, IsASeq
<1> QED BY <1>2, <1>4, <1>5 DEF Half

\* interleave puts together again what deinterleave has taken apart.
LEMMA WholeOfHalves ==
  ASSUME NEW S, NEW h \in Nat, NEW s \in Seq(S), Len(s) = 2 * h
  PROVE  Interleave(Deinterleave(s, 0), Deinterleave(s, 1)) = s
<1>1. PICK d : d = Deinterleave(s, 0)
  OBVIOUS
<1>2. PICK e : e = Deinterleave(s, 1)
  OBVIOUS
<1>3. Len(d) = h /\ \A i \in 1 .. h : d[i] = s[2 * i - 1 + 0]
  <2>1. Half(S, h, s, 0, d)
    BY <1>1, Halves
  <2> QED BY <2>1 DEF Half
<1>4. Len(e) = h /\ \A i \in 1 .. h : e[i] = s[2 * i - 1 + 1]
  <2>1. Half(S, h, s, 1, e)
    BY <1>2, Halves
  <2> QED BY <2>1 DEF Half
<1>5. Interleave(d, e) = [i \in 1 .. 2 * h |-> IF i % 2 = 1 THEN d[(i + 1) \div 2] ELSE e[i \div 2]]
  BY <1>3 DEF Interleave
<1>6. ASSUME NEW i \in 1 .. 2 * h
      PROVE (IF i % 2 = 1 THEN d[(i + 1) \div 2] ELSE e[i \div 2]) = s[i]
  <2>1. PICK k \in Nat, r \in 0 .. 1 : i = 2 * k + r
    <3>1. i \div 2 \in Nat /\ i % 2 \in 0 .. 1 /\ i = 2 * (i \div 2) + (i % 2)
      OBVIOUS
    <3> QED BY <3>1
  <2>2. r \in 0 .. 2 - 1 /\ 2 \in Nat \ {0}
    OBVIOUS
  <2>3. i % 2 = r /\ i \div 2 = k
    BY <2>1, <2>2, Division
  <2>4. CASE r = 1
    <3>1. i + 1 = 2 * (k + 1) + 0 /\ 0 \in 0 .. 2 - 1 /\ k + 1 \in Nat
      BY <2>1, <2>4
    <3>2. (2 * (k + 1) + 0) \div 2 = k + 1
      BY <2>2, <3>1, Division
    <3>3. (i + 1) \div 2 = k + 1
      BY <3>1, <3>2
    <3>4. k + 1 \in 1 .. h /\ 2 * (k + 1) - 1 + 0 = i
      BY <2>1, <2>4
    <3>5. d[k + 1] = s[2 * (k + 1) - 1 + 0]
      BY <1>3, <3>4
    <3> QED BY <2>3, <2>4, <3>3, <3>4, <3>5
  <2>5. CASE r = 0
    <3>1. k \in 1 .. h /\ 2 * k - 1 + 1 = i
      BY <2>1, <2>5
    <3>2. e[k] = s[2 * k - 1 + 1]
      BY <1>4, <3>1
    <3> QED BY <2>3, <2>5, <3>1, <3>2
  <2> QED BY <2>4, <2>5
<1>7. s = [i \in 1 .. 2 * h |-> s[i]]
  BY LenProperties
<1> QED BY <1>1, <1>2, <1>5, <1>6, <1>7

\* The four symbols of QPSK.
LEMMA FourPhases ==
  ASSUME NEW i \in Chip, NEW q \in Chip
  PROVE  /\ QpskPhase(i, q) \in Phase
         /\ QpskI(QpskPhase(i, q)) = i /\ QpskQ(QpskPhase(i, q)) = q
<1>1. (i = 1 \/ i = -1) /\ (q = 1 \/ q = -1)
  BY DEF Chip
<1> QED BY <1>1 DEF QpskPhase, QpskI, QpskQ, Phase

-----------------------------------------------------------------------------
(***************************************************************************)
(* css_mod and css_demod on a frame.                                       *)
(***************************************************************************)

\* A layer of the fast rate whose packets need no zeros, and the bits of a packet, n
\* groups of three in each stream.
Unpadded(y) ==
  /\ Coded(y) /\ Layered(y)
  /\ ~ y.slow /\ y.intlv_seq = << >> /\ y.padded_zeros = 0
  /\ y.phr \in Seq(Bit) /\ Len(y.phr) = PhrLen
Packed(y, bits, n) ==
  bits \in Seq(Bit) /\ Len(bits) = 8 * y.size /\ PhrLen + Len(bits) = 6 * n /\ n \in Nat

\* The chips of one stream, behind the PHY header and before the frame's.
PortChips(y, bits, port) == CodewordMapper(y, Deinterleave(y.phr \o bits, port))
Framed(y, bits, port) == y.header \o PortChips(y, bits, port)

\* The bits of a packet give whole codewords on each port, which the hard demapper undoes.
LEMMA FrameOfPackets ==
  ASSUME NEW y, NEW bits, NEW n, Unpadded(y), Packed(y, bits, n), NEW port \in {0, 1}
  PROVE  /\ Half(Bit, 3 * n, y.phr \o bits, port, Deinterleave(y.phr \o bits, port))
         /\ PortChips(y, bits, port) \in Seq(Chip)
         /\ Len(PortChips(y, bits, port)) = CodeLen(y) * n
         /\ HardDemapper(y, PortChips(y, bits, port)) = Deinterleave(y.phr \o bits, port)
<1>1. PICK s \in Seq(Bit) : s = y.phr \o bits /\ Len(s) = 2 * (3 * n)
  <2>1. y.phr \in Seq(Bit) /\ bits \in Seq(Bit) /\ n \in Nat /\ Len(y.phr) + Len(bits) = 6 * n
    BY DEF Unpadded, Packed
  <2>2. y.phr \o bits \in Seq(Bit) /\ Len(y.phr \o bits) = Len(y.phr) + Len(bits)
    BY <2>1, Concatenated
  <2>3. 6 * n = 2 * (3 * n)
    BY <2>1
  <2>4. Len(y.phr \o bits) = 2 * (3 * n)
    BY <2>1, <2>2, <2>3
  <2> QED BY <2>2, <2>4
<1>2. n \in Nat /\ 3 * n \in Nat
  BY DEF Packed
<1>3. PICK d : d = Deinterleave(s, port)
  OBVIOUS
<1>4. Half(Bit, 3 * n, s, port, d)
  BY <1>1, <1>2, <1>3, Halves
<1>5. d \in Seq(Bit) /\ Len(d) = 3 * n
  BY <1>4 DEF Half
<1>6. Coded(y)
  BY DEF Unpadded
<1>7. Spelt(y, CodeLen(y), n, d, CodewordMapper(y, d)) /\ HardDemapper(y, CodewordMapper(y, d)) = d
  BY <1>2, <1>5, <1>6, MapperAt, DemapperUndoesMapper
<1> QED BY <1>1, <1>3, <1>4, <1>7 DEF PortChips, Spelt

\* mod_QPSK() of a frame.
LEMMA ReferenceFrame ==
  ASSUME NEW y, NEW bits, NEW n, Unpadded(y), Packed(y, bits, n)
  PROVE  FrameQpsk(y, bits) = [k \in DOMAIN Framed(y, bits, 0) |->
                                 QpskPhase(Framed(y, bits, 0)[k], Framed(y, bits, 1)[k])]
<1>1. ASSUME NEW s \in Seq(Bit) PROVE PadZerosRef(y, s) = s
  <2>1. y.padded_zeros = 0
    BY DEF Unpadded
  <2>2. PadZerosRef(y, s) = s \o [i \in 1 .. 0 |-> 0]
    BY <2>1 DEF PadZerosRef
  <2>3. [i \in 1 .. 0 |-> 0] = << >>
    OBVIOUS
  <2> QED BY <2>2, <2>3
<1>2. ASSUME NEW p \in {0, 1}
      PROVE  /\ PortBits(y, bits, p) = Deinterleave(y.phr \o bits, p)
             /\ Len(PortBits(y, bits, p)) = 3 * n
  <2>1. PICK d : d = Deinterleave(y.phr \o bits, p)
    OBVIOUS
  <2>2. d \in Seq(Bit) /\ Len(d) = 3 * n
    BY <2>1, FrameOfPackets DEF Half
  <2> QED BY <1>1, <2>1, <2>2 DEF PortBits
<1>3. ASSUME NEW p \in {0, 1} PROVE FrameChips(y, PortBits(y, bits, p)) = Framed(y, bits, p)
  BY ZenonT(30), <1>2 DEF FrameChips, Interleaver, Unpadded, Framed, PortChips
<1>4. ASSUME NEW p \in {0, 1} PROVE Fits(y, PortBits(y, bits, p))
  <2>1. y.bits_per_symbol = 3 /\ ~ y.slow
    BY DEF Unpadded, Coded
  <2>2. (3 * n) % 3 = 0
    <3>1. PICK m \in Nat \ {0} : m = 3
      OBVIOUS
    <3>2. n \in Nat /\ 0 \in 0 .. m - 1
      BY DEF Packed
    <3>3. (m * n + 0) % m = 0
      BY <3>2, Division
    <3> QED BY <3>1, <3>2, <3>3
  <2> QED BY <1>2, <2>1, <2>2 DEF Fits
<1>5. Len(bits) = 8 * y.size
  BY DEF Packed
<1> QED BY <1>3, <1>4, <1>5 DEF FrameQpsk

\* The symbols of a frame coded over a distance, one by one.
LEMMA CodedOver ==
  ASSUME NEW q \in Seq(Phase), NEW o \in Seq(Phase), NEW d \in Nat, Len(o) = Len(q),
         \A i \in 1 .. Len(q) : Turn(o[i] - Earlier(o, i, d)) = q[i]
  PROVE  SymbolsOf(o, d) = q
<1>1. PICK N \in Nat : N = Len(q) /\ N = Len(o)
  BY LenProperties
<1>2. DOMAIN o = 1 .. N
  BY <1>1, LenProperties
<1>3. SymbolsOf(o, d) = [i \in 1 .. N |-> Turn(o[i] - Earlier(o, i, d))]
  BY <1>2 DEF SymbolsOf, Earlier
<1>4. q = [i \in 1 .. N |-> q[i]]
  BY <1>1
<1> QED BY <1>1, <1>3, <1>4

\* The frame of css_mod has its symbols over a distance of two, whatever the symbols.
LEMMA ReferenceDelay ==
  ASSUME NEW y, NEW bits, FrameQpsk(y, bits) \in Seq(Phase)
  PROVE  SymbolsOf(FrameDqpsk(y, bits), 2) = FrameQpsk(y, bits)
<1>1. PICK q \in Seq(Phase) : q = FrameQpsk(y, bits)
  OBVIOUS
<1>2. PICK r : r = RunMod(FreshMemory.mem, q)
  OBVIOUS
<1>3. PICK o \in Seq(Phase) : o = r.out /\ Len(o) = Len(q)
        /\ \A i \in 1 .. Len(q) : o[i] = Turn(q[i] + Earlier(o, i, 2))
  BY <1>2, ModFrame
<1>4. ASSUME NEW i \in 1 .. Len(q) PROVE Turn(o[i] - Earlier(o, i, 2)) = q[i]
  <2>1. q[i] \in Phase
    BY LenProperties
  <2>2. Earlier(o, i, 2) \in Phase
    <3>1. Len(q) \in Nat /\ (i > 2 => i - 2 \in 1 .. Len(o))
      BY <1>3, LenProperties
    <3>2. i > 2 => o[i - 2] \in Phase
      BY <3>1, LenProperties
    <3> QED BY <3>2 DEF Earlier, Phase
  <2>3. PICK x \in Phase, m \in Phase : x = q[i] /\ m = Earlier(o, i, 2)
    BY <2>1, <2>2
  <2>4. Turn(Turn(x + m) - m) = x
    BY TurnBack
  <2> QED BY <1>3, <2>3, <2>4
<1>5. SymbolsOf(o, 2) = q
  BY <1>3, <1>4, CodedOver
<1>6. FrameDqpsk(y, bits) = o
  BY <1>1, <1>2, <1>3 DEF FrameDqpsk, RunMod
<1> QED BY <1>1, <1>5, <1>6

\* css_demod gives back the packet that css_mod was given, and css_mod has its symbols over
\* a distance of two.
LEMMA ReferenceThereAndBack ==
  ASSUME NEW y, NEW bits, NEW n, Unpadded(y), Packed(y, bits, n)
  PROVE  /\ Demodulate(y, FrameDqpsk(y, bits)) = bits
         /\ SymbolsOf(FrameDqpsk(y, bits), 2) = FrameQpsk(y, bits)
<1>1. PICK q : q = FrameQpsk(y, bits)
  OBVIOUS
<1>2. PICK a \in Seq(Chip) :
        /\ a = PortChips(y, bits, 0) /\ Len(a) = CodeLen(y) * n
        /\ HardDemapper(y, a) = Deinterleave(y.phr \o bits, 0)
  BY FrameOfPackets
<1>3. PICK b \in Seq(Chip) :
        /\ b = PortChips(y, bits, 1) /\ Len(b) = CodeLen(y) * n
        /\ HardDemapper(y, b) = Deinterleave(y.phr \o bits, 1)
  BY FrameOfPackets
<1>4. PICK h \in Seq(Chip) : h = y.header
  BY DEF Unpadded, Layered
<1>5. PICK H \in Nat, M \in Nat : H = Len(h) /\ M = Len(a) /\ M = Len(b)
  BY <1>2, <1>3, LenProperties
<1>6. PICK f \in Seq(Chip) : f = h \o a /\ Len(f) = H + M /\ \A i \in 1 .. M : f[H + i] = a[i]
  <2>1. PICK z : z = h \o a
    OBVIOUS
  <2>2. z \in Seq(Chip)
    BY <2>1, Concatenated
  <2>3. Len(z) = Len(h) + Len(a)
    BY <2>1, Concatenated
  <2>4. \A i \in 1 .. Len(a) : z[Len(h) + i] = a[i]
    BY <2>1, Concatenated
  <2> QED BY <1>5, <2>1, <2>2, <2>3, <2>4
<1>7. PICK g \in Seq(Chip) : g = h \o b /\ Len(g) = H + M /\ \A i \in 1 .. M : g[H + i] = b[i]
  <2>1. PICK z : z = h \o b
    OBVIOUS
  <2>2. z \in Seq(Chip)
    BY <2>1, Concatenated
  <2>3. Len(z) = Len(h) + Len(b)
    BY <2>1, Concatenated
  <2>4. \A i \in 1 .. Len(b) : z[Len(h) + i] = b[i]
    BY <2>1, Concatenated
  <2> QED BY <1>5, <2>1, <2>2, <2>3, <2>4
<1>8. q = [k \in 1 .. H + M |-> QpskPhase(f[k], g[k])]
  <2>1. Framed(y, bits, 0) = f /\ Framed(y, bits, 1) = g
    BY <1>2, <1>3, <1>4, <1>6, <1>7 DEF Framed
  <2>2. q = [k \in DOMAIN f |-> QpskPhase(f[k], g[k])]
    BY <1>1, <2>1, ReferenceFrame
  <2>3. DOMAIN f = 1 .. H + M
    BY <1>6, LenProperties
  <2> QED BY <2>2, <2>3
<1>9. \A k \in 1 .. H + M : /\ QpskPhase(f[k], g[k]) \in Phase
                            /\ QpskI(QpskPhase(f[k], g[k])) = f[k]
                            /\ QpskQ(QpskPhase(f[k], g[k])) = g[k]
  <2>1. \A k \in 1 .. H + M : f[k] \in Chip /\ g[k] \in Chip
    BY <1>6, <1>7, LenProperties
  <2> QED BY <2>1, FourPhases
<1>10. q \in Seq(Phase) /\ Len(q) = H + M
  BY <1>5, <1>8, <1>9, IsASeq
<1>11. RunDemod(FreshMemory.mem, FrameDqpsk(y, bits)).out = q
  BY <1>1, <1>10, DemodOfMod DEF FrameDqpsk, RunMod
<1>12. PICK p \in Seq(Phase) :
         p = SubSeq(q, H + 1, H + M) /\ Len(p) = M /\ \A i \in 1 .. M : p[i] = q[H + i]
  <2>1. H + 1 \in Nat \ {0} /\ H + M \in Nat /\ H + 1 <= (H + M) + 1 /\ H + M <= Len(q)
    BY <1>10
  <2>2. (H + M) - (H + 1) + 1 = M /\ (H + 1) - 1 = H
    OBVIOUS
  <2>3. /\ SubSeq(q, H + 1, H + M) \in Seq(Phase)
        /\ Len(SubSeq(q, H + 1, H + M)) = (H + M) - (H + 1) + 1
        /\ \A i \in 1 .. (H + M) - (H + 1) + 1 : SubSeq(q, H + 1, H + M)[i] = q[(H + 1) - 1 + i]
    BY <1>10, <2>1, Stretch
  <2> QED BY <2>2, <2>3
<1>13. /\ [j \in DOMAIN p |-> QpskI(p[j])] = a
       /\ [j \in DOMAIN p |-> QpskQ(p[j])] = b
  <2>1. DOMAIN p = 1 .. M /\ DOMAIN a = 1 .. M /\ DOMAIN b = 1 .. M
    BY <1>5, <1>12, LenProperties
  <2>2. ASSUME NEW i \in 1 .. M PROVE QpskI(p[i]) = a[i] /\ QpskQ(p[i]) = b[i]
    <3>1. H + i \in 1 .. H + M
      OBVIOUS
    <3>2. p[i] = QpskPhase(f[H + i], g[H + i])
      BY <1>8, <1>12, <3>1
    <3> QED BY <1>6, <1>7, <1>9, <3>1, <3>2
  <2>3. a = [i \in 1 .. M |-> a[i]] /\ b = [i \in 1 .. M |-> b[i]]
    BY <2>1
  <2> QED BY <2>1, <2>2, <2>3
<1>14. PICK s \in Seq(Bit) : s = y.phr \o bits /\ Len(s) = 2 * (3 * n) /\ Len(s) = PhrLen + Len(bits)
  <2>1. y.phr \in Seq(Bit) /\ bits \in Seq(Bit) /\ n \in Nat /\ Len(y.phr) = PhrLen
        /\ PhrLen + Len(bits) = 6 * n
    BY DEF Unpadded, Packed
  <2>2. y.phr \o bits \in Seq(Bit) /\ Len(y.phr \o bits) = Len(y.phr) + Len(bits)
    BY <2>1, Concatenated, ZenonT(40)
  <2>3. 6 * n = 2 * (3 * n)
    BY <2>1
  <2> QED BY <2>1, <2>2, <2>3
<1>15. PICK d \in Seq(Bit) : d = Deinterleave(s, 0) /\ Len(d) = 3 * n
  BY <1>14, FrameOfPackets DEF Half
<1>16. PICK e \in Seq(Bit) : e = Deinterleave(s, 1) /\ Len(e) = 3 * n
  BY <1>14, FrameOfPackets DEF Half
<1>17. \A t \in Seq(Bit) : SubSeq(t, 1, Len(t) - y.padded_zeros) = t
  <2>1. y.padded_zeros = 0
    BY DEF Unpadded
  <2>2. ASSUME NEW t \in Seq(Bit) PROVE SubSeq(t, 1, Len(t) - 0) = t
    <3>1. Len(t) \in Nat /\ Len(t) - 0 = Len(t)
      BY LenProperties
    <3> QED BY <3>1
  <2> QED BY <2>1, <2>2
<1>18. \A t : Deinterleaver(y.intlv_seq, t) = t
  BY ZenonT(40) DEF Unpadded, Deinterleaver
<1>19. Demodulate(y, FrameDqpsk(y, bits)) = SubSeq(Interleave(d, e), PhrLen + 1, Len(Interleave(d, e)))
  <2>1. Demodulate(y, FrameDqpsk(y, bits)) =
          LET payload == SubSeq(q, Len(y.header) + 1, Len(q))
              chips(F(_)) == Deinterleaver(y.intlv_seq, [j \in DOMAIN payload |-> F(payload[j])])
              bs(F(_)) == LET z == HardDemapper(y, chips(F)) IN SubSeq(z, 1, Len(z) - y.padded_zeros)
              both == Interleave(bs(QpskI), bs(QpskQ))
          IN SubSeq(both, PhrLen + 1, Len(both))
    BY <1>11 DEF Demodulate, RunDemod
  <2>2. SubSeq(q, Len(y.header) + 1, Len(q)) = p
    BY <1>4, <1>5, <1>10, <1>12
  <2>3. HardDemapper(y, Deinterleaver(y.intlv_seq, [j \in DOMAIN p |-> QpskI(p[j])])) = d
    BY <1>2, <1>13, <1>14, <1>15, <1>18
  <2>4. HardDemapper(y, Deinterleaver(y.intlv_seq, [j \in DOMAIN p |-> QpskQ(p[j])])) = e
    BY <1>3, <1>13, <1>14, <1>16, <1>18
  <2>5. SubSeq(d, 1, Len(d) - y.padded_zeros) = d /\ SubSeq(e, 1, Len(e) - y.padded_zeros) = e
    BY <1>17
  <2> QED BY <2>1, <2>2, <2>3, <2>4, <2>5
<1>20. Interleave(d, e) = s
  <2>1. n \in Nat /\ 3 * n \in Nat
    BY DEF Packed
  <2> QED BY <1>14, <1>15, <1>16, <2>1, WholeOfHalves
<1>21. SubSeq(s, PhrLen + 1, Len(s)) = bits
  <2>1. PICK t \in Seq(Bit), u \in Seq(Bit) : t = y.phr /\ u = bits /\ Len(t) = 12
    BY DEF Unpadded, Packed, PhrLen
  <2>2. PICK N \in Nat : N = Len(u)
    BY LenProperties
  <2>3. Len(s) = 12 + N /\ \A i \in 1 .. N : s[12 + i] = u[i]
    <3>1. s = t \o u
      BY <1>14, <2>1
    <3>2. Len(s) = Len(t) + Len(u)
      BY <3>1, Concatenated
    <3>3. \A i \in 1 .. Len(u) : s[Len(t) + i] = u[i]
      BY <3>1, Concatenated
    <3> QED BY <2>1, <2>2, <3>2, <3>3
  <2>4. PICK v : v = SubSeq(s, 13, 12 + N)
    OBVIOUS
  <2>5. v \in Seq(Bit) /\ Len(v) = (12 + N) - 13 + 1 /\ \A i \in 1 .. (12 + N) - 13 + 1 : v[i] = s[13 - 1 + i]
    <3>1. 13 \in Nat \ {0} /\ 12 + N \in Nat /\ 13 <= (12 + N) + 1
      OBVIOUS
    <3> QED BY <2>3, <2>4, <3>1, Stretch
  <2>6. v = u
    <3>1. (12 + N) - 13 + 1 = N /\ 13 - 1 = 12
      OBVIOUS
    <3>2. Len(v) = N /\ \A i \in 1 .. N : v[i] = u[i]
      BY <2>3, <2>5, <3>1
    <3> QED BY <2>2, <2>5, <3>2, SeqEqual
  <2> QED BY <2>1, <2>3, <2>4, <2>6 DEF PhrLen
<1>22. SymbolsOf(FrameDqpsk(y, bits), 2) = FrameQpsk(y, bits)
  BY <1>1, <1>10, ReferenceDelay
<1> QED BY <1>19, <1>20, <1>21, <1>22

-----------------------------------------------------------------------------
(***************************************************************************)
(* The layers that need no zeros.                                          *)
(***************************************************************************)

\* A setup whose packets fill their frames is one of the fast rate.
LEMMA NoZeros ==
  ASSUME NEW slow \in BOOLEAN, NEW size \in Nat, PaddedZeros(slow, size) = 0
  PROVE  ~ slow /\ \E n \in Nat \ {0} : PhrLen + 8 * size = 6 * n
<1>1. CASE slow
  <2>1. PaddedZeros(TRUE, size) >= 6 * size
    BY SlowFrameWhole
  <2>2. PaddedZeros(TRUE, 0) # 0
    BY DEF PaddedZeros, CeilDiv
  <2>3. slow = TRUE
    BY <1>1
  <2>4. PaddedZeros(TRUE, size) = 0
    BY <2>3
  <2>6. 0 >= 6 * size
    BY <2>1, <2>4
  <2>5. size = 0
    BY <2>6
  <2> QED BY <2>2, <2>4, <2>5
<1>2. CASE ~ slow
  <2>1. PICK k \in Int : k = CeilDiv(4 * size, 3)
    <3>1. CeilDiv(4 * size, 3) \in Int
      BY DEF CeilDiv
    <3> QED BY <3>1
  <2>2. PaddedZeros(FALSE, size) = 6 * (k + 2) - 8 * size - 12
    BY <2>1 DEF PaddedZeros
  <2>3. slow = FALSE
    BY <1>2
  <2>6. PaddedZeros(FALSE, size) = 0
    BY <2>3
  <2>7. 6 * (k + 2) - 8 * size - 12 = 0
    BY <2>2, <2>6
  <2>4. 12 + 8 * size = 6 * (k + 2)
    BY <2>7
  <2>5. k + 2 \in Nat \ {0}
    BY <2>4
  <2> QED BY <1>2, <2>4, <2>5 DEF PhrLen
<1> QED BY <1>1, <1>2

\* The powers of two that bits are cut out with.
LEMMA Powers ==
  ASSUME NEW e \in 0 .. 7
  PROVE  2^e \in Nat \ {0}
<1>1. e = 0 \/ e = 1 \/ e = 2 \/ e = 3 \/ e = 4 \/ e = 5 \/ e = 6 \/ e = 7
  OBVIOUS
<1>2. CASE e = 0
  BY 2^0 = 1, <1>2
<1>3. CASE e = 1
  BY 2^1 = 2, <1>3
<1>4. CASE e = 2
  BY 2^2 = 4, <1>4
<1>5. CASE e = 3
  BY 2^3 = 8, <1>5
<1>6. CASE e = 4
  BY 2^4 = 16, <1>6
<1>7. CASE e = 5
  BY 2^5 = 32, <1>7
<1>8. CASE e = 6
  BY 2^6 = 64, <1>8
<1>9. CASE e = 7
  BY 2^7 = 128, <1>9
<1> QED BY <1>1, <1>2, <1>3, <1>4, <1>5, <1>6, <1>7, <1>8, <1>9

\* gen_PHR() gives twelve bits.
LEMMA PhrBits ==
  ASSUME NEW size \in Nat
  PROVE  GenPhr(size) \in Seq(Bit) /\ Len(GenPhr(size)) = PhrLen
<1> DEFINE At(i) == IF i <= 7 THEN (size \div 2^(7 - i)) % 2 ELSE 0
<1>1. ASSUME NEW i \in 1 .. 12 PROVE At(i) \in Bit
  <2>1. CASE i <= 7
    <3>1. PICK m \in Nat \ {0} : m = 2^(7 - i)
      <4>1. 7 - i \in 0 .. 7
        BY <2>1
      <4>2. 2^(7 - i) \in Nat \ {0}
        BY <4>1, Powers
      <4> QED BY <4>2
    <3>2. PICK k \in Nat : k = size \div m
      <4>1. size \div m \in Nat
        OBVIOUS
      <4> QED BY <4>1
    <3>3. k % 2 \in Bit
      BY DEF Bit
    <3> QED BY <2>1, <3>1, <3>2, <3>3
  <2>2. CASE ~ (i <= 7)
    BY <2>2 DEF Bit
  <2> QED BY <2>1, <2>2
<1>2. PICK g : g = GenPhr(size)
  OBVIOUS
<1>3. g = [i \in 1 .. 12 |-> At(i)]
  BY <1>2 DEF GenPhr, PhrLen
<1> HIDE DEF At
<1>4. g \in Seq(Bit)
  BY <1>1, <1>3, IsASeq
<1>5. Len(g) = 12
  BY <1>3, <1>4
<1> QED BY <1>2, <1>4, <1>5 DEF PhrLen

\* The bits of a packet.
LEMMA UnpackedBits ==
  ASSUME NEW p \in Seq(0 .. 255)
  PROVE  Unpack(p) \in Seq(Bit) /\ Len(Unpack(p)) = 8 * Len(p)
<1> DEFINE At(i) == (p[(i - 1) \div 8 + 1] \div 2^(7 - ((i - 1) % 8))) % 2
<1>1. PICK N \in Nat : N = Len(p)
  BY LenProperties
<1>2. ASSUME NEW i \in 1 .. 8 * N PROVE At(i) \in Bit
  <2>1. PICK b : b = 8 /\ b \in Nat \ {0}
    OBVIOUS
  <2>2. PICK k \in 1 .. N : \E j \in 1 .. b : i = b * (k - 1) + j
    BY <2>1, PlaceOf
  <2>3. PICK j \in 1 .. b : i = b * (k - 1) + j
    BY <2>2
  <2>4. (i - 1) \div b + 1 = k /\ ((i - 1) % b) + 1 = j
    BY <2>1, <2>3, Places
  <2>5. PICK m \in Nat \ {0} : m = 2^(7 - ((i - 1) % 8))
    <3>1. i - 1 \in Nat
      OBVIOUS
    <3>2. 7 - ((i - 1) % 8) \in 0 .. 7
      BY <3>1
    <3>3. 2^(7 - ((i - 1) % 8)) \in Nat \ {0}
      BY <3>2, Powers
    <3> QED BY <3>3
  <2>6. PICK x \in Nat : x = p[k]
    <3>1. p[k] \in 0 .. 255
      BY <1>1, LenProperties
    <3>2. 0 .. 255 \subseteq Nat
      OBVIOUS
    <3> QED BY <3>1, <3>2
  <2>7. PICK z \in Nat : z = x \div m
    <3>1. x \div m \in Nat
      OBVIOUS
    <3> QED BY <3>1
  <2>8. z % 2 \in Bit
    BY DEF Bit
  <2> QED BY <2>1, <2>4, <2>5, <2>6, <2>7, <2>8
<1>3. PICK u : u = Unpack(p)
  OBVIOUS
<1>4. u = [i \in 1 .. 8 * N |-> At(i)]
  BY <1>1, <1>3 DEF Unpack
<1> HIDE DEF At
<1>5. u \in Seq(Bit)
  BY <1>2, <1>4, IsASeq
<1>6. Len(u) = 8 * N
  BY <1>4, <1>5
<1> QED BY <1>1, <1>3, <1>5, <1>6

\* A layer whose frames hold n groups of three bits in each stream, and no zeros.
Carries(y, n) ==
  /\ Unpadded(y) /\ y.size \in Nat /\ n \in Nat \ {0} /\ PhrLen + 8 * y.size = 6 * n
  /\ y.nsym_frame = Len(y.header) + CodeLen(y) * n

\* What the constructor of physical_layer gives: without zeros, a layer of whole codewords.
LEMMA LayerOfSetup ==
  ASSUME NEW s \in Setups, NEW y, y = PhysicalLayer(s.slow, s.size, s.chirp)
  PROVE  /\ y.size \in Nat /\ y.slow \in BOOLEAN
         /\ y.padded_zeros = PaddedZeros(y.slow, y.size)
         /\ y.padded_zeros = 0 => \E n : Carries(y, n)
<1>1. PICK slow \in BOOLEAN, size \in Nat :
        slow = s.slow /\ size = IF s.size <= MaxBytes THEN s.size ELSE MaxBytes
  BY LinkAssumption, CssAssumption
<1>2. /\ y.slow = slow /\ y.size = size /\ y.bits_per_symbol = BitsPerSymbol[slow]
      /\ y.codewords = Codewords[slow] /\ y.header = Preamble[slow] \o Sfd[slow]
      /\ y.phr = GenPhr(size) /\ y.padded_zeros = PaddedZeros(slow, size)
      /\ y.nsym_frame = NsymFrame(slow, size)
      /\ y.intlv_seq = IF slow THEN IntlvSeq ELSE << >>
  BY <1>1 DEF PhysicalLayer
<1>3. ASSUME y.padded_zeros = 0 PROVE \E n : Carries(y, n)
  <2>1. ~ slow /\ \E n \in Nat \ {0} : PhrLen + 8 * size = 6 * n
    BY <1>2, <1>3, NoZeros
  <2>2. PICK n \in Nat \ {0} : PhrLen + 8 * size = 6 * n
    BY <2>1
  <2>3. slow = FALSE
    BY <2>1
  <2>4. PICK w \in Seq(Seq(Chip)) :
          /\ w = Codewords[FALSE] /\ Len(w) = 8 /\ w[1] # << >>
          /\ \A i, j \in 1 .. Len(w) : Len(w[i]) = Len(w[j]) /\ (w[i] = w[j] => i = j)
    <3>1. 2^3 = 8
      OBVIOUS
    <3>2. /\ Codewords[FALSE] \in Seq(Seq({-1, 1})) /\ BitsPerSymbol[FALSE] = 3
          /\ Len(Codewords[FALSE]) = 2^BitsPerSymbol[FALSE] /\ Codewords[FALSE][1] # << >>
          /\ \A i, j \in 1 .. Len(Codewords[FALSE]) :
               /\ Len(Codewords[FALSE][i]) = Len(Codewords[FALSE][j])
               /\ Codewords[FALSE][i] = Codewords[FALSE][j] => i = j
      BY TableAssumption
    <3> QED BY <3>1, <3>2 DEF Chip
  <2>5. PICK L \in Nat \ {0} : L = Len(w[1])
    <3>2. Len(w) = 8
      BY <2>4
    <3>3. 1 \in 1 .. Len(w)
      BY <3>2
    <3>1. w[1] \in Seq(Chip)
      BY <3>3, LenProperties
    <3> QED BY <2>4, <3>1, LenProperties, EmptySeq
  <2>6. Coded(y) /\ CodeLen(y) = L
    <3>1. y.codewords = w /\ y.bits_per_symbol = 3
      BY <1>2, <2>3, <2>4, TableAssumption
    <3>2. ASSUME NEW i \in 1 .. 8 PROVE Len(w[i]) = L
      <4>1. Len(w) = 8
        BY <2>4
      <4>2. i \in 1 .. Len(w) /\ 1 \in 1 .. Len(w)
        BY <4>1
      <4>3. Len(w[i]) = Len(w[1])
        BY <2>4, <4>2
      <4> QED BY <2>5, <4>3
    <3> QED BY <2>4, <2>5, <3>1, <3>2 DEF Coded, CodeLen
  <2>7. PICK a \in Seq(Chip), b \in Seq(Chip) : a = Preamble[FALSE] /\ b = Sfd[FALSE] /\ a # << >>
    <3>1. PICK a \in Seq(Chip), b \in Seq(Chip) : a = Preamble[FALSE] /\ b = Sfd[FALSE]
      BY TableAssumption DEF Chip
    <3>2. Len(a) >= 2
      BY <3>1, TableAssumption
    <3>3. a # << >>
      BY <3>2, EmptySeq
    <3> QED BY <3>1, <3>3
  <2>8. y.header = a \o b /\ y.header \in Seq(Chip) /\ Len(y.header) = Len(a) + Len(b)
    <3>1. PICK h : h = a \o b
      OBVIOUS
    <3>2. h \in Seq(Chip)
      BY <3>1, Concatenated
    <3>3. Len(h) = Len(a) + Len(b)
      BY <3>1, Concatenated
    <3>4. y.header = h
      BY <1>2, <2>3, <2>7, <3>1
    <3> QED BY <3>1, <3>2, <3>3, <3>4
  <2>9. PayloadSymbols(FALSE, size) = L * n
    <3>1. FrameBits(FALSE, size) = 6 * n
      <4>1. PaddedZeros(FALSE, size) = 0
        BY <1>2, <1>3, <2>3
      <4>2. FrameBits(FALSE, size) = PhrLen + 8 * size + 0
        BY <4>1 DEF FrameBits
      <4>3. FrameBits(FALSE, size) = 6 * n + 0
        BY <2>2, <4>2
      <4>4. 6 * n + 0 = 6 * n
        OBVIOUS
      <4> QED BY <4>3, <4>4, Zenon
    <3>2. PayloadSymbols(FALSE, size) = ((6 * n) * L) \div (2 * 3)
      BY <2>4, <2>5, <3>1, TableAssumption DEF PayloadSymbols
    <3>3. PICK x \in Nat : x = L * n
      OBVIOUS
    <3>4. (6 * n) * L = 6 * x + 0 /\ 0 \in 0 .. 6 - 1 /\ 6 \in Nat \ {0} /\ 2 * 3 = 6
      BY <3>3
    <3>5. (6 * x + 0) \div 6 = x
      BY <3>4, Division
    <3> QED BY <3>2, <3>3, <3>4, <3>5
  <2>10. y.nsym_frame = Len(y.header) + L * n
    BY <1>2, <2>3, <2>7, <2>8, <2>9 DEF NsymFrame
  <2>11. y.nsym_frame \in Nat \ {0}
    <3>1. Len(a) \in Nat \ {0} /\ Len(b) \in Nat
      BY <2>7, LenProperties, EmptySeq
    <3>2. PICK x \in Nat : x = L * n
      OBVIOUS
    <3>3. y.nsym_frame = (Len(a) + Len(b)) + x
      BY <2>8, <2>10, <3>2
    <3> QED BY <3>1, <3>3
  <2>12. GenPhr(size) \in Seq(Bit) /\ Len(GenPhr(size)) = PhrLen
    BY PhrBits
  <2>13. Unpadded(y)
    BY <1>2, <1>3, <2>3, <2>6, <2>8, <2>11, <2>12 DEF Unpadded, Layered
  <2> QED BY <1>2, <2>2, <2>6, <2>10, <2>13 DEF Carries
<1> QED BY <1>2, <1>3

-----------------------------------------------------------------------------
(***************************************************************************)
(* Many packets at once are the blocks that each of them gives.            *)
(***************************************************************************)

\* deinterleave, of many packets.
LEMMA HalvesOfBlocks ==
  ASSUME NEW S, NEW h \in Nat \ {0}, NEW s \in Seq(S), NEW t \in Seq(Seq(S)),
         Blocks(S, 2 * h, s, t), NEW port \in {0, 1}
  PROVE  Blocks(S, h, Deinterleave(s, port), [k \in 1 .. Len(t) |-> Deinterleave(t[k], port)])
<1>1. PICK N \in Nat : N = Len(t)
  BY LenProperties
<1>2. PICK x \in Nat : x = h * N
  OBVIOUS
<1>3. Len(s) = 2 * x
  <2>1. (2 * h) * N = 2 * x
    BY <1>2
  <2> QED BY <1>1, <2>1 DEF Blocks
<1>4. PICK d : d = Deinterleave(s, port)
  OBVIOUS
<1>5. d \in Seq(S) /\ Len(d) = x /\ \A i \in 1 .. x : d[i] = s[2 * i - 1 + port]
  <2>1. Half(S, x, s, port, d)
    BY <1>3, <1>4, Halves
  <2> QED BY <2>1 DEF Half
<1>6. PICK u : u = [k \in 1 .. N |-> Deinterleave(t[k], port)]
  OBVIOUS
<1>7. ASSUME NEW k \in 1 .. N
      PROVE  u[k] \in Seq(S) /\ Len(u[k]) = h /\ \A j \in 1 .. h : u[k][j] = t[k][2 * j - 1 + port]
  <2>1. PICK b \in Seq(S) : b = t[k] /\ Len(b) = 2 * h
    <3>1. t[k] \in Seq(S)
      BY <1>1, LenProperties
    <3>2. Len(t[k]) = 2 * h
      BY <1>1 DEF Blocks
    <3> QED BY <3>1, <3>2
  <2>2. PICK e : e = Deinterleave(b, port)
    OBVIOUS
  <2>3. Half(S, h, b, port, e)
    BY <2>1, <2>2, Halves
  <2>4. u[k] = e
    BY <1>6, <2>1, <2>2
  <2> QED BY <2>1, <2>3, <2>4 DEF Half
<1>8. u \in Seq(Seq(S)) /\ Len(u) = N
  BY <1>6, <1>7, IsASeq
<1>9. ASSUME NEW k \in 1 .. N, NEW j \in 1 .. h PROVE d[h * (k - 1) + j] = u[k][j]
  <2>1. PICK z \in Nat : z = h * (k - 1)
    <3>1. k - 1 \in Nat
      OBVIOUS
    <3>2. h * (k - 1) \in Nat
      BY <3>1
    <3> QED BY <3>2
  <2>2. z + j \in 1 .. x
    BY <1>2, <2>1, PlaceIn
  <2>3. d[z + j] = s[2 * (z + j) - 1 + port]
    BY <1>5, <2>2
  <2>4. PICK i \in 1 .. 2 * h : i = 2 * j - 1 + port
    BY port \in {0, 1}
  <2>5. s[(2 * h) * (k - 1) + i] = t[k][i]
    BY <1>1 DEF Blocks
  <2>6. (2 * h) * (k - 1) + i = 2 * (z + j) - 1 + port
    <3>1. (2 * h) * (k - 1) = 2 * z
      BY <2>1
    <3> QED BY <2>4, <3>1, port \in {0, 1}
  <2> QED BY <1>7, <2>1, <2>3, <2>4, <2>5, <2>6
<1>10. Blocks(S, h, d, u)
  BY <1>2, <1>5, <1>7, <1>8, <1>9 DEF Blocks
<1> QED BY <1>1, <1>4, <1>6, <1>10

\* codeword_mapper_bi, of many packets.
LEMMA CodewordsOfBlocks ==
  ASSUME NEW y, Coded(y), NEW n \in Nat \ {0}, NEW s \in Seq(Bit), NEW t \in Seq(Seq(Bit)),
         Blocks(Bit, 3 * n, s, t)
  PROVE  Blocks(Chip, CodeLen(y) * n, CodewordMapper(y, s),
                [k \in 1 .. Len(t) |-> CodewordMapper(y, t[k])])
<1>1. PICK N \in Nat : N = Len(t)
  BY LenProperties
<1>2. PICK x \in Nat : x = n * N
  OBVIOUS
<1>3. Len(s) = 3 * x
  <2>1. (3 * n) * N = 3 * x
    BY <1>2
  <2> QED BY <1>1, <2>1 DEF Blocks
<1>4. PICK L \in Nat \ {0} : L = CodeLen(y)
  BY DEF Coded
<1>5. PICK c : c = CodewordMapper(y, s)
  OBVIOUS
<1>6. /\ c \in Seq(Chip) /\ Len(c) = L * x
      /\ \A k \in 1 .. x : \A j \in 1 .. L :
           c[L * (k - 1) + j] = y.codewords[Bin2Dec(Group(s, 3, k)) + 1][j]
  <2>1. Spelt(y, L, x, s, c)
    BY <1>3, <1>4, <1>5, MapperAt
  <2> QED BY <2>1 DEF Spelt
<1>7. PICK b : b = 3 /\ b \in Nat \ {0}
  OBVIOUS
<1>8. \A k \in 1 .. x : /\ Group(s, 3, k) \in Seq(Bit) /\ Len(Group(s, 3, k)) = 3
                        /\ \A j \in 1 .. 3 : Group(s, 3, k)[j] = s[3 * (k - 1) + j]
  <2>1. Len(s) = b * x
    BY <1>3, <1>7
  <2>2. CutUp(Bit, s, b, x)
    BY <1>7, <2>1, GroupOf
  <2> QED BY <1>7, <2>2 DEF CutUp
<1>9. PICK u : u = [k \in 1 .. N |-> CodewordMapper(y, t[k])]
  OBVIOUS
<1>10. PICK M \in Nat \ {0} : M = L * n
  <2>1. L * n \in Nat \ {0}
    OBVIOUS
  <2> QED BY <2>1
<1>11. ASSUME NEW k \in 1 .. N
       PROVE  /\ u[k] \in Seq(Chip) /\ Len(u[k]) = M
              /\ \A j \in 1 .. M : c[M * (k - 1) + j] = u[k][j]
  <2>1. PICK w \in Seq(Bit) : w = t[k] /\ Len(w) = 3 * n
    <3>1. t[k] \in Seq(Bit)
      BY <1>1, LenProperties
    <3>2. Len(t[k]) = 3 * n
      BY <1>1 DEF Blocks
    <3> QED BY <3>1, <3>2
  <2>2. PICK e : e = CodewordMapper(y, w)
    OBVIOUS
  <2>3. u[k] = e
    BY <1>9, <2>1, <2>2
  <2>4. /\ e \in Seq(Chip) /\ Len(e) = L * n
        /\ \A g \in 1 .. n : \A j \in 1 .. L :
             e[L * (g - 1) + j] = y.codewords[Bin2Dec(Group(w, 3, g)) + 1][j]
    <3>1. Spelt(y, L, n, w, e)
      BY <1>4, <2>1, <2>2, MapperAt
    <3> QED BY <3>1 DEF Spelt
  <2>5. \A g \in 1 .. n : /\ Group(w, 3, g) \in Seq(Bit) /\ Len(Group(w, 3, g)) = 3
                          /\ \A j \in 1 .. 3 : Group(w, 3, g)[j] = w[3 * (g - 1) + j]
    <3>1. Len(w) = b * n
      BY <1>7, <2>1
    <3>2. CutUp(Bit, w, b, n)
      BY <1>7, <3>1, GroupOf
    <3> QED BY <1>7, <3>2 DEF CutUp
  <2>6. PICK z \in Nat : z = n * (k - 1)
    <3>1. k - 1 \in Nat
      OBVIOUS
    <3>2. n * (k - 1) \in Nat
      BY <3>1
    <3> QED BY <3>2
  <2>7. ASSUME NEW J \in 1 .. M PROVE c[M * (k - 1) + J] = e[J]
    <3>1. PICK g \in 1 .. n : \E j \in 1 .. L : J = L * (g - 1) + j
      <4>1. J \in 1 .. L * n
        BY <1>10
      <4> QED BY <4>1, PlaceOf
    <3>2. PICK j \in 1 .. L : J = L * (g - 1) + j
      BY <3>1
    <3>3. PICK G \in 1 .. x : G = z + g
      <4>1. z + g \in 1 .. x
        BY <1>2, <2>6, PlaceIn
      <4> QED BY <4>1
    <3>4. M * (k - 1) + J = L * (G - 1) + j
      <4>1. M * (k - 1) = L * z
        BY <1>10, <2>6
      <4>2. L * (G - 1) = L * z + L * (g - 1)
        BY <3>3
      <4>3. PICK a \in Int, d \in Int : a = L * z /\ d = L * (g - 1)
        OBVIOUS
      <4>4. PICK p \in Int, q \in Int : p = M * (k - 1) /\ q = L * (G - 1)
        OBVIOUS
      <4>5. p = a /\ q = a + d /\ J = d + j
        BY <3>2, <4>1, <4>2, <4>3, <4>4
      <4>6. p + J = q + j
        BY <4>5
      <4> QED BY <4>4, <4>6
    <3>5. Group(s, 3, G) = Group(w, 3, g)
      <4>1. PICK p \in Seq(Bit) : p = Group(s, 3, G) /\ Len(p) = 3
        BY <1>8
      <4>2. PICK q \in Seq(Bit) : q = Group(w, 3, g) /\ Len(q) = 3
        BY <2>5
      <4>3. ASSUME NEW i \in 1 .. 3 PROVE p[i] = q[i]
        <5>1. p[i] = s[3 * (G - 1) + i] /\ q[i] = w[3 * (g - 1) + i]
          BY <1>8, <2>5, <4>1, <4>2
        <5>2. PICK l \in 1 .. 3 * n : l = 3 * (g - 1) + i
          <6>1. i \in 1 .. b
            BY <1>7
          <6>2. b * (g - 1) + i \in 1 .. b * n
            BY <1>7, <6>1, PlaceIn
          <6> QED BY <1>7, <6>2
        <5>3. s[(3 * n) * (k - 1) + l] = t[k][l]
          BY <1>1 DEF Blocks
        <5>4. (3 * n) * (k - 1) + l = 3 * (G - 1) + i
          <6>1. (3 * n) * (k - 1) = 3 * z
            BY <2>6
          <6> QED BY <3>3, <5>2, <6>1
        <5> QED BY <2>1, <5>1, <5>2, <5>3, <5>4
      <4> QED BY <4>1, <4>2, <4>3, SeqEqual
    <3>6. c[L * (G - 1) + j] = y.codewords[Bin2Dec(Group(s, 3, G)) + 1][j]
      BY <1>6
    <3>7. e[L * (g - 1) + j] = y.codewords[Bin2Dec(Group(w, 3, g)) + 1][j]
      BY <2>4
    <3> QED BY <3>2, <3>4, <3>5, <3>6, <3>7
  <2> QED BY <1>10, <2>3, <2>4, <2>7
<1>12. u \in Seq(Seq(Chip)) /\ Len(u) = N
  BY <1>9, <1>11, IsASeq
<1>13. Len(c) = M * Len(u)
  <2>1. L * x = (L * n) * N
    BY <1>2
  <2> QED BY <1>6, <1>10, <1>12, <2>1
<1>14. Blocks(Chip, M, c, u)
  BY <1>6, <1>11, <1>12, <1>13 DEF Blocks
<1> QED BY <1>1, <1>4, <1>5, <1>9, <1>10, <1>14

-----------------------------------------------------------------------------
(***************************************************************************)
(* The packets on their way through the sender.                            *)
(***************************************************************************)
Byte == 0 .. 255

\* What a frame of dqpsk_mapper_ff is to be, for a packet.
Emitted(y, out, p) ==
  FrameQpsk(y, Unpack(p)) = [i \in 1 .. y.nsym_frame |-> Turn(out[i] - Earlier(out, i, 4))]

\* The bits of a packet that fills its frame, with and without the PHY header.
LEMMA BitsOfPacket ==
  ASSUME NEW y, NEW n, Carries(y, n), NEW p \in Seq(Byte), Len(p) = y.size
  PROVE  /\ Unpadded(y) /\ Packed(y, Unpack(p), n)
         /\ y.phr \o Unpack(p) \in Seq(Bit) /\ Len(y.phr \o Unpack(p)) = 2 * (3 * n)
<1>1. PICK u \in Seq(Bit) : u = Unpack(p) /\ Len(u) = 8 * y.size
  BY UnpackedBits DEF Byte
<1>2. PICK h \in Seq(Bit) : h = y.phr /\ Len(h) = PhrLen
  BY DEF Carries, Unpadded
<1>3. /\ Unpadded(y) /\ y.size \in Nat /\ n \in Nat \ {0} /\ PhrLen + 8 * y.size = 6 * n
  BY DEF Carries
<1>4. Packed(y, u, n)
  BY <1>1, <1>3 DEF Packed
<1>5. PICK v : v = h \o u
  OBVIOUS
<1>6. v \in Seq(Bit) /\ Len(v) = Len(h) + Len(u)
  BY <1>5, Concatenated
<1>7. 6 * n = 2 * (3 * n)
  BY <1>3
<1>8. Len(v) = 6 * n
  BY <1>1, <1>2, <1>3, <1>6
<1> QED BY <1>1, <1>2, <1>3, <1>4, <1>5, <1>6, <1>7, <1>8

\* The chips of a packet through preamble_sfd_prefixer_ii, qpsk_mapper_if and
\* dqpsk_mapper_ff.
PutOut(y, p, i, r) ==
  /\ i.state = 0 /\ r.state = FreshMemory
  /\ r.out \in Seq(Phase) /\ Len(r.out) = y.nsym_frame
  /\ Emitted(y, r.out, p)

\* The frame of a packet is put out, and the blocks are as before it.
LEMMA PacketModulated ==
  ASSUME NEW y, NEW n, Carries(y, n), NEW p \in Seq(Byte), Len(p) = y.size,
         NEW i, i = RunPrefixer(y, 0, PortChips(y, Unpack(p), 0)),
         NEW q, q = RunPrefixer(y, 0, PortChips(y, Unpack(p), 1)),
         NEW r, r = RunDqpsk(y, TRUE, FreshMemory,
                             [k \in DOMAIN i.out |-> QpskPhase(i.out[k], q.out[k])])
  PROVE  PutOut(y, p, i, r)
<1>1. PICK u : u = Unpack(p)
  OBVIOUS
<1>2. Unpadded(y) /\ Packed(y, u, n)
  BY <1>1, BitsOfPacket
<1>3. PICK a \in Seq(Chip) : a = PortChips(y, u, 0) /\ Len(a) = CodeLen(y) * n
  BY <1>2, FrameOfPackets
<1>4. PICK b \in Seq(Chip) : b = PortChips(y, u, 1) /\ Len(b) = CodeLen(y) * n
  BY <1>2, FrameOfPackets
<1>5. PICK M \in Nat \ {0} : M = CodeLen(y) * n
  <2>1. PICK L \in Nat \ {0} : L = CodeLen(y)
    BY <1>2 DEF Unpadded, Coded
  <2>2. n \in Nat \ {0}
    BY DEF Carries
  <2>3. L * n \in Nat \ {0}
    BY <2>2
  <2> QED BY <2>1, <2>3
<1>6. Layered(y) /\ y.nsym_frame = Len(y.header) + M
  BY <1>2, <1>5 DEF Unpadded, Carries
<1>7. a # << >> /\ b # << >>
  BY <1>3, <1>4, <1>5, EmptySeq
<1>8. PICK h \in Seq(Chip) : h = y.header
  BY <1>6 DEF Layered
<1>9. PICK H \in Nat : H = Len(h)
  BY LenProperties
<1>10. i.state = 0 /\ i.out = h \o a
  <2>1. y.nsym_frame = Len(y.header) + Len(a)
    BY <1>3, <1>5, <1>6
  <2>2. i = RunPrefixer(y, 0, a)
    BY <1>1, <1>3
  <2>3. i.state = 0 /\ i.out = y.header \o a
    BY <1>6, <1>7, <2>1, <2>2, PrefixerFrame
  <2> QED BY <1>8, <2>3
<1>11. q.out = h \o b
  <2>1. y.nsym_frame = Len(y.header) + Len(b)
    BY <1>4, <1>5, <1>6
  <2>2. q = RunPrefixer(y, 0, b)
    BY <1>1, <1>4
  <2>3. q.out = y.header \o b
    BY <1>6, <1>7, <2>1, <2>2, PrefixerFrame
  <2> QED BY <1>8, <2>3
<1>12. PICK f \in Seq(Chip) : f = h \o a /\ Len(f) = H + M
  <2>1. PICK z : z = h \o a
    OBVIOUS
  <2>2. z \in Seq(Chip) /\ Len(z) = Len(h) + Len(a)
    BY <2>1, Concatenated
  <2> QED BY <1>3, <1>5, <1>9, <2>1, <2>2
<1>13. PICK g \in Seq(Chip) : g = h \o b /\ Len(g) = H + M
  <2>1. PICK z : z = h \o b
    OBVIOUS
  <2>2. z \in Seq(Chip) /\ Len(z) = Len(h) + Len(b)
    BY <2>1, Concatenated
  <2> QED BY <1>4, <1>5, <1>9, <2>1, <2>2
<1>14. PICK x : x = [k \in DOMAIN f |-> QpskPhase(f[k], g[k])]
  OBVIOUS
<1>15. x \in Seq(Phase) /\ Len(x) = H + M /\ x # << >>
  <2>1. DOMAIN f = 1 .. H + M
    BY <1>12, LenProperties
  <2>2. \A k \in 1 .. H + M : QpskPhase(f[k], g[k]) \in Phase
    <3>1. \A k \in 1 .. H + M : f[k] \in Chip /\ g[k] \in Chip
      BY <1>12, <1>13, LenProperties
    <3> QED BY <3>1, FourPhases
  <2>3. x = [k \in 1 .. H + M |-> QpskPhase(f[k], g[k])]
    BY <1>14, <2>1
  <2>4. x \in Seq(Phase)
    BY <2>2, <2>3, IsASeq
  <2>5. Len(x) = H + M
    BY <2>3, <2>4
  <2> QED BY <2>4, <2>5, EmptySeq
<1>16. FrameQpsk(y, u) = x
  <2>1. Framed(y, u, 0) = f /\ Framed(y, u, 1) = g
    BY <1>3, <1>4, <1>8, <1>12, <1>13 DEF Framed
  <2> QED BY <1>2, <1>14, <2>1, ReferenceFrame
<1>17. r = RunDqpsk(y, TRUE, FreshMemory, x)
  BY <1>10, <1>11, <1>12, <1>13, <1>14
<1>18. y.nsym_frame = Len(x)
  BY <1>6, <1>8, <1>9, <1>15
<1>19. /\ r.state = FreshMemory
       /\ r.out \in Seq(Phase) /\ Len(r.out) = Len(x)
       /\ \A k \in 1 .. Len(x) : Turn(r.out[k] - Earlier(r.out, k, 4)) = x[k]
  <2>1. Differential(x, r)
    BY <1>15, <1>17, <1>18, DqpskFrame
  <2> QED BY <2>1 DEF Differential
<1>20. Emitted(y, r.out, p)
  <2>1. x = [k \in 1 .. Len(x) |-> x[k]]
    BY <1>15, LenProperties
  <2>2. x = [k \in 1 .. y.nsym_frame |-> Turn(r.out[k] - Earlier(r.out, k, 4))]
    BY <1>18, <1>19, <2>1
  <2> QED BY <1>1, <1>16, <2>2 DEF Emitted
<1> QED BY <1>10, <1>18, <1>19, <1>20 DEF PutOut

\* The bits of the packets behind the first few, in their order; and the frames that have
\* been modulated.
PacketBits(y, p) == y.phr \o Unpack(p)
Queued(y, ps, from, t) ==
  t \in Seq(Seq(Bit)) /\ \A k \in 1 .. Len(t) : t[k] = PacketBits(y, ps[from + k])
FramesSent(y, ps, ph, f) ==
  /\ Blocks(Phase, y.nsym_frame, ph, f) /\ f \in Seq(Seq(Phase)) /\ ph \in Seq(Phase)
  /\ \A k \in 1 .. Len(f) : Emitted(y, f[k], ps[k])

\* A packet is added behind the others, and to the queue behind them.
LEMMA NewestQueued ==
  ASSUME NEW y, NEW ps \in Seq(Seq(Byte)), NEW from \in Nat, NEW t, Queued(y, ps, from, t),
         from + Len(t) = Len(ps), NEW p \in Seq(Byte), PacketBits(y, p) \in Seq(Bit)
  PROVE  Queued(y, Append(ps, p), from, Append(t, PacketBits(y, p)))
<1>1. PICK N \in Nat : N = Len(t) /\ t \in Seq(Seq(Bit)) /\ Len(ps) = from + N
  BY LenProperties DEF Queued
<1>2. PICK b \in Seq(Bit) : b = PacketBits(y, p)
  OBVIOUS
<1>3. PICK u : u = Append(t, b)
  OBVIOUS
<1>4. u \in Seq(Seq(Bit)) /\ Len(u) = N + 1
  BY <1>1, <1>3, AppendProperties
<1>5. u[N + 1] = b /\ \A k \in 1 .. N : u[k] = t[k]
  BY <1>1, <1>3, AppendProperties
<1>6. PICK v : v = Append(ps, p)
  OBVIOUS
<1>7. v[from + N + 1] = p /\ \A k \in 1 .. from + N : v[k] = ps[k]
  BY <1>1, <1>6, AppendProperties
<1>8. ASSUME NEW k \in 1 .. N + 1 PROVE u[k] = PacketBits(y, v[from + k])
  <2>1. CASE k = N + 1
    BY <1>2, <1>5, <1>7, <2>1
  <2>2. CASE k \in 1 .. N
    <3>1. from + k \in 1 .. from + N
      BY <2>2
    <3>2. t[k] = PacketBits(y, ps[from + k])
      BY <1>1, <2>2 DEF Queued
    <3> QED BY <1>5, <1>7, <2>2, <3>1, <3>2
  <2> QED BY <2>1, <2>2
<1> QED BY <1>2, <1>3, <1>4, <1>6, <1>8 DEF Queued

\* A packet is added behind the others, and the queue stays as it was.
LEMMA StillQueued ==
  ASSUME NEW y, NEW ps \in Seq(Seq(Byte)), NEW from \in Nat, NEW t, Queued(y, ps, from, t),
         from + Len(t) <= Len(ps), NEW p \in Seq(Byte)
  PROVE  Queued(y, Append(ps, p), from, t)
<1>1. PICK N \in Nat : N = Len(t) /\ t \in Seq(Seq(Bit)) /\ from + N <= Len(ps)
  BY LenProperties DEF Queued
<1>2. PICK M \in Nat : M = Len(ps)
  BY LenProperties
<1>6. PICK v : v = Append(ps, p)
  OBVIOUS
<1>7. \A k \in 1 .. M : v[k] = ps[k]
  BY <1>2, <1>6, AppendProperties
<1>8. ASSUME NEW k \in 1 .. N PROVE t[k] = PacketBits(y, v[from + k])
  <2>1. from + k \in 1 .. M
    BY <1>1, <1>2
  <2>2. t[k] = PacketBits(y, ps[from + k])
    BY <1>1 DEF Queued
  <2> QED BY <1>7, <2>1, <2>2
<1> QED BY <1>1, <1>6, <1>8 DEF Queued

OldestGone(y, ps, from, t) ==
  /\ Head(t) = PacketBits(y, ps[from + 1]) /\ Head(t) = t[1]
  /\ Queued(y, ps, from + 1, Tail(t))
  /\ Len(t) = Len(Tail(t)) + 1 /\ Len(Tail(t)) \in Nat
\* The oldest packet of a queue is taken from it.
LEMMA OldestQueued ==
  ASSUME NEW y, NEW ps, NEW from \in Nat, NEW t, Queued(y, ps, from, t), t # << >>
  PROVE  OldestGone(y, ps, from, t)
<1>1. t \in Seq(Seq(Bit))
  BY DEF Queued
<1>2. PICK N \in Nat : Len(t) = N + 1
  <2>1. Len(t) \in Nat \ {0}
    BY <1>1, LenProperties, EmptySeq
  <2>2. Len(t) - 1 \in Nat /\ Len(t) = (Len(t) - 1) + 1
    BY <2>1
  <2> QED BY <2>2, ZenonT(40)
<1>3. PICK u : u = Tail(t)
  OBVIOUS
<1>4. u \in Seq(Seq(Bit)) /\ Len(u) = N
  BY <1>1, <1>2, <1>3, HeadTailProperties
<1>5. \A k \in 1 .. N : u[k] = t[k + 1]
  BY <1>1, <1>2, <1>3, <1>4, HeadTailProperties
<1>6. ASSUME NEW k \in 1 .. N PROVE u[k] = PacketBits(y, ps[(from + 1) + k])
  <2>1. k + 1 \in 1 .. Len(t) /\ from + (k + 1) = (from + 1) + k
    BY <1>2
  <2>2. t[k + 1] = PacketBits(y, ps[from + (k + 1)])
    BY <2>1 DEF Queued
  <2> QED BY <1>5, <2>1, <2>2
<1>7. Head(t) = t[1] /\ 1 \in 1 .. Len(t)
  BY <1>1, <1>2
<1>8. t[1] = PacketBits(y, ps[from + 1])
  BY <1>7 DEF Queued
<1>9. Queued(y, ps, from + 1, u)
  BY <1>4, <1>6 DEF Queued
<1> QED BY <1>2, <1>3, <1>4, <1>7, <1>8, <1>9 DEF OldestGone

\* The packet that comes next is put into a queue.
LEMMA QueuedBehind ==
  ASSUME NEW y, NEW ps, NEW from \in Nat, NEW t, Queued(y, ps, from, t), NEW b \in Seq(Bit),
         b = PacketBits(y, ps[from + Len(t) + 1])
  PROVE  Queued(y, ps, from, Append(t, b)) /\ Len(Append(t, b)) = Len(t) + 1
<1>1. PICK N \in Nat : N = Len(t) /\ t \in Seq(Seq(Bit))
  BY LenProperties DEF Queued
<1>3. PICK u : u = Append(t, b)
  OBVIOUS
<1>4. u \in Seq(Seq(Bit)) /\ Len(u) = N + 1
  BY <1>1, <1>3, AppendProperties
<1>5. u[N + 1] = b /\ \A k \in 1 .. N : u[k] = t[k]
  BY <1>1, <1>3, AppendProperties
<1>8. ASSUME NEW k \in 1 .. N + 1 PROVE u[k] = PacketBits(y, ps[from + k])
  <2>1. CASE k = N + 1
    <3>1. from + k = from + N + 1
      BY <2>1
    <3>2. b = PacketBits(y, ps[from + N + 1])
      BY <1>1
    <3> QED BY <1>5, <2>1, <3>1, <3>2
  <2>2. CASE k \in 1 .. N
    <3>2. t[k] = PacketBits(y, ps[from + k])
      BY <1>1, <2>2 DEF Queued
    <3> QED BY <1>5, <2>2, <3>2
  <2> QED BY <2>1, <2>2
<1> QED BY <1>1, <1>3, <1>4, <1>8 DEF Queued

\* One frame more, or one packet more.
LEMMA OneFrameMore ==
  ASSUME NEW y, y.nsym_frame \in Nat \ {0}, NEW ps, NEW ph, NEW f, FramesSent(y, ps, ph, f),
         NEW out \in Seq(Phase), Len(out) = y.nsym_frame, Emitted(y, out, ps[Len(f) + 1])
  PROVE  FramesSent(y, ps, ph \o out, Append(f, out)) /\ Len(Append(f, out)) = Len(f) + 1
<1>1. Blocks(Phase, y.nsym_frame, ph, f) /\ f \in Seq(Seq(Phase)) /\ ph \in Seq(Phase)
  BY DEF FramesSent
<1>2. PICK n \in Nat \ {0} : n = y.nsym_frame
  OBVIOUS
<1>3. PICK N \in Nat : N = Len(f)
  BY <1>1, LenProperties
<1>4. PICK u : u = Append(f, out)
  OBVIOUS
<1>5. u \in Seq(Seq(Phase)) /\ Len(u) = N + 1
  BY <1>1, <1>3, <1>4, AppendProperties
<1>6. u[N + 1] = out /\ \A k \in 1 .. N : u[k] = f[k]
  BY <1>1, <1>3, <1>4, AppendProperties
<1>7. Blocks(Phase, n, ph \o out, u)
  BY <1>1, <1>2, <1>4, OneBlockMore
<1>8. ASSUME NEW k \in 1 .. N + 1 PROVE Emitted(y, u[k], ps[k])
  <2>1. CASE k = N + 1
    BY <1>3, <1>6, <2>1
  <2>2. CASE k \in 1 .. N
    BY <1>3, <1>6, <2>2 DEF FramesSent
  <2> QED BY <2>1, <2>2
<1>9. ph \o out \in Seq(Phase)
  BY <1>1, Concatenated
<1> QED BY <1>2, <1>3, <1>4, <1>5, <1>7, <1>8, <1>9 DEF FramesSent

\* A packet is added behind the others, and the frames sent stay what they were.
LEMMA StillSent ==
  ASSUME NEW y, NEW ps \in Seq(Seq(Byte)), NEW ph, NEW f, FramesSent(y, ps, ph, f),
         Len(f) <= Len(ps), NEW p \in Seq(Byte)
  PROVE  FramesSent(y, Append(ps, p), ph, f)
<1>1. PICK M \in Nat, N \in Nat : M = Len(ps) /\ N = Len(f) /\ N <= M
  BY LenProperties DEF FramesSent
<1>2. PICK v : v = Append(ps, p)
  OBVIOUS
<1>3. \A k \in 1 .. M : v[k] = ps[k]
  BY <1>1, <1>2, AppendProperties
<1>4. ASSUME NEW k \in 1 .. N PROVE Emitted(y, f[k], v[k])
  <2>1. k \in 1 .. M
    BY <1>1
  <2>2. Emitted(y, f[k], ps[k])
    BY <1>1 DEF FramesSent
  <2> QED BY <1>3, <2>1, <2>2
<1> QED BY <1>1, <1>2, <1>4 DEF FramesSent

-----------------------------------------------------------------------------
\* What the sender holds of packets that fill their frames: first the frames that it has
\* put out, then the chips of the packets that wait at the modulator, the bits of those in
\* zeropadding_b, and the messages in front of it.
MappedTo(y, w, port) == [k \in 1 .. Len(w) |-> CodewordMapper(y, Deinterleave(w[k], port))]
ChipsQueued(y, w, port, s) == Blocks(Chip, y.nsym_frame - Len(y.header), s, MappedTo(y, w, port))
BitsQueued(y, b, s) == Blocks(Bit, PhrLen + 8 * y.size, s, b)
Stages(y, ps, ph, chips, bits, msgs, eof, f, w, b, m) ==
  /\ FramesSent(y, ps, ph, f)
  /\ Queued(y, ps, Len(f), w)
  /\ Queued(y, ps, Len(f) + Len(w), b)
  /\ Queued(y, ps, Len(f) + Len(w) + Len(b), m)
  /\ Len(f) + Len(w) + Len(b) + Len(m) = Len(ps)
  /\ ChipsQueued(y, w, 0, chips[0]) /\ ChipsQueued(y, w, 1, chips[1])
  /\ BitsQueued(y, b, bits)
  /\ msgs = m \/ (eof /\ msgs = Append(m, EOF))
InTransit(y, ps, ph, chips, bits, msgs, eof) ==
  \E f, w, b, m : Stages(y, ps, ph, chips, bits, msgs, eof, f, w, b, m)
Fill(y, ps) == ps \in Seq(Seq(Byte)) /\ \A i \in 1 .. Len(ps) : Len(ps[i]) = y.size

\* The types of the stages.
LEMMA StagesCounted ==
  ASSUME NEW y, NEW ps, NEW ph, NEW c, NEW bits, NEW msgs, NEW eof, NEW f, NEW w, NEW b, NEW m,
         Stages(y, ps, ph, c, bits, msgs, eof, f, w, b, m)
  PROVE  /\ f \in Seq(Seq(Phase)) /\ w \in Seq(Seq(Bit)) /\ b \in Seq(Seq(Bit)) /\ m \in Seq(Seq(Bit))
         /\ Len(f) \in Nat /\ Len(w) \in Nat /\ Len(b) \in Nat /\ Len(m) \in Nat
<1>1. f \in Seq(Seq(Phase)) /\ w \in Seq(Seq(Bit)) /\ b \in Seq(Seq(Bit)) /\ m \in Seq(Seq(Bit))
  BY DEF Stages, FramesSent, Queued
<1> QED BY <1>1, LenProperties

\* The lengths of a layer without zeros.
LEMMA PerFrame ==
  ASSUME NEW y, NEW n, Carries(y, n)
  PROVE  /\ y.nsym_frame - Len(y.header) = CodeLen(y) * n /\ CodeLen(y) * n \in Nat \ {0}
         /\ y.nsym_frame \in Nat \ {0}
         /\ PhrLen + 8 * y.size = 2 * (3 * n) /\ PhrLen + 8 * y.size \in Nat \ {0}
         /\ n \in Nat \ {0} /\ 3 * n \in Nat \ {0}
         /\ Unpadded(y) /\ Coded(y) /\ y.bits_per_symbol = 3 /\ y.padded_zeros = 0 /\ y.intlv_seq = << >>
<1>1. Unpadded(y) /\ y.size \in Nat /\ n \in Nat \ {0} /\ PhrLen + 8 * y.size = 6 * n
      /\ y.nsym_frame = Len(y.header) + CodeLen(y) * n
  BY DEF Carries
<1>2. Coded(y) /\ Layered(y) /\ y.padded_zeros = 0 /\ y.intlv_seq = << >>
  BY <1>1 DEF Unpadded
<1>3. PICK L \in Nat \ {0} : L = CodeLen(y)
  BY <1>2 DEF Coded
<1>4. PICK x \in Nat \ {0} : x = L * n
  <2>1. L * n \in Nat \ {0}
    BY <1>1
  <2> QED BY <2>1
<1>5. PICK H \in Nat : H = Len(y.header)
  <2>1. y.header \in Seq(Chip)
    BY <1>2 DEF Layered
  <2> QED BY <2>1, LenProperties
<1>6. y.nsym_frame = H + x
  BY <1>1, <1>3, <1>4, <1>5
<1>7. y.nsym_frame - Len(y.header) = x /\ y.nsym_frame \in Nat \ {0}
  BY <1>5, <1>6
<1>8. 6 * n = 2 * (3 * n) /\ 6 * n \in Nat \ {0} /\ 3 * n \in Nat \ {0}
  BY <1>1
<1>9. y.bits_per_symbol = 3
  BY <1>2 DEF Coded
<1> QED BY <1>1, <1>2, <1>3, <1>4, <1>7, <1>8, <1>9

\* phr_prefixer takes a packet.
LEMMA StepAccept ==
  ASSUME NEW y, NEW n, Carries(y, n), NEW ps, Fill(y, ps), NEW ph, NEW c, NEW bits, NEW msgs, NEW eof,
         InTransit(y, ps, ph, c, bits, msgs, eof), ~ eof, NEW p \in Seq(Byte), Len(p) = y.size
  PROVE  InTransit(y, Append(ps, p), ph, c, bits, Append(msgs, PrefixPhr(y.phr, p)), eof)
<1>1. PICK f, w, b, m : Stages(y, ps, ph, c, bits, msgs, eof, f, w, b, m)
  BY DEF InTransit
<1>2. /\ f \in Seq(Seq(Phase)) /\ w \in Seq(Seq(Bit)) /\ b \in Seq(Seq(Bit)) /\ m \in Seq(Seq(Bit))
      /\ Len(f) \in Nat /\ Len(w) \in Nat /\ Len(b) \in Nat /\ Len(m) \in Nat
  BY <1>1, StagesCounted
<1>3. PICK F \in Nat, W \in Nat, B \in Nat, M \in Nat :
        F = Len(f) /\ W = Len(w) /\ B = Len(b) /\ M = Len(m)
  BY <1>2
<1>4. /\ FramesSent(y, ps, ph, f) /\ Queued(y, ps, F, w) /\ Queued(y, ps, F + W, b)
      /\ Queued(y, ps, F + W + B, m) /\ F + W + B + M = Len(ps) /\ msgs = m
      /\ ChipsQueued(y, w, 0, c[0]) /\ ChipsQueued(y, w, 1, c[1]) /\ BitsQueued(y, b, bits)
  BY <1>1, <1>3 DEF Stages
<1>5. ps \in Seq(Seq(Byte))
  BY DEF Fill
<1>6. PacketBits(y, p) \in Seq(Bit)
  BY BitsOfPacket DEF PacketBits
<1>7. PICK d \in Seq(Bit) : d = PacketBits(y, p) /\ d = PrefixPhr(y.phr, p)
  BY <1>6 DEF PacketBits, PrefixPhr
<1>8. PICK v : v = Append(ps, p)
  OBVIOUS
<1>9. FramesSent(y, v, ph, f)
  BY <1>3, <1>4, <1>5, <1>8, StillSent
<1>10. Queued(y, v, F, w)
  BY <1>3, <1>4, <1>5, <1>8, StillQueued
<1>11. Queued(y, v, F + W, b)
  <2>1. F + W \in Nat /\ (F + W) + B <= Len(ps)
    BY <1>4
  <2> QED BY <1>3, <1>4, <1>5, <1>8, <2>1, StillQueued
<1>12. PICK u : u = Append(m, d)
  OBVIOUS
<1>13. Queued(y, v, F + W + B, u)
  <2>1. F + W + B \in Nat /\ (F + W + B) + Len(m) = Len(ps)
    BY <1>3, <1>4
  <2> QED BY <1>4, <1>5, <1>7, <1>8, <1>12, <2>1, NewestQueued
<1>14. Len(u) = M + 1 /\ Len(v) = Len(ps) + 1
  BY <1>2, <1>3, <1>5, <1>7, <1>8, <1>12, AppendProperties
<1>15. F + W + B + Len(u) = Len(v)
  BY <1>4, <1>14
<1>16. Stages(y, v, ph, c, bits, u, eof, f, w, b, u)
  BY <1>3, <1>4, <1>9, <1>10, <1>11, <1>13, <1>15 DEF Stages
<1> QED BY <1>4, <1>7, <1>8, <1>12, <1>16 DEF InTransit

\* zeropadding_b takes a message.
LEMMA StepPad ==
  ASSUME NEW y, NEW n, Carries(y, n), NEW ps, Fill(y, ps), NEW ph, NEW c, NEW bits, NEW msgs, NEW eof,
         InTransit(y, ps, ph, c, bits, msgs, eof), msgs # << >>
  PROVE  /\ Head(msgs) = EOF => InTransit(y, ps, ph, c, bits, Tail(msgs), eof)
         /\ Head(msgs) # EOF =>
              InTransit(y, ps, ph, c, bits \o Head(msgs) \o [i \in 1 .. y.padded_zeros |-> 0], Tail(msgs), eof)
<1>1. PICK f, w, b, m : Stages(y, ps, ph, c, bits, msgs, eof, f, w, b, m)
  BY DEF InTransit
<1>2. /\ f \in Seq(Seq(Phase)) /\ w \in Seq(Seq(Bit)) /\ b \in Seq(Seq(Bit)) /\ m \in Seq(Seq(Bit))
      /\ Len(f) \in Nat /\ Len(w) \in Nat /\ Len(b) \in Nat /\ Len(m) \in Nat
  BY <1>1, StagesCounted
<1>3. PICK F \in Nat, W \in Nat, B \in Nat, M \in Nat :
        F = Len(f) /\ W = Len(w) /\ B = Len(b) /\ M = Len(m)
  BY <1>2
<1>4. /\ FramesSent(y, ps, ph, f) /\ Queued(y, ps, F, w) /\ Queued(y, ps, F + W, b)
      /\ Queued(y, ps, F + W + B, m) /\ F + W + B + M = Len(ps)
      /\ msgs = m \/ (eof /\ msgs = Append(m, EOF))
      /\ ChipsQueued(y, w, 0, c[0]) /\ ChipsQueued(y, w, 1, c[1]) /\ BitsQueued(y, b, bits)
  BY <1>1, <1>3 DEF Stages
<1>5. CASE m = << >>
  <2>1. msgs = Append(<< >>, EOF) /\ eof
    BY <1>4, <1>5
  <2>2. msgs = <<EOF>>
    BY <2>1
  <2>3. Head(msgs) = EOF /\ Tail(msgs) = << >>
    BY <2>2
  <2>4. Stages(y, ps, ph, c, bits, m, eof, f, w, b, m)
    BY <1>1 DEF Stages
  <2>5. InTransit(y, ps, ph, c, bits, m, eof)
    BY <2>4 DEF InTransit
  <2> QED BY <1>5, <2>3, <2>5
<1>6. CASE m # << >>
  <2>1. PICK d, r : d = Head(m) /\ r = Tail(m)
    OBVIOUS
  <2>2. /\ d = PacketBits(y, ps[F + W + B + 1]) /\ d = m[1] /\ Queued(y, ps, (F + W + B) + 1, r)
        /\ M = Len(r) + 1 /\ Len(r) \in Nat
    <3>1. F + W + B \in Nat
      OBVIOUS
    <3>2. PICK K \in Nat : K = F + W + B
      BY <3>1
    <3>3. OldestGone(y, ps, K, m)
      BY <1>4, <1>6, <3>2, OldestQueued
    <3> QED BY <1>3, <2>1, <3>2, <3>3 DEF OldestGone
  <2>3. PICK p \in Seq(Byte) : p = ps[F + W + B + 1] /\ Len(p) = y.size
    <3>1. F + W + B + 1 \in 1 .. Len(ps)
      BY <1>4, <2>2
    <3>2. ps \in Seq(Seq(Byte)) /\ \A i \in 1 .. Len(ps) : Len(ps[i]) = y.size
      BY DEF Fill
    <3>3. ps[F + W + B + 1] \in Seq(Byte)
      BY <3>1, <3>2, LenProperties
    <3> QED BY <3>1, <3>2, <3>3
  <2>4. d \in Seq(Bit) /\ Len(d) = 2 * (3 * n)
    BY <2>2, <2>3, BitsOfPacket DEF PacketBits
  <2>5. d # EOF
    <3>1. Len(d) \in Nat \ {0}
      BY <2>4, PerFrame
    <3> QED BY <2>4, <3>1, EmptySeq DEF EOF
  <2>6. Head(msgs) = d /\ (Tail(msgs) = r \/ (eof /\ Tail(msgs) = Append(r, EOF)))
    <3>1. CASE msgs = m
      BY <2>1, <3>1
    <3>2. CASE eof /\ msgs = Append(m, EOF)
      <4>1. PICK S : S = Seq(Bit)
        OBVIOUS
      <4>2. EOF \in S /\ m \in Seq(S)
        BY <1>2, <4>1, EmptySeq DEF EOF
      <4>3. Head(Append(m, EOF)) = Head(m) /\ Tail(Append(m, EOF)) = Append(Tail(m), EOF)
        BY <1>6, <4>2
      <4> QED BY <2>1, <3>2, <4>3
    <3> QED BY <1>4, <3>1, <3>2
  <2>7. PICK z : z = [i \in 1 .. y.padded_zeros |-> 0]
    OBVIOUS
  <2>8. bits \in Seq(Bit) /\ bits \o d \o z = bits \o d
    <3>1. z = << >>
      BY <2>7, PerFrame
    <3>2. bits \in Seq(Bit)
      BY <1>4 DEF BitsQueued, Blocks
    <3>3. bits \o d \in Seq(Bit)
      BY <2>4, <3>2, Concatenated
    <3>4. (bits \o d) \o << >> = bits \o d
      BY <3>3, ConcatEmptySeq
    <3> QED BY <3>1, <3>2, <3>4
  <2>9. PICK x : x = Append(b, d)
    OBVIOUS
  <2>10. Queued(y, ps, F + W, x) /\ Len(x) = B + 1
    <3>1. PICK K \in Nat : K = F + W /\ K + Len(b) + 1 = F + W + B + 1
      BY <1>3
    <3>2. d = PacketBits(y, ps[K + Len(b) + 1]) /\ Queued(y, ps, K, b)
      BY <1>4, <2>2, <3>1
    <3>3. Queued(y, ps, K, Append(b, d)) /\ Len(Append(b, d)) = Len(b) + 1
      BY <2>4, <3>2, QueuedBehind
    <3> QED BY <1>3, <2>9, <3>1, <3>3
  <2>11. BitsQueued(y, x, bits \o d)
    <3>1. PICK K \in Nat \ {0} : K = PhrLen + 8 * y.size /\ K = 2 * (3 * n)
      BY PerFrame
    <3>2. Blocks(Bit, K, bits, b)
      BY <1>4, <3>1 DEF BitsQueued
    <3>3. Blocks(Bit, K, bits \o d, Append(b, d))
      BY <1>2, <2>4, <2>8, <3>1, <3>2, OneBlockMore
    <3> QED BY <2>9, <3>1, <3>3 DEF BitsQueued
  <2>12. Queued(y, ps, F + W + Len(x), r) /\ F + W + Len(x) + Len(r) = Len(ps)
    <3>1. F + W + Len(x) = (F + W + B) + 1
      BY <2>10
    <3> QED BY <1>4, <2>2, <3>1, SMTT(40)
  <2>13. Stages(y, ps, ph, c, bits \o d, Tail(msgs), eof, f, w, x, r)
    BY <1>3, <1>4, <2>6, <2>10, <2>11, <2>12 DEF Stages
  <2>14. InTransit(y, ps, ph, c, bits \o d, Tail(msgs), eof)
    BY <2>13 DEF InTransit
  <2> QED BY <2>5, <2>6, <2>7, <2>8, <2>14
<1> QED BY <1>5, <1>6

\* zeropadding_b puts out what it holds, through codeword_mapper_bi of both ports.
LEMMA StepMap ==
  ASSUME NEW y, NEW n, Carries(y, n), NEW ps, NEW ph, NEW c, NEW bits, NEW msgs, NEW eof,
         InTransit(y, ps, ph, c, bits, msgs, eof), c[0] = << >>, NEW d,
         \A port \in {0, 1} : d[port] = CodewordMapper(y, Deinterleave(bits, port))
  PROVE  InTransit(y, ps, ph, d, << >>, msgs, eof)
<1>1. PICK f, w, b, m : Stages(y, ps, ph, c, bits, msgs, eof, f, w, b, m)
  BY DEF InTransit
<1>2. /\ f \in Seq(Seq(Phase)) /\ w \in Seq(Seq(Bit)) /\ b \in Seq(Seq(Bit)) /\ m \in Seq(Seq(Bit))
      /\ Len(f) \in Nat /\ Len(w) \in Nat /\ Len(b) \in Nat /\ Len(m) \in Nat
  BY <1>1, StagesCounted
<1>3. w = << >> /\ Len(w) = 0
  <2>1. ChipsQueued(y, w, 0, c[0])
    BY <1>1 DEF Stages
  <2>2. PICK K, t : K = y.nsym_frame - Len(y.header) /\ t = MappedTo(y, w, 0)
    OBVIOUS
  <2>3. Blocks(Chip, K, c[0], t)
    BY <2>1, <2>2 DEF ChipsQueued
  <2>4. t = << >>
    BY <2>3, BlocksLeft
  <2>5. t = [k \in 1 .. Len(w) |-> CodewordMapper(y, Deinterleave(w[k], 0))]
    BY <2>2 DEF MappedTo
  <2>6. PICK W \in Nat : W = Len(w)
    BY <1>2
  <2>8. Len(t) = W
    BY <2>5, <2>6
  <2>7. Len(w) = 0
    BY <2>4, <2>6, <2>8
  <2> QED BY <1>2, <2>7, EmptySeq
<1>4. PICK N \in Nat : N = Len(b)
  BY <1>2
<1>5. BitsQueued(y, b, bits)
  BY <1>1 DEF Stages
<1>6. ASSUME NEW port \in {0, 1} PROVE ChipsQueued(y, b, port, d[port])
  <2>1. PICK h \in Nat \ {0} : h = 3 * n /\ PhrLen + 8 * y.size = 2 * h
    BY PerFrame
  <2>2. Blocks(Bit, 2 * h, bits, b)
    BY <1>5, <2>1 DEF BitsQueued
  <2>3. PICK e, t : e = Deinterleave(bits, port) /\ t = [k \in 1 .. Len(b) |-> Deinterleave(b[k], port)]
    OBVIOUS
  <2>4. Blocks(Bit, h, e, t)
    <3>1. bits \in Seq(Bit)
      BY <2>2 DEF Blocks
    <3> QED BY <1>2, <2>2, <2>3, <3>1, HalvesOfBlocks
  <2>5. e \in Seq(Bit) /\ t \in Seq(Seq(Bit))
    BY <2>4 DEF Blocks
  <2>6. Len(t) = N /\ \A k \in 1 .. N : t[k] = Deinterleave(b[k], port)
    BY <1>4, <2>3, <2>5
  <2>7. PICK g, u : g = CodewordMapper(y, e) /\ u = [k \in 1 .. Len(t) |-> CodewordMapper(y, t[k])]
    OBVIOUS
  <2>8. Blocks(Chip, CodeLen(y) * n, g, u)
    <3>1. Coded(y) /\ n \in Nat \ {0} /\ Blocks(Bit, 3 * n, e, t)
      BY <2>1, <2>4, PerFrame
    <3> QED BY <2>5, <2>7, <3>1, CodewordsOfBlocks
  <2>9. u = MappedTo(y, b, port)
    <3>1. u = [k \in 1 .. N |-> CodewordMapper(y, t[k])]
      BY <2>6, <2>7
    <3>2. u = [k \in 1 .. N |-> CodewordMapper(y, Deinterleave(b[k], port))]
      BY <2>6, <3>1
    <3> QED BY <1>4, <3>2 DEF MappedTo
  <2>10. d[port] = g
    BY <2>3, <2>7
  <2>11. y.nsym_frame - Len(y.header) = CodeLen(y) * n
    BY PerFrame
  <2> QED BY <2>8, <2>9, <2>10, <2>11 DEF ChipsQueued
<1>7. BitsQueued(y, << >>, << >>)
  <2>1. PICK K \in Nat \ {0} : K = PhrLen + 8 * y.size
    BY PerFrame
  <2> QED BY <2>1, NoBlocks DEF BitsQueued
<1>8. PICK F \in Nat, M \in Nat : F = Len(f) /\ M = Len(m)
  BY <1>2
<1>9. /\ FramesSent(y, ps, ph, f) /\ Queued(y, ps, F + 0, b) /\ Queued(y, ps, (F + 0) + N, m)
      /\ F + 0 + N + M = Len(ps) /\ (msgs = m \/ (eof /\ msgs = Append(m, EOF)))
  BY <1>1, <1>3, <1>4, <1>8 DEF Stages
<1>10. PICK e : e = << >> /\ Len(e) = 0
  OBVIOUS
<1>11. Queued(y, ps, F, b) /\ Queued(y, ps, F + N + 0, m) /\ F + N + 0 + M = Len(ps)
  <2>1. F + 0 = F /\ (F + 0) + N = F + N + 0 /\ F + 0 + N + M = F + N + 0 + M
    OBVIOUS
  <2> QED BY <1>9, <2>1
<1>12. Queued(y, ps, F + N, e)
  <2>1. e \in Seq(Seq(Bit))
    BY <1>10, EmptySeq
  <2> QED BY <1>10, <2>1 DEF Queued
<1>13. Stages(y, ps, ph, d, e, msgs, eof, f, b, e, m)
  <2>1. ChipsQueued(y, b, 0, d[0]) /\ ChipsQueued(y, b, 1, d[1])
    BY <1>6
  <2> QED BY <1>4, <1>7, <1>8, <1>9, <1>10, <1>11, <1>12, <2>1 DEF Stages
<1> QED BY <1>10, <1>13 DEF InTransit

\* The chips of a frame go through the modulator.
OneFrameOn(y, ps, ph, c, bits, msgs, eof, K, i, r, d) ==
  /\ i.state = 0 /\ r.state = FreshMemory
  /\ InTransit(y, ps, ph \o r.out, d, bits, msgs, eof)
  /\ \A port \in {0, 1} : K <= Len(c[port])

\* A pass of the modulator on the chips of one frame.
LEMMA StepModulate ==
  ASSUME NEW y, NEW n, Carries(y, n), NEW ps, Fill(y, ps), NEW ph, NEW c, NEW bits, NEW msgs, NEW eof,
         InTransit(y, ps, ph, c, bits, msgs, eof), c[0] # << >>,
         NEW K, K = y.nsym_frame - Len(y.header),
         NEW i, i = RunPrefixer(y, 0, SubSeq(c[0], 1, K)),
         NEW q, q = RunPrefixer(y, 0, SubSeq(c[1], 1, K)),
         NEW r, r = RunDqpsk(y, TRUE, FreshMemory,
                             [k \in DOMAIN i.out |-> QpskPhase(i.out[k], q.out[k])]),
         NEW d, \A port \in {0, 1} : d[port] = SubSeq(c[port], K + 1, Len(c[port]))
  PROVE  OneFrameOn(y, ps, ph, c, bits, msgs, eof, K, i, r, d)
<1>1. PICK f, w, b, m : Stages(y, ps, ph, c, bits, msgs, eof, f, w, b, m)
  BY DEF InTransit
<1>2. /\ f \in Seq(Seq(Phase)) /\ w \in Seq(Seq(Bit)) /\ b \in Seq(Seq(Bit)) /\ m \in Seq(Seq(Bit))
      /\ Len(f) \in Nat /\ Len(w) \in Nat /\ Len(b) \in Nat /\ Len(m) \in Nat
  BY <1>1, StagesCounted
<1>3. PICK F \in Nat, W \in Nat, B \in Nat, M \in Nat :
        F = Len(f) /\ W = Len(w) /\ B = Len(b) /\ M = Len(m)
  BY <1>2
<1>4. /\ FramesSent(y, ps, ph, f) /\ Queued(y, ps, F, w) /\ Queued(y, ps, F + W, b)
      /\ Queued(y, ps, F + W + B, m) /\ F + W + B + M = Len(ps)
      /\ msgs = m \/ (eof /\ msgs = Append(m, EOF))
      /\ ChipsQueued(y, w, 0, c[0]) /\ ChipsQueued(y, w, 1, c[1]) /\ BitsQueued(y, b, bits)
  BY <1>1, <1>3 DEF Stages
<1>5. K \in Nat \ {0} /\ y.nsym_frame \in Nat \ {0}
  BY PerFrame
<1>6. \A port \in {0, 1} : Blocks(Chip, K, c[port], MappedTo(y, w, port))
  BY <1>4 DEF ChipsQueued
<1>7. w # << >>
  <2>1. Blocks(Chip, K, c[0], MappedTo(y, w, 0))
    BY <1>6
  <2>2. PICK t : t = MappedTo(y, w, 0)
    OBVIOUS
  <2>3. t # << >> /\ t \in Seq(Seq(Chip))
    <3>1. Blocks(Chip, K, c[0], t)
      BY <2>1, <2>2
    <3>2. t # << >>
      BY <3>1, BlocksLeft
    <3> QED BY <3>1, <3>2 DEF Blocks
  <2>4. t = [k \in 1 .. W |-> CodewordMapper(y, Deinterleave(w[k], 0))]
    BY <1>3, <2>2 DEF MappedTo
  <2>5. Len(t) = W
    BY <2>4
  <2>6. W # 0
    BY <2>3, <2>5, EmptySeq
  <2> QED BY <1>3, <2>6
<1>8. PICK v : v = Tail(w)
  OBVIOUS
<1>9. /\ w[1] = PacketBits(y, ps[F + 1]) /\ Queued(y, ps, F + 1, v)
      /\ W = Len(v) + 1 /\ Len(v) \in Nat
  <2>1. Queued(y, ps, F, w) /\ w # << >> /\ W = Len(w)
    BY <1>3, <1>4, <1>7
  <2>2. OldestGone(y, ps, F, w)
    BY <2>1, OldestQueued
  <2>3. /\ w[1] = PacketBits(y, ps[F + 1]) /\ Queued(y, ps, F + 1, v)
        /\ Len(w) = Len(v) + 1 /\ Len(v) \in Nat
    BY <1>8, <2>2 DEF OldestGone
  <2> QED BY <1>3, <2>3
<1>10. PICK p \in Seq(Byte) : p = ps[F + 1] /\ Len(p) = y.size
  <2>1. F + 1 \in 1 .. Len(ps)
    BY <1>4, <1>9
  <2>2. ps \in Seq(Seq(Byte)) /\ \A k \in 1 .. Len(ps) : Len(ps[k]) = y.size
    BY DEF Fill
  <2>3. ps[F + 1] \in Seq(Byte)
    BY <2>1, <2>2, LenProperties
  <2> QED BY <2>1, <2>2, <2>3
<1>11. ASSUME NEW port \in {0, 1}
       PROVE  /\ SubSeq(c[port], 1, K) = PortChips(y, Unpack(p), port)
              /\ ChipsQueued(y, v, port, d[port]) /\ K <= Len(c[port])
  <2>1. PICK t : t = MappedTo(y, w, port)
    OBVIOUS
  <2>2. Blocks(Chip, K, c[port], t) /\ c[port] \in Seq(Chip) /\ t \in Seq(Seq(Chip))
    <3>1. Blocks(Chip, K, c[port], t)
      BY <1>6, <2>1
    <3> QED BY <3>1 DEF Blocks
  <2>3. t = [k \in 1 .. W |-> CodewordMapper(y, Deinterleave(w[k], port))]
    BY <1>3, <2>1 DEF MappedTo
  <2>4. Len(t) = W /\ \A k \in 1 .. W : t[k] = CodewordMapper(y, Deinterleave(w[k], port))
    BY <2>2, <2>3
  <2>5. t # << >>
    BY <1>9, <2>2, <2>4
  <2>6. /\ SubSeq(c[port], 1, K) = t[1] /\ K <= Len(c[port])
        /\ Blocks(Chip, K, SubSeq(c[port], K + 1, Len(c[port])), Tail(t))
    <3>1. PICK s \in Seq(Chip), k \in Nat \ {0} : s = c[port] /\ k = K
      BY <1>5, <2>2
    <3>2. Blocks(Chip, k, s, t)
      BY <2>2, <3>1
    <3>3. SubSeq(s, 1, k) = t[1] /\ k <= Len(s)
      BY SMTT(60), <2>2, <2>5, <3>2, FirstBlock
    <3>4. Blocks(Chip, k, SubSeq(s, k + 1, Len(s)), Tail(t))
      BY <2>2, <2>5, <3>2, FirstBlock
    <3> QED BY <3>1, <3>3, <3>4
  <2>7. t[1] = PortChips(y, Unpack(p), port)
    <3>1. 1 \in 1 .. W
      BY <1>9
    <3>2. t[1] = CodewordMapper(y, Deinterleave(w[1], port))
      BY <2>4, <3>1
    <3>3. w[1] = y.phr \o Unpack(p)
      BY <1>9, <1>10 DEF PacketBits
    <3> QED BY <3>2, <3>3 DEF PortChips
  <2>8. Tail(t) = MappedTo(y, v, port)
    <3>1. PICK N \in Nat : N = Len(v) /\ W = N + 1
      BY <1>9
    <3>2. PICK x : x = MappedTo(y, v, port)
      OBVIOUS
    <3>3. x = [k \in 1 .. N |-> CodewordMapper(y, Deinterleave(v[k], port))]
      BY <3>1, <3>2 DEF MappedTo
    <3>4. ASSUME NEW k \in 1 .. N
          PROVE  CodewordMapper(y, Deinterleave(v[k], port)) = t[k + 1]
      <4>1. v[k] = w[k + 1]
        <5>1. Len(Tail(w)) = N
          BY <1>8, <3>1
        <5>2. Tail(w)[k] = w[k + 1]
          BY <1>2, <1>7, <5>1, HeadTailProperties
        <5> QED BY <1>8, <5>2
      <4>2. k + 1 \in 1 .. W
        BY <3>1
      <4> QED BY <2>4, <4>1, <4>2
    <3>5. x = [k \in 1 .. N |-> t[k + 1]]
      BY <3>3, <3>4
    <3>6. PICK z : z = Tail(t)
      OBVIOUS
    <3>7. z \in Seq(Seq(Chip)) /\ Len(z) = Len(t) - 1 /\ \A k \in 1 .. Len(z) : z[k] = t[k + 1]
      BY <2>2, <2>5, <3>6, HeadTailProperties
    <3>8. Len(z) = N
      BY <2>4, <3>1, <3>7
    <3>9. z = [k \in 1 .. N |-> z[k]]
      BY <3>7, <3>8, LenProperties
    <3>10. z = [k \in 1 .. N |-> t[k + 1]]
      BY <3>7, <3>8, <3>9
    <3> QED BY <3>2, <3>5, <3>6, <3>10
  <2>9. Blocks(Chip, y.nsym_frame - Len(y.header), d[port], MappedTo(y, v, port))
    BY <2>6, <2>8, ZenonT(30)
  <2> QED BY <2>6, <2>7, <2>9 DEF ChipsQueued
<1>12. /\ i.state = 0 /\ r.state = FreshMemory
       /\ r.out \in Seq(Phase) /\ Len(r.out) = y.nsym_frame /\ Emitted(y, r.out, p)
  <2>1. /\ i = RunPrefixer(y, 0, PortChips(y, Unpack(p), 0))
        /\ q = RunPrefixer(y, 0, PortChips(y, Unpack(p), 1))
    BY <1>11
  <2>2. PutOut(y, p, i, r)
    BY <1>10, <2>1, PacketModulated
  <2> QED BY <2>2, ZenonT(30) DEF PutOut
<1>13. PICK g : g = Append(f, r.out)
  BY ZenonT(30)
<1>14. FramesSent(y, ps, ph \o r.out, g) /\ Len(g) = F + 1
  <2>1. PICK out \in Seq(Phase) : out = r.out /\ Len(out) = y.nsym_frame
    BY <1>12, ZenonT(30)
  <2>2. Emitted(y, out, ps[Len(f) + 1])
    BY <1>3, <1>10, <1>12, <2>1, ZenonT(30)
  <2>3. FramesSent(y, ps, ph \o out, Append(f, out))
    BY <1>4, <1>5, <2>1, <2>2, OneFrameMore, ZenonT(30)
  <2>4. Len(Append(f, out)) = Len(f) + 1
    BY <1>2, <2>1, AppendProperties
  <2> QED BY <1>3, <1>13, <2>1, <2>3, <2>4, ZenonT(30)
<1>15. PICK V \in Nat : V = Len(v) /\ W = V + 1
  BY <1>9
<1>16. Stages(y, ps, ph \o r.out, d, bits, msgs, eof, g, v, b, m)
  <2>4. PICK L : L = Len(ps) /\ F + W + B + M = L
    BY <1>4
  <2>5. (F + 1) + V = F + W /\ (F + 1) + V + B = F + W + B /\ (F + 1) + V + B + M = L
    BY <1>15, <2>4
  <2>1. (F + 1) + V = F + W /\ (F + 1) + V + B = F + W + B /\ (F + 1) + V + B + M = Len(ps)
    BY <2>4, <2>5
  <2>2. Queued(y, ps, (F + 1) + V, b) /\ Queued(y, ps, (F + 1) + V + B, m)
    BY <1>4, <2>1
  <2>3. ChipsQueued(y, v, 0, d[0]) /\ ChipsQueued(y, v, 1, d[1])
    BY <1>11
  <2> QED BY <1>3, <1>4, <1>9, <1>14, <1>15, <2>1, <2>2, <2>3, ZenonT(40) DEF Stages
<1> QED BY <1>11, <1>12, <1>16, ZenonT(40) DEF InTransit, OneFrameOn

-----------------------------------------------------------------------------
(***************************************************************************)
(* The sender of frames that packets fill: nothing is left in a block      *)
(* between two packets, and all that is on its way is accounted for.       *)
(***************************************************************************)
Filling == ~ crossed /\ phy.padded_zeros = 0 /\ Fill(phy, packets)
Clear ==
  /\ toMapper = [p \in Ports |-> << >>] /\ toIntlv = [p \in Ports |-> << >>]
  /\ prefixer = 0 /\ dqpsk = FreshMemory
  /\ InTransit(phy, packets, phases, toPrefixer, dbuf, toPad, done.phr)
Layer == \E s \in Setups : phy = PhysicalLayer(s.slow, s.size, s.chirp)
SenderInv ==
  /\ Layer
  /\ packets \in Seq(Seq(Byte)) /\ done \in [phr : BOOLEAN, pad : BOOLEAN]
  /\ Filling => Clear

\* A layer without zeros holds whole codewords.
LEMMA Carrying ==
  ASSUME Layer, phy.padded_zeros = 0
  PROVE  \E n : Carries(phy, n)
BY LayerOfSetup DEF Layer

\* At first nothing is on its way.
LEMMA NothingInTransit ==
  ASSUME NEW y, NEW n, Carries(y, n), NEW c, c[0] = << >>, c[1] = << >>, NEW eof
  PROVE  InTransit(y, << >>, << >>, c, << >>, << >>, eof)
<1>1. PICK e : e = << >>
  OBVIOUS
<1>2. e \in Seq(Seq(Phase)) /\ e \in Seq(Phase) /\ e \in Seq(Seq(Bit)) /\ Len(e) = 0
  BY <1>1, EmptySeq
<1>3. FramesSent(y, e, e, e)
  <2>1. PICK m \in Nat \ {0} : m = y.nsym_frame
    BY PerFrame
  <2>2. Blocks(Phase, m, e, e)
    BY <1>1, NoBlocks
  <2> QED BY <1>2, <2>1, <2>2 DEF FramesSent
<1>4. \A k \in Nat : Queued(y, e, k, e)
  BY <1>2 DEF Queued
<1>5. ASSUME NEW port \in {0, 1} PROVE ChipsQueued(y, e, port, e)
  <2>1. PICK m \in Nat \ {0} : m = y.nsym_frame - Len(y.header)
    BY PerFrame
  <2>2. MappedTo(y, e, port) = e
    <3>1. MappedTo(y, e, port) = [k \in 1 .. 0 |-> CodewordMapper(y, Deinterleave(e[k], port))]
      BY <1>2 DEF MappedTo
    <3>2. 1 .. 0 = {}
      OBVIOUS
    <3> QED BY <1>1, <3>1, <3>2
  <2>3. Blocks(Chip, m, e, e)
    BY <1>1, NoBlocks
  <2> QED BY <2>1, <2>2, <2>3 DEF ChipsQueued
<1>6. BitsQueued(y, e, e)
  <2>1. PICK m \in Nat \ {0} : m = PhrLen + 8 * y.size
    BY PerFrame
  <2>2. Blocks(Bit, m, e, e)
    BY <1>1, NoBlocks
  <2> QED BY <2>1, <2>2 DEF BitsQueued
<1>7. 0 + 0 = 0 /\ 0 + 0 + 0 = 0 /\ 0 + 0 + 0 + 0 = 0 /\ 0 \in Nat
  OBVIOUS
<1>8. c[0] = e /\ c[1] = e /\ ChipsQueued(y, e, 0, e) /\ ChipsQueued(y, e, 1, e)
  BY <1>1, <1>5
<1>9. Stages(y, e, e, c, e, e, eof, e, e, e, e)
  BY <1>2, <1>3, <1>4, <1>6, <1>7, <1>8 DEF Stages
<1> QED BY <1>1, <1>9 DEF InTransit

\* The invariant holds at first.
LEMMA SenderBegins == Init => SenderInv
<1> SUFFICES ASSUME Init PROVE SenderInv
  OBVIOUS
<1> USE DEF Init, SenderInit
<1>1. Layer
  BY DEF Layer
<1>2. packets \in Seq(Seq(Byte)) /\ done \in [phr : BOOLEAN, pad : BOOLEAN]
  BY EmptySeq
<1>3. ASSUME Filling PROVE Clear
  <2>1. PICK n : Carries(phy, n)
    BY <1>1, <1>3, Carrying DEF Filling
  <2>2. toPrefixer[0] = << >> /\ toPrefixer[1] = << >>
    BY DEF Ports
  <2>3. InTransit(phy, << >>, << >>, toPrefixer, << >>, << >>, done.phr)
    BY <2>1, <2>2, NothingInTransit
  <2> QED BY <2>3 DEF Clear
<1> QED BY <1>1, <1>2, <1>3 DEF SenderInv

\* phr_prefixer accepts a packet: one that does not fill its frame ends the claim for good.
LEMMA Accepts ==
  ASSUME SenderInv, NEW p \in Seq(Byte), PrefixPhrHandler(p)
  PROVE  SenderInv'
<1> USE DEF PrefixPhrHandler
<1>1. Layer' /\ Layer
  BY DEF SenderInv, Layer
<1>2. packets \in Seq(Seq(Byte)) /\ packets' = Append(packets, p)
  BY DEF SenderInv
<1>3. packets' \in Seq(Seq(Byte)) /\ done' \in [phr : BOOLEAN, pad : BOOLEAN]
  BY <1>2, AppendProperties DEF SenderInv
<1>4. ASSUME Filling' PROVE Clear'
  <2>1. phy' = phy /\ crossed' = crossed /\ done' = done
    OBVIOUS
  <2>2. ~ crossed /\ phy.padded_zeros = 0 /\ Fill(phy, packets')
    BY <1>4, <2>1 DEF Filling
  <2>3. PICK N \in Nat : N = Len(packets)
    BY <1>2, LenProperties
  <2>4. /\ Len(packets') = N + 1 /\ packets'[N + 1] = p
        /\ \A i \in 1 .. N : packets'[i] = packets[i]
    BY <1>2, <2>3, AppendProperties
  <2>5. \A i \in 1 .. N + 1 : Len(packets'[i]) = phy.size
    BY <2>2, <2>4 DEF Fill
  <2>6. Len(p) = phy.size
    <3>1. N + 1 \in 1 .. N + 1
      OBVIOUS
    <3> QED BY <2>4, <2>5, <3>1
  <2>7. Fill(phy, packets)
    BY <1>2, <2>3, <2>4, <2>5, SMTT(40) DEF Fill
  <2>8. Clear
    BY <2>2, <2>7 DEF SenderInv, Filling
  <2>9. PICK n : Carries(phy, n)
    BY <1>1, <2>2, Carrying
  <2>10. ~ done.phr
    OBVIOUS
  <2>11. InTransit(phy, packets, phases, toPrefixer, dbuf, toPad, done.phr)
    BY <2>8 DEF Clear
  <2>12. InTransit(phy, Append(packets, p), phases, toPrefixer, dbuf,
                   Append(toPad, PrefixPhr(phy.phr, p)), done.phr)
    BY <2>6, <2>7, <2>9, <2>10, <2>11, StepAccept
  <2> QED BY <2>8, <2>12 DEF Clear
<1> QED BY <1>1, <1>3, <1>4 DEF SenderInv

\* The end of a file goes the way of the packets.
LEMMA EndsFile ==
  ASSUME SenderInv, PrefixPhrEof
  PROVE  SenderInv'
<1> USE DEF PrefixPhrEof
<1>1. Layer'
  BY DEF SenderInv, Layer
<1>2. packets' \in Seq(Seq(Byte)) /\ done' \in [phr : BOOLEAN, pad : BOOLEAN] /\ done'.phr = TRUE
  BY DEF SenderInv
<1>3. ASSUME Filling' PROVE Clear'
  <2>1. Clear
    BY <1>3 DEF SenderInv, Filling, Fill
  <2>2. InTransit(phy, packets, phases, toPrefixer, dbuf, toPad, done.phr) /\ ~ done.phr
    BY <2>1 DEF Clear
  <2>3. PICK f, w, b, m : Stages(phy, packets, phases, toPrefixer, dbuf, toPad, done.phr, f, w, b, m)
    BY <2>2 DEF InTransit
  <2>4. toPad = m /\ toPad' = Append(m, EOF)
    BY <2>2, <2>3 DEF Stages
  <2>5. Stages(phy, packets, phases, toPrefixer, dbuf, toPad', done'.phr, f, w, b, m)
    BY <1>2, <2>3, <2>4 DEF Stages
  <2>6. InTransit(phy, packets, phases, toPrefixer, dbuf, toPad', done'.phr)
    BY <2>5 DEF InTransit
  <2> QED BY <2>1, <2>6 DEF Clear
<1> QED BY <1>1, <1>2, <1>3 DEF SenderInv

\* zeropadding_b takes a message.
LEMMA Pads ==
  ASSUME SenderInv, PadZeros
  PROVE  SenderInv'
<1> USE DEF PadZeros
<1>1. Layer' /\ Layer
  BY DEF SenderInv, Layer
<1>2. packets' \in Seq(Seq(Byte)) /\ done' \in [phr : BOOLEAN, pad : BOOLEAN] /\ done'.phr = done.phr
  BY DEF SenderInv
<1>3. ASSUME Filling' PROVE Clear'
  <2>1. Filling /\ Clear
    BY <1>3 DEF SenderInv, Filling, Fill
  <2>2. InTransit(phy, packets, phases, toPrefixer, dbuf, toPad, done.phr)
    BY <2>1 DEF Clear
  <2>3. PICK n : Carries(phy, n)
    BY <1>1, <2>1, Carrying DEF Filling
  <2>4. Fill(phy, packets) /\ toPad # << >>
    BY <2>1 DEF Filling
  <2>5. Head(toPad) = EOF => InTransit(phy, packets, phases, toPrefixer, dbuf, Tail(toPad), done.phr)
    BY <2>2, <2>3, <2>4, StepPad
  <2>6. Head(toPad) # EOF =>
          InTransit(phy, packets, phases, toPrefixer,
                    dbuf \o Head(toPad) \o [i \in 1 .. phy.padded_zeros |-> 0], Tail(toPad), done.phr)
    BY <2>2, <2>3, <2>4, StepPad
  <2>7. InTransit(phy, packets, phases, toPrefixer, dbuf', toPad', done.phr)
    BY <2>5, <2>6
  <2> QED BY <1>2, <2>1, <2>7 DEF Clear
<1> QED BY <1>1, <1>2, <1>3 DEF SenderInv

\* Of whole blocks nothing is left.
LEMMA NothingRests ==
  ASSUME NEW S, NEW s \in Seq(S), NEW m \in Nat \ {0}, NEW x \in Nat, Len(s) = m * x
  PROVE  Rest(s, m) = << >> /\ Whole(s, m) = s
<1>1. PICK N \in Nat : N = Len(s) /\ N = m * x
  BY LenProperties
<1>2. Groups(s, m) = x
  <2>1. (m * x + 0) \div m = x
    <3>1. 0 \in 0 .. m - 1
      OBVIOUS
    <3> QED BY <3>1, Division
  <2>2. m * x + 0 = N
    BY <1>1
  <2> QED BY <1>1, <2>1, <2>2 DEF Groups
<1>3. Groups(s, m) * m = N
  BY <1>1, <1>2
<1>4. PICK r : r = Rest(s, m)
  OBVIOUS
<1>5. r = SubSeq(s, N + 1, N)
  BY <1>1, <1>3, <1>4 DEF Rest
<1>6. r = << >>
  BY <1>1, <1>5
<1>7. Whole(s, m) = SubSeq(s, 1, N)
  BY <1>3 DEF Whole
<1>8. SubSeq(s, 1, N) = s
  BY <1>1
<1> QED BY <1>4, <1>6, <1>7, <1>8

\* Chips wait at both ports or at none.
LEMMA BothPorts ==
  ASSUME NEW y, NEW ps, NEW ph, NEW c, NEW bits, NEW msgs, NEW eof,
         InTransit(y, ps, ph, c, bits, msgs, eof), c[0] = << >>
  PROVE  c[1] = << >>
<1>1. PICK f, w, b, m : Stages(y, ps, ph, c, bits, msgs, eof, f, w, b, m)
  BY DEF InTransit
<1>2. PICK N, K : N \in Nat /\ N = Len(w) /\ K = y.nsym_frame - Len(y.header)
  BY <1>1, StagesCounted
<1>3. PICK s, t : s = MappedTo(y, w, 0) /\ t = MappedTo(y, w, 1)
  OBVIOUS
<1>4. Blocks(Chip, K, c[0], s) /\ Blocks(Chip, K, c[1], t)
  BY <1>1, <1>2, <1>3 DEF Stages, ChipsQueued
<1>5. s \in Seq(Seq(Chip)) /\ t \in Seq(Seq(Chip))
  BY <1>4 DEF Blocks
<1>6. Len(s) = N /\ Len(t) = N
  <2>1. s = [k \in 1 .. N |-> CodewordMapper(y, Deinterleave(w[k], 0))]
    BY <1>2, <1>3 DEF MappedTo
  <2>2. t = [k \in 1 .. N |-> CodewordMapper(y, Deinterleave(w[k], 1))]
    BY <1>2, <1>3 DEF MappedTo
  <2>3. N \in Nat
    BY <1>2
  <2>4. Len(s) = N
    BY <1>5, <2>1, <2>3, LenProperties
  <2>5. Len(t) = N
    BY <1>5, <2>2, <2>3, LenProperties
  <2> QED BY <2>4, <2>5
<1>7. s = << >>
  BY <1>4, BlocksLeft
<1>8. t = << >>
  BY <1>5, <1>6, <1>7, EmptySeq
<1> QED BY <1>4, <1>8, BlocksLeft

\* What MapCodewords makes of a port in front of which nothing waits.
LEMMA MappedPort ==
  ASSUME NEW n, Carries(phy, n), Clear, NEW p \in {0, 1}
  PROVE  /\ Mapped(p).bits = << >> /\ Mapped(p).chips = << >>
         /\ Mapped(p).out = CodewordMapper(phy, Deinterleave(dbuf, p)) /\ Mapped(p).out \in Seq(Chip)
<1>1. InTransit(phy, packets, phases, toPrefixer, dbuf, toPad, done.phr)
  BY DEF Clear
<1>2. PICK f, w, b, m : Stages(phy, packets, phases, toPrefixer, dbuf, toPad, done.phr, f, w, b, m)
  BY <1>1 DEF InTransit
<1>3. b \in Seq(Seq(Bit)) /\ BitsQueued(phy, b, dbuf)
  BY <1>2, StagesCounted DEF Stages
<1>4. PICK h \in Nat \ {0} : h = 3 * n /\ PhrLen + 8 * phy.size = 2 * h
  BY PerFrame
<1>5. Blocks(Bit, 2 * h, dbuf, b)
  BY <1>3, <1>4 DEF BitsQueued
<1>6. dbuf \in Seq(Bit)
  BY <1>5 DEF Blocks
<1>7. PICK d, t : d = Deinterleave(dbuf, p) /\ t = [k \in 1 .. Len(b) |-> Deinterleave(b[k], p)]
  OBVIOUS
<1>8. Blocks(Bit, h, d, t)
  BY <1>3, <1>5, <1>6, <1>7, HalvesOfBlocks
<1>9. d \in Seq(Bit) /\ t \in Seq(Seq(Bit)) /\ Len(d) = h * Len(t)
  BY <1>8 DEF Blocks
<1>10. PICK g : g = CodewordMapper(phy, d)
  OBVIOUS
<1>11. g \in Seq(Chip)
  <2>1. PICK u : u = [k \in 1 .. Len(t) |-> CodewordMapper(phy, t[k])]
    OBVIOUS
  <2>2. Coded(phy) /\ n \in Nat \ {0} /\ Blocks(Bit, 3 * n, d, t)
    BY <1>4, <1>8, PerFrame
  <2>3. Blocks(Chip, CodeLen(phy) * n, g, u)
    BY <1>9, <1>10, <2>1, <2>2, CodewordsOfBlocks
  <2> QED BY <2>3 DEF Blocks
<1>12. phy.bits_per_symbol = 3 /\ phy.intlv_seq = << >> /\ n \in Nat \ {0}
  BY PerFrame
<1>13. p \in Ports /\ toMapper[p] = << >> /\ toIntlv[p] = << >>
  BY DEF Clear, Ports
<1>14. toMapper[p] \o d = d /\ toIntlv[p] \o g = g
  BY <1>9, <1>11, <1>13, ConcatEmptySeq
<1>15. Rest(d, 3) = << >>
  <2>1. PICK N \in Nat : N = Len(t)
    BY <1>9, LenProperties
  <2>2. PICK x \in Nat : x = n * N
    BY <1>12
  <2>3. PICK k : k = 3 /\ k \in Nat \ {0}
    OBVIOUS
  <2>4. Len(d) = k * x
    <3>1. (3 * n) * N = 3 * x
      BY <1>12, <2>2
    <3> QED BY <1>4, <1>9, <2>1, <2>3, <3>1
  <2> QED BY <1>9, <2>3, <2>4, NothingRests
<1>16. Rest(g, 1) = << >> /\ Whole(g, 1) = g
  <2>1. PICK N \in Nat : N = Len(g)
    BY <1>11, LenProperties
  <2>2. PICK k : k = 1 /\ k \in Nat \ {0}
    OBVIOUS
  <2>3. Len(g) = k * N
    BY <2>1, <2>2
  <2> QED BY <1>11, <2>2, <2>3, NothingRests
<1>17. BlockLen(phy.intlv_seq) = 1 /\ \A c : Interleaver(phy.intlv_seq, c) = c
  BY ZenonT(30), <1>12 DEF BlockLen, Interleaver
<1>18. Mapped(p) = [bits |-> Rest(d, 3), chips |-> Rest(g, 1), out |-> Whole(g, 1)]
  BY <1>7, <1>10, <1>12, <1>14, <1>17 DEF Mapped
<1> QED BY <1>7, <1>10, <1>11, <1>15, <1>16, <1>18

\* The bits of zeropadding_b go through the codeword mappers, and nothing is left in them.
LEMMA Maps ==
  ASSUME SenderInv, MapCodewords, toPrefixer[0] = << >>
  PROVE  SenderInv'
<1> USE DEF MapCodewords
<1>1. Layer' /\ Layer
  BY DEF SenderInv, Layer
<1>2. packets' \in Seq(Seq(Byte)) /\ done' \in [phr : BOOLEAN, pad : BOOLEAN]
  BY DEF SenderInv
<1>3. ASSUME Filling' PROVE Clear'
  <2>1. Filling /\ Clear
    BY <1>3 DEF SenderInv, Filling, Fill
  <2>2. PICK n : Carries(phy, n)
    BY <1>1, <2>1, Carrying DEF Filling
  <2>3. \A p \in {0, 1} : /\ Mapped(p).bits = << >> /\ Mapped(p).chips = << >>
                          /\ Mapped(p).out = CodewordMapper(phy, Deinterleave(dbuf, p))
                          /\ Mapped(p).out \in Seq(Chip)
    BY <2>1, <2>2, MappedPort
  <2>4. /\ toMapper' = [p \in Ports |-> Mapped(p).bits] /\ toIntlv' = [p \in Ports |-> Mapped(p).chips]
        /\ toPrefixer' = [p \in Ports |-> toPrefixer[p] \o Mapped(p).out]
    OBVIOUS
  <2>5. toMapper' = [p \in Ports |-> << >>] /\ toIntlv' = [p \in Ports |-> << >>]
    BY <2>3, <2>4 DEF Ports
  <2>6. InTransit(phy, packets, phases, toPrefixer, dbuf, toPad, done.phr)
    BY <2>1 DEF Clear
  <2>7. \A p \in {0, 1} : toPrefixer'[p] = CodewordMapper(phy, Deinterleave(dbuf, p))
    <3>1. toPrefixer[1] = << >>
      BY <2>6, BothPorts
    <3>2. ASSUME NEW p \in {0, 1} PROVE toPrefixer'[p] = CodewordMapper(phy, Deinterleave(dbuf, p))
      <4>1. PICK x \in Seq(Chip) : x = Mapped(p).out
        BY <2>3
      <4>2. toPrefixer[p] = << >> /\ p \in Ports
        BY <3>1 DEF Ports
      <4>3. toPrefixer[p] \o x = x
        BY <4>1, <4>2, ConcatEmptySeq
      <4>4. toPrefixer'[p] = toPrefixer[p] \o Mapped(p).out
        BY <2>4, <4>2
      <4> QED BY <2>3, <4>1, <4>3, <4>4
    <3> QED BY <3>2
  <2>8. InTransit(phy, packets, phases, toPrefixer', << >>, toPad, done.phr)
    BY ZenonT(60), <2>2, <2>6, <2>7, StepMap
  <2> QED BY <2>1, <2>5, <2>8 DEF Clear
<1> QED BY <1>1, <1>2, <1>3 DEF SenderInv

\* What the modulator makes of the chips of both ports.
LEMMA ModulatedRuns ==
  ASSUME ~ crossed, prefixer = 0, dqpsk = FreshMemory,
         NEW i, i = RunPrefixer(phy, 0, FirstChips(toPrefixer[0])),
         NEW q, q = RunPrefixer(phy, 0, FirstChips(toPrefixer[1])),
         NEW r, r = RunDqpsk(phy, TRUE, FreshMemory,
                             [k \in DOMAIN i.out |-> QpskPhase(i.out[k], q.out[k])])
  PROVE  Modulated.prefixer = i.state /\ Modulated.diff = r
<1>1. 0 \in Ports /\ 1 \in Ports
  BY DEF Ports
<1> QED BY ZenonT(30), <1>1 DEF Modulated, RunPrefixer, RunDqpsk

\* The chips of a frame go through the modulator, and its counters are where they were.
LEMMA Modulates ==
  ASSUME SenderInv, Modulate(Modulated)
  PROVE  SenderInv'
<1> USE DEF Modulate
<1>1. Layer' /\ Layer
  BY DEF SenderInv, Layer
<1>2. packets' \in Seq(Seq(Byte)) /\ done' \in [phr : BOOLEAN, pad : BOOLEAN]
  BY DEF SenderInv
<1>3. ASSUME Filling' PROVE Clear'
  <2>1. Filling /\ Clear
    BY <1>3 DEF SenderInv, Filling, Fill
  <2>2. PICK n : Carries(phy, n)
    BY <1>1, <2>1, Carrying DEF Filling
  <2>3. InTransit(phy, packets, phases, toPrefixer, dbuf, toPad, done.phr) /\ prefixer = 0 /\ dqpsk = FreshMemory
    BY <2>1 DEF Clear
  <2>4. Fill(phy, packets) /\ ~ crossed
    BY <2>1 DEF Filling
  <2>5. PICK K \in Nat \ {0} : K = ChipsPerFrame /\ K = phy.nsym_frame - Len(phy.header)
    BY <2>2, PerFrame DEF ChipsPerFrame
  <2>6. PICK i : i = RunPrefixer(phy, 0, SubSeq(toPrefixer[0], 1, K))
    OBVIOUS
  <2>7. PICK q : q = RunPrefixer(phy, 0, SubSeq(toPrefixer[1], 1, K))
    OBVIOUS
  <2>8. PICK r : r = RunDqpsk(phy, TRUE, FreshMemory,
                              [k \in DOMAIN i.out |-> QpskPhase(i.out[k], q.out[k])])
    OBVIOUS
  <2>9. toPrefixer[0] # << >> /\ toPrefixer' = [p \in Ports |-> OtherChips(toPrefixer[p])]
    OBVIOUS
  <2>10. \A p \in {0, 1} : toPrefixer'[p] = SubSeq(toPrefixer[p], K + 1, Len(toPrefixer[p]))
    BY <2>5, <2>9 DEF OtherChips, Ports
  <2>11. /\ i.state = 0 /\ r.state = FreshMemory
         /\ InTransit(phy, packets, phases \o r.out, toPrefixer', dbuf, toPad, done.phr)
         /\ \A p \in {0, 1} : K <= Len(toPrefixer[p])
    <3>1. OneFrameOn(phy, packets, phases, toPrefixer, dbuf, toPad, done.phr, K, i, r, toPrefixer')
      BY <2>2, <2>3, <2>4, <2>5, <2>6, <2>7, <2>8, <2>9, <2>10, StepModulate
    <3> QED BY <3>1 DEF OneFrameOn
  <2>12. \A p \in {0, 1} : FirstChips(toPrefixer[p]) = SubSeq(toPrefixer[p], 1, K)
    BY <2>5, <2>11 DEF FirstChips
  <2>13. i = RunPrefixer(phy, 0, FirstChips(toPrefixer[0])) /\ q = RunPrefixer(phy, 0, FirstChips(toPrefixer[1]))
    BY <2>6, <2>7, <2>12
  <2>14. Modulated.prefixer = i.state /\ Modulated.diff = r
    BY <2>3, <2>4, <2>8, <2>13, ModulatedRuns
  <2>15. prefixer' = 0 /\ dqpsk' = FreshMemory /\ phases' = phases \o r.out
    BY <2>11, <2>14
  <2> QED BY <2>1, <2>11, <2>15 DEF Clear
<1> QED BY <1>1, <1>2, <1>3 DEF SenderInv

\* A multiple in two ways.
LEMMA SameMultiple ==
  ASSUME NEW n \in Nat \ {0}, NEW a \in Nat, NEW b \in Nat, n * a = n * b
  PROVE  a = b
<1>1. ASSUME NEW c \in Nat, NEW d \in Nat, c < d, n * c = n * d PROVE FALSE
  <2>1. PICK e \in Nat \ {0} : d = c + e
    <3>1. d - c \in Nat \ {0} /\ d = c + (d - c)
      BY <1>1
    <3> QED BY <3>1
  <2>2. PICK x \in Int, z \in Nat \ {0} : x = n * c /\ z = n * e
    <3>1. n * e \in Nat \ {0} /\ n * c \in Int
      OBVIOUS
    <3> QED BY <3>1
  <2>3. n * d = x + z
    BY <2>1, <2>2
  <2> QED BY <1>1, <2>2, <2>3
<1>2. a < b \/ b < a \/ a = b
  OBVIOUS
<1> QED BY <1>1, <1>2

\* The last packet has been modulated: its frame is the last one of the output.
Follows(y, bits, ph, k) ==
  FrameQpsk(y, bits) =
    [i \in 1 .. y.nsym_frame |->
       Turn(ph[(k - 1) * y.nsym_frame + i]
            - (IF i - 4 < 1 THEN 0 ELSE ph[(k - 1) * y.nsym_frame + (i - 4)]))]

\* The last frame of the output is that of the last packet modulated.
LEMMA LastFrame ==
  ASSUME NEW y, NEW n, Carries(y, n), NEW ps, Fill(y, ps), NEW ph, NEW c, NEW bits, NEW msgs, NEW eof,
         InTransit(y, ps, ph, c, bits, msgs, eof), NEW k \in Nat \ {0}, k = Len(ps),
         Len(ph) = k * y.nsym_frame
  PROVE  Follows(y, Unpack(ps[k]), ph, k)
<1>1. PICK f, w, b, m : Stages(y, ps, ph, c, bits, msgs, eof, f, w, b, m)
  BY DEF InTransit
<1>2. PICK F \in Nat, N \in Nat \ {0} : F = Len(f) /\ N = y.nsym_frame
  BY <1>1, StagesCounted, PerFrame
<1>3. FramesSent(y, ps, ph, f)
  BY <1>1 DEF Stages
<1>4. Blocks(Phase, N, ph, f)
  BY <1>2, <1>3 DEF FramesSent
<1>5. Len(ph) = N * F
  BY <1>2, <1>4 DEF Blocks
<1>6. F = k
  <2>1. k * N = N * k
    BY <1>2
  <2>2. N * F = N * k
    BY <1>2, <1>5, <2>1
  <2> QED BY <1>2, <2>2, SameMultiple
<1>7. k \in 1 .. F
  BY <1>6
<1>8. Emitted(y, f[k], ps[k])
  BY <1>2, <1>3, <1>7 DEF FramesSent
<1>9. PICK o : o = f[k]
  OBVIOUS
<1>10. PICK x \in Nat : x = N * (k - 1) /\ x = (k - 1) * N
  <2>1. N * (k - 1) \in Nat /\ N * (k - 1) = (k - 1) * N
    BY <1>2, SMTT(40)
  <2> QED BY <2>1
<1>11. \A j \in 1 .. N : ph[x + j] = o[j]
  BY ZenonT(60), <1>2, <1>4, <1>7, <1>9, <1>10 DEF Blocks
<1>12. ASSUME NEW i \in 1 .. N
       PROVE  Turn(o[i] - Earlier(o, i, 4)) =
                Turn(ph[x + i] - (IF i - 4 < 1 THEN 0 ELSE ph[x + (i - 4)]))
  <2>1. ph[x + i] = o[i]
    BY <1>11
  <2>2. CASE i > 4
    <3>1. i - 4 \in 1 .. N /\ ~ (i - 4 < 1)
      BY <2>2
    <3>2. ph[x + (i - 4)] = o[i - 4]
      BY <1>11, <3>1
    <3> QED BY <2>1, <2>2, <3>1, <3>2 DEF Earlier
  <2>3. CASE ~ (i > 4)
    BY <2>1, <2>3 DEF Earlier
  <2> QED BY <2>2, <2>3
<1>13. FrameQpsk(y, Unpack(ps[k])) = [i \in 1 .. N |-> Turn(o[i] - Earlier(o, i, 4))]
  BY <1>2, <1>8, <1>9 DEF Emitted
<1>14. FrameQpsk(y, Unpack(ps[k])) =
         [i \in 1 .. N |-> Turn(ph[x + i] - (IF i - 4 < 1 THEN 0 ELSE ph[x + (i - 4)]))]
  BY <1>12, <1>13
<1> QED BY <1>2, <1>10, <1>14 DEF Follows

\* The invariant implies that the blocks have the symbols of the reference.
LEMMA Agreement == SenderInv => SameButForTheDelay
<1> DEFINE bits == Unpack(packets[Len(packets)])
           frame == [i \in 1 .. NSym |-> phases[(Len(packets) - 1) * NSym + i]]
<1> SUFFICES ASSUME SenderInv,
                    Len(packets) > 0, Len(phases) = Len(packets) * NSym,
                    ~ crossed,
                    FrameBits(phy.slow, phy.size) = PhrLen + Len(Unpack(packets[Len(packets)])),
                    \A i \in 1 .. Len(packets) : Len(packets[i]) = phy.size
             PROVE  /\ SymbolsOf(frame, 4) = FrameQpsk(phy, bits)
                    /\ SymbolsOf(FrameDqpsk(phy, bits), 2) = FrameQpsk(phy, bits)
                    /\ Demodulate(phy, FrameDqpsk(phy, bits)) = bits
  BY DEF SameButForTheDelay
<1>1. PICK k \in Nat \ {0} : k = Len(packets)
  <2>1. packets \in Seq(Seq(Byte)) /\ Len(packets) > 0
    BY DEF SenderInv
  <2>2. Len(packets) \in Nat
    BY <2>1, LenProperties
  <2>3. Len(packets) \in Nat \ {0}
    BY <2>1, <2>2
  <2> QED BY <2>3
<1>2. Fill(phy, packets)
  BY DEF SenderInv, Fill
<1>3. PICK p \in Seq(Byte) : p = packets[k] /\ Len(p) = phy.size
  <2>1. k \in 1 .. Len(packets)
    BY <1>1
  <2>2. packets[k] \in Seq(Byte)
    BY <2>1, LenProperties DEF SenderInv
  <2> QED BY <2>1, <2>2
<1>4. phy.padded_zeros = 0 /\ \E n : Carries(phy, n)
  <2>1. PICK s \in Setups : phy = PhysicalLayer(s.slow, s.size, s.chirp)
    BY DEF SenderInv, Layer
  <2>2. phy.size \in Nat /\ phy.slow \in BOOLEAN /\ phy.padded_zeros = PaddedZeros(phy.slow, phy.size)
    BY <2>1, LayerOfSetup
  <2>3. Len(Unpack(p)) = 8 * phy.size
    BY <1>3, UnpackedBits DEF Byte
  <2>4. PICK z \in Int : z = PaddedZeros(phy.slow, phy.size)
    <3>1. ASSUME NEW size \in Nat
          PROVE  PaddedZeros(TRUE, size) \in Int /\ PaddedZeros(FALSE, size) \in Int
      <4>1. 2 * size + 3 + 6 - 1 \in Int /\ 4 * size + 3 - 1 \in Int
        OBVIOUS
      <4>2. PICK a \in Int, c \in Int : a = (2 * size + 3 + 6 - 1) \div 6 /\ c = (4 * size + 3 - 1) \div 3
        BY <4>1
      <4> QED BY <4>2 DEF PaddedZeros, CeilDiv
    <3>2. phy.slow = TRUE \/ phy.slow = FALSE
      BY <2>2
    <3> QED BY <2>2, <3>1, <3>2
  <2>5. PhrLen + 8 * phy.size + z = PhrLen + 8 * phy.size
    BY <1>1, <1>3, <2>3, <2>4 DEF FrameBits
  <2>6. z = 0
    BY <2>2, <2>4, <2>5, SMTT(40) DEF PhrLen
  <2>7. phy.padded_zeros = 0
    BY <2>2, <2>4, <2>6
  <2>8. Layer
    BY DEF SenderInv
  <2> QED BY <2>7, <2>8, Carrying
<1>5. PICK n : Carries(phy, n)
  BY <1>4
<1>6. InTransit(phy, packets, phases, toPrefixer, dbuf, toPad, done.phr)
  BY <1>2, <1>4 DEF SenderInv, Filling, Clear
<1>7. FrameQpsk(phy, Unpack(packets[k])) =
        [i \in 1 .. phy.nsym_frame |->
           Turn(phases[(k - 1) * phy.nsym_frame + i]
                - (IF i - 4 < 1 THEN 0 ELSE phases[(k - 1) * phy.nsym_frame + (i - 4)]))]
  <2>1. Len(phases) = k * phy.nsym_frame
    BY <1>1 DEF NSym
  <2>2. Follows(phy, Unpack(packets[k]), phases, k)
    BY <1>1, <1>2, <1>5, <1>6, <2>1, LastFrame
  <2> QED BY <2>2 DEF Follows
<1>8. PICK N \in Nat : N = phy.nsym_frame
  BY <1>5, PerFrame
<1>9. SymbolsOf(frame, 4) = FrameQpsk(phy, Unpack(packets[k]))
  <2>1. frame = [i \in 1 .. N |-> phases[(k - 1) * N + i]] /\ DOMAIN frame = 1 .. N
    BY <1>1, <1>8 DEF NSym
  <2>2. SymbolsOf(frame, 4) =
          [i \in 1 .. N |-> Turn(frame[i] - (IF i > 4 THEN frame[i - 4] ELSE 0))]
    BY <2>1 DEF SymbolsOf
  <2>3. ASSUME NEW i \in 1 .. N
        PROVE  Turn(frame[i] - (IF i > 4 THEN frame[i - 4] ELSE 0)) =
                 Turn(phases[(k - 1) * N + i]
                      - (IF i - 4 < 1 THEN 0 ELSE phases[(k - 1) * N + (i - 4)]))
    <3>1. frame[i] = phases[(k - 1) * N + i]
      BY <2>1
    <3>2. CASE i > 4
      <4>1. i - 4 \in 1 .. N /\ ~ (i - 4 < 1)
        BY <1>8, <3>2
      <4>2. frame[i - 4] = phases[(k - 1) * N + (i - 4)]
        BY <2>1, <4>1
      <4> HIDE DEF frame
      <4> QED BY <3>1, <3>2, <4>1, <4>2
    <3>3. CASE ~ (i > 4)
      <4>1. i - 4 < 1
        BY <1>8, <3>3
      <4> HIDE DEF frame
      <4> QED BY <3>1, <3>3, <4>1
    <3> QED BY <3>2, <3>3
  <2> HIDE DEF frame
  <2>4. SymbolsOf(frame, 4) =
          [i \in 1 .. N |-> Turn(phases[(k - 1) * N + i]
                                 - (IF i - 4 < 1 THEN 0 ELSE phases[(k - 1) * N + (i - 4)]))]
    BY <2>2, <2>3
  <2> QED BY <1>7, <1>8, <2>4
<1>10. /\ Demodulate(phy, FrameDqpsk(phy, Unpack(p))) = Unpack(p)
       /\ SymbolsOf(FrameDqpsk(phy, Unpack(p)), 2) = FrameQpsk(phy, Unpack(p))
  <2>1. Unpadded(phy) /\ Packed(phy, Unpack(p), n)
    BY <1>3, <1>5, BitsOfPacket
  <2> QED BY <2>1, ReferenceThereAndBack
<1> QED BY <1>1, <1>3, <1>9, <1>10

\* Every step of the link keeps the invariant.
LEMMA SenderKept == SenderInv /\ [Next]_vars => SenderInv'
<1> SUFFICES ASSUME SenderInv, [Next]_vars PROVE SenderInv'
  OBVIOUS
<1>1. ASSUME UNCHANGED senderVars PROVE SenderInv'
  BY <1>1 DEF senderVars, SenderInv, Layer, Filling, Clear
<1>2. CASE Publish
  BY <1>1, <1>2 DEF Publish
<1>3. CASE DecodeFrame
  BY <1>1, <1>3 DEF DecodeFrame
<1>4. CASE FindFrames
  BY <1>1, <1>4 DEF FindFrames
<1>5. CASE Listen
  BY <1>1, <1>5 DEF Listen
<1>6. CASE Transmit
  BY <1>1, <1>6, ZenonT(40) DEF Transmit
<1>7. CASE SendChirps
  <2>1. Modulate(Modulated)
    BY <1>7 DEF SendChirps
  <2> QED BY <2>1, Modulates
<1>8. CASE Handle
  <2>1. toPrefixer[0] = << >>
    BY <1>8 DEF Handle
  <2>2. CASE /\ Len(packets) < MaxPackets
             /\ \E p \in Payloads \cup {Usual(phy.size, Len(packets))} : PrefixPhrHandler(p)
    <3>1. PICK p \in Payloads \cup {Usual(phy.size, Len(packets))} : PrefixPhrHandler(p)
      BY <2>2
    <3>2. PICK s \in Setups : phy = PhysicalLayer(s.slow, s.size, s.chirp)
      BY DEF SenderInv, Layer
    <3>3. Len(packets) \in 0 .. MaxPackets
      <4>1. Len(packets) \in Nat
        BY LenProperties DEF SenderInv
      <4> QED BY <2>2, <4>1, LinkAssumption
    <3>4. Usual(phy.size, Len(packets)) \in Seq(0 .. 255)
      BY <3>2, <3>3, LinkAssumption
    <3>5. p \in Seq(Byte)
      BY <3>1, <3>4, LinkAssumption DEF Byte
    <3> QED BY <3>1, <3>5, Accepts
  <2>3. CASE PrefixPhrEof
    BY <2>3, EndsFile
  <2>4. CASE PadZeros
    BY <2>4, Pads
  <2>5. CASE MapCodewords
    BY <2>1, <2>5, Maps
  <2> QED BY <1>8, <2>2, <2>3, <2>4, <2>5 DEF Handle
<1>9. CASE UNCHANGED vars
  BY <1>1, <1>9 DEF vars
<1> QED BY <1>2, <1>3, <1>4, <1>5, <1>6, <1>7, <1>8, <1>9 DEF Next

\* How far the two implementations agree: whenever the blocks have put out the frame of a
\* packet, its symbols are those that css_mod gives it, coded over a distance of four as
\* the comment css_mod.py:100 says; css_mod codes them over a distance of two, and
\* css_demod recovers the packet from that. In every behaviour, for all tables and packets.
THEOREM SenderAgrees == Spec => []SameButForTheDelay
<1>1. Spec => []SenderInv
  BY SenderBegins, SenderKept, PTL DEF Spec
<1> QED BY <1>1, Agreement, PTL
=============================================================================
