------------------------------- MODULE CssLink -------------------------------
(***************************************************************************)
(* Sender and receiver of the CSS physical layer, joined by the air. The   *)
(* samples are sent in bursts (stream_to_tagged_stream), with silence in   *)
(* between, and noise may spoil a subchirp.                                *)
(*                                                                         *)
(* The blocks are the nodes of a stream network: what one puts out does    *)
(* not depend on when it is called, only messages and the frame buffer do. *)
(* So the blocks behind a stream run as soon as they can, and the order is *)
(* left open where it matters: between message handlers and work(), and    *)
(* between the preamble tagger and the frame buffer.                       *)
(***************************************************************************)
EXTENDS CssReceiver, CssReference, FiniteSets

CONSTANTS
  Setups,    \* physical layers, wirings, silences, rotations and half turns to try; and a
             \* bound: unusual packets, silences and spoilt symbols in a behaviour
  Usual(_, _),\* the k-th packet of a size; all others are quirks
  Silences,  \* samples of silence before a burst, other than the usual
  Spoils,    \* the symbols of a frame that noise may spoil
  MaxQueue   \* bound: messages between phr_prefixer and zeropadding_b

ASSUME LinkAssumption ==
  /\ Payloads \subseteq Seq(0 .. 255) /\ MaxPackets \in Nat /\ Silences \subseteq Nat
  /\ \A s \in Setups :
       /\ s.slow \in BOOLEAN /\ s.size \in Nat /\ s.crossed \in BOOLEAN
       /\ s.silence \in Nat /\ s.rotation \in 0 .. 3 /\ s.halfTurn \in BOOLEAN
       /\ \A k \in 0 .. MaxPackets : Usual(PhysicalLayer(s.slow, s.size, s.chirp).size, k) \in Seq(0 .. 255)

VARIABLES
  waiting,  \* subchirps that stream_to_tagged_stream has not sent
  bursts,   \* how many bursts were sent
  silence,  \* the usual silence before a burst
  quirks,   \* how many there may still be
  lost      \* history: symbols spoilt by noise or passed over by the detector

linkVars == <<waiting, bursts, silence, quirks, lost>>
vars == <<senderVars, receiverVars, linkVars>>

Init ==
  /\ \E s \in Setups : /\ phy = PhysicalLayer(s.slow, s.size, s.chirp)
                       /\ crossed = s.crossed /\ silence = s.silence
                       /\ rotation = s.rotation /\ halfTurn = s.halfTurn
                       /\ quirks = s.quirks
  /\ SenderInit /\ ReceiverInit
  /\ waiting = << >> /\ bursts = 0 /\ lost = {}

Quirk(n) == n <= quirks /\ quirks' = quirks - n

-----------------------------------------------------------------------------
(***************************************************************************)
(* The sender. What can be sent is sent before another message is handled. *)
(***************************************************************************)
BurstWaits == dqcsk.pos >= (bursts + 1) * phy.nsamp_frame
Handle ==
  /\ toPrefixer[0] = << >> /\ ~BurstWaits
  /\ \/ /\ Len(packets) < MaxPackets /\ Len(toPad) < MaxQueue
        /\ LET usual == Usual(phy.size, Len(packets))
           IN \E p \in Payloads \cup {usual} :
                PrefixPhrHandler(p) /\ Quirk(IF p = usual THEN 0 ELSE 1)
     \/ PrefixPhrEof /\ UNCHANGED quirks
     \/ PadZeros /\ UNCHANGED quirks
     \/ MapCodewords /\ UNCHANGED quirks
  /\ UNCHANGED <<receiverVars, waiting, bursts, silence, lost>>

SendChirps ==
  /\ \E m \in {Modulated} :
       /\ Modulate(m)
       /\ waiting' = waiting \o m.chirps.out
       /\ hard' = HardDecode(m.chirps.out, m.chirps.state.pos)
  /\ UNCHANGED <<air, airLen, rotation, halfTurn, detector, symbols, tagged, frames, soft,
                 toDeintlv, toDemapper, zbuf, toRemoval, passed, published,
                 bursts, silence, quirks, lost>>

\* A burst, of nsamp_frame samples, behind a silence; a spoilt subchirp is not heard.
Transmit ==
  /\ BurstWaits
  /\ bursts' = bursts + 1
  /\ \E base \in {bursts * phy.nsamp_frame} :
     \E mine \in {Picked(waiting, {n \in DOMAIN waiting : waiting[n].at < base + phy.nsamp_frame})} :
       /\ waiting' = SubSeq(waiting, Len(mine) + 1, Len(waiting))
       /\ \E pause \in Silences \cup {silence}, spoilt \in Spoils \cup {-1} :
          \E heard \in {Picked(mine, {n \in DOMAIN mine : mine[n].nth % phy.nsym_frame # spoilt})} :
            /\ Quirk((IF pause = silence THEN 0 ELSE 1) + (IF spoilt = -1 THEN 0 ELSE 1))
            /\ air' = air \o [n \in DOMAIN heard |->
                                [heard[n] EXCEPT !.at = heard[n].at - base + airLen + pause]]
            /\ airLen' = airLen + pause + phy.nsamp_frame
            /\ lost' = lost \cup ({mine[n].nth : n \in DOMAIN mine}
                                  \ {heard[n].nth : n \in DOMAIN heard})
  /\ UNCHANGED <<senderVars, silence, rotation, halfTurn, detector, symbols, tagged, frames,
                 soft, toDeintlv, toDemapper, zbuf, toRemoval, hard, passed, published>>

-----------------------------------------------------------------------------
(***************************************************************************)
(* The receiver.                                                           *)
(***************************************************************************)
Publish == RemovePhrHandler /\ UNCHANGED <<senderVars, linkVars>>

DecodeFrame == Decode /\ UNCHANGED <<senderVars, linkVars>>

\* In any order: tagged symbols may pile up before the buffer is called.
FindFrames == (TagPreamble \/ BufferFrame) /\ UNCHANGED <<senderVars, linkVars>>

Listen ==
  /\ DetectChirps
  /\ lost' = lost \cup ({air[n].nth : n \in 1 .. Len(air) - Len(air')}
                        \ {symbols'[n].nth : n \in DOMAIN symbols'})
  /\ UNCHANGED <<senderVars, waiting, bursts, silence, quirks>>

\* What is furthest from the sender runs first.
Decoding == Len(frames) >= phy.nsym_frame
Tagging == Len(symbols) >= 2 * phy.len_preamble
Listening == Heard # {}
Next ==
  \/ Publish
  \/ toRemoval = << >> /\ DecodeFrame
  \/ toRemoval = << >> /\ ~Decoding /\ FindFrames
  \/ toRemoval = << >> /\ ~Decoding /\ ~Tagging /\ Listen
  \/ toRemoval = << >> /\ ~Decoding /\ ~Tagging /\ ~Listening /\ Transmit
  \/ toRemoval = << >> /\ ~Decoding /\ ~Tagging /\ ~Listening /\ SendChirps
  \/ toRemoval = << >> /\ ~Decoding /\ ~Tagging /\ ~Listening /\ Handle

Spec == Init /\ [][Next]_vars

-----------------------------------------------------------------------------
(***************************************************************************)
(* Properties.                                                             *)
(***************************************************************************)
NSym == phy.nsym_frame
FrameOf(nth) == nth \div NSym
Hit(k) == \E nth \in lost : FrameOf(nth) = k

\* Inside frame k, or at its end, there are symbols that pass the test of the preamble
\* tagger: as many as a preamble without a turn forward, and a turn behind them.
Imitates(k) ==
  \E first \in k * NSym + 1 .. (k + 1) * NSym - 1 :
    /\ first + phy.len_preamble < Len(phases)
    /\ \A nth \in first + 1 .. first + phy.len_preamble - 1 :
         Turn(phases[nth + 1] - phases[nth]) \in {0, 3} \cup (IF halfTurn THEN {2} ELSE {})
    /\ Turn(phases[first + phy.len_preamble + 1] - phases[first + phy.len_preamble]) # 0

\* What the j-th frame passed on by the frame buffer is, judged by the first symbol of its
\* SFD; and that it is that frame of the sender, to the last symbol.
Claimed(j) == FrameOf(passed[j][phy.len_preamble + 1])
Genuine(j) ==
  \A i \in phy.len_preamble + 1 .. NSym : passed[j][i] = Claimed(j) * NSym + i - 1

\* FramesPassedOn. Detection, tagging and buffering lose the beginning of a frame at most
\* by a fault: what the buffer passes on are frames of the sender, in their order, except
\* at one of two in a row that were hit by noise or imitate a preamble; and a frame that is
\* neither is passed on, unless the next one was hit, once the buffer has gone past it.
FramesPassedOn ==
  /\ \A j \in DOMAIN passed :
       \/ Genuine(j)
       \/ \E k \in {Claimed(j) - 1, Claimed(j)} \cap Nat : \A m \in {k, k + 1} : Hit(m) \/ Imitates(m)
  /\ \A j \in 1 .. Len(passed) - 1 : Claimed(j) < Claimed(j + 1)
  /\ tagged # << >> =>
       \A k \in 0 .. FrameOf(tagged[1].nth) - 1 :
         \/ \E j \in DOMAIN passed : Claimed(j) = k /\ Genuine(j)
         \/ Hit(k) \/ Hit(k + 1) \/ Imitates(k)

\* The bits of all packets, as zeropadding_b is to put them out.
BitsOf(p) == phy.phr \o Unpack(p) \o [i \in 1 .. phy.padded_zeros |-> 0]
SentBits ==
  LET upTo[i \in 0 .. Len(packets)] ==
        IF i = 0 THEN << >> ELSE upTo[i - 1] \o BitsOf(packets[i])
  IN upTo[Len(packets)]
\* As they come out when I and Q are exchanged.
Swapped(bits) == [i \in DOMAIN bits |-> bits[IF i % 2 = 1 THEN i + 1 ELSE i - 1]]
AsReceived(bits) == IF crossed THEN Swapped(bits) ELSE bits

FrameLen == FrameBits(phy.slow, phy.size)
CutOf(k) == SubSeq(SentBits, k * FrameLen + 1, k * FrameLen + PhrLen + 8 * phy.size)

\* Every frame holds whole codewords and whole blocks of the interleaver.
FramesAligned == ((NSym - Len(phy.header)) % BlockLen(phy.intlv_seq)) = 0
Unequal == phy.gap1 # phy.gap2 /\ (NSym \div NSubchirps) % 2 = 1

\* BitsAsSent. A frame passed on is published as the packet it carries (in every setup
\* where I is wired to I; with its bits exchanged in pairs in the other). Where blocks of
\* the interleaver cross the ends of frames, that holds until a frame is skipped, for a
\* packet whose last block the next frame completes too. The receiver of the tests, which
\* never looks for a frame, gives the bits of the sender, and only loses them when frames
\* of an odd number of chirps have unequal gaps.
BitsAsSent ==
  /\ \A j \in DOMAIN published :
       (IF FramesAligned THEN Genuine(j)
        ELSE \A i \in DOMAIN passed : i <= j + 1 => Genuine(i) /\ Claimed(i) = i - 1)
         => published[j] = RemovePhr(AsReceived(CutOf(Claimed(j))))
  /\ hard.noisy => Unequal
  /\ ~hard.noisy => hard.bits = AsReceived(SubSeq(SentBits, 1, Len(hard.bits)))

\* A sequence of phases, differentially coded over a distance, and its symbols.
SymbolsOf(s, distance) ==
  [i \in DOMAIN s |-> Turn(s[i] - (IF i > distance THEN s[i - distance] ELSE 0))]

\* SameButForTheDelay. The two implementations of the sender do not agree, and this is how
\* far they do. css_mod documents that "a distance of 4 symbols is used to calculate the
\* phase difference" (css_mod.py:100): the blocks keep to that, the frame they put out for
\* a packet has the QPSK symbols that css_mod gives it, if it can modulate it at all, over
\* a distance of four. css_mod itself does not: lines 106-107 overwrite the delay chain
\* where they should shift it, and its frame has the same symbols over a distance of two.
\* css_demod has the same slip, so that it still recovers the packet from what css_mod
\* makes of it.
SameButForTheDelay ==
  LET k == Len(packets)
      bits == Unpack(packets[k])
      frame == [i \in 1 .. NSym |-> phases[(k - 1) * NSym + i]]
  IN (/\ k > 0 /\ Len(phases) = k * NSym  \* the last packet has been modulated
      /\ ~crossed /\ FrameBits(phy.slow, phy.size) = PhrLen + Len(bits)
      /\ \A i \in 1 .. k : Len(packets[i]) = phy.size) =>
        /\ SymbolsOf(frame, 4) = FrameQpsk(phy, bits)
        /\ SymbolsOf(FrameDqpsk(phy, bits), 2) = FrameQpsk(phy, bits)
        /\ Demodulate(phy, FrameDqpsk(phy, bits)) = bits
=============================================================================
