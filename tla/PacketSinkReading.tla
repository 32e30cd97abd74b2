------------------------- MODULE PacketSinkReading --------------------------
(***************************************************************************)
(* packet_sink on an arbitrary chip stream, compared with a definition of  *)
(* what a frame is. The history variable "seen" holds the observations     *)
(* since the block locked on a first zero symbol, with the one that ended  *)
(* the lock; the properties say which of these sequences are frames, with  *)
(* none of the block's counters.                                           *)
(***************************************************************************)
EXTENDS PacketSink, Sums

CONSTANT MaxZeros    \* bound: zero symbols in a preamble

VARIABLE seen        \* history: observations since the lock

vars == <<sinkVars, seen>>

Init == SinkInit /\ seen = << >>

\* The block hunts for a first zero symbol: nothing seen so far matters.
Hunting == dstate = "search" /\ ~locked

Remember(o) ==
  seen' = IF ~Hunting THEN Append(seen, o) ELSE IF locked' THEN <<o>> ELSE << >>

Compare(o) == Receive(o) /\ Remember(o)

Next ==
  \E o \in Observations :
    /\ Compare(o)
    /\ MoreZero(o) => Len(seen) < MaxZeros

Spec == Init /\ [][Next]_vars

-----------------------------------------------------------------------------
(***************************************************************************)
(* What a frame is. After z zero symbols and the two symbols of the        *)
(* delimiter, symbol i of the frame is s[z + 2 + i]; symbols 1 and 2 are   *)
(* the length.                                                             *)
(***************************************************************************)
Zero(o) == o[0] <= Threshold

\* s starts with z zero symbols and a delimiter: the synchronisation header.
Header(s, z) ==
  /\ z + 2 <= Len(s)
  /\ s[1][0] < Threshold
  /\ \A i \in 1 .. z : Zero(s[i])
  /\ ~Zero(s[z + 1]) /\ s[z + 1][Sfd1] <= Threshold
  /\ s[z + 2][Sfd2] <= Threshold

ByteOf(lo, hi) == BestMatch(lo) + Radix * BestMatch(hi)
LengthOf(s, z) == ByteOf(s[z + 3], s[z + 4])

\* Bytes are published for a length of zero, too: one.
Announced(s, z) == IF LengthOf(s, z) = 0 THEN 1 ELSE LengthOf(s, z)

\* s is, with nothing missing and nothing left over, a frame that can be kept.
IsFrame(s, z) ==
  /\ Header(s, z)
  /\ z + 4 < Len(s)
  /\ \A i \in (z + 3) .. Len(s) : Valid(s[i])
  /\ LengthOf(s, z) <= MaxPktLen
  /\ Len(s) = z + 4 + 2 * Announced(s, z)

PayloadOf(s, z) ==
  [i \in 1 .. Announced(s, z) |-> ByteOf(s[z + 3 + 2 * i], s[z + 4 + 2 * i])]

\* The chips in agreement with the nearest sequence, for each of the first LqiSamples
\* symbols of the frame, as far as it has so many.
Correlations(s, z) ==
  [i \in 1 .. Least(Len(s) - (z + 2), LqiSamples) |->
     Chips - s[z + 2 + i][BestMatch(s[z + 2 + i])]]

LqiOf(s, z) == ScaledLqi(Sum(Correlations(s, z)))

MessageOf(s, z) == [payload |-> PayloadOf(s, z), lqi |-> LqiOf(s, z)]

-----------------------------------------------------------------------------
(***************************************************************************)
(* Properties.                                                             *)
(***************************************************************************)

\* Every variable has its type.
TypeOK ==
  /\ dstate \in {"search", "sync", "header"} /\ locked \in BOOLEAN
  /\ packetByte \in Bytes /\ byteIndex \in 0 .. 2
  /\ packetlen \in 0 .. MaxPktLen
  /\ packet \in Seq(Bytes) /\ payloadCnt \in Nat
  /\ lqi \in Nat /\ lqiCount \in 0 .. LqiSamples
  /\ \/ out = << >>
     \/ /\ Len(out) = 1 /\ DOMAIN out[1] = {"payload", "lqi"}
        /\ out[1].payload \in Seq(Bytes) /\ out[1].lqi \in 0 .. 255
  /\ seen \in Seq(Observations)

\* d_packet[d_packetlen_cnt++] stays inside d_packet: the counter is reset in
\* enter_have_sync, its bound checked two symbols later, and it is compared with
\* d_packetlen only by way of d_payload_cnt.
BufferBound == Len(packet) <= MaxPktLen

\* Whatever is published is the payload of a frame: zeros, delimiter, length and so
\* many bytes, all of them in the chips just seen.
OnlyFramesPublished ==
  out # << >> =>
    \E z \in 1 .. Len(seen) :
      IsFrame(seen, z) /\ out[1].payload = PayloadOf(seen, z)

\* Every frame is published, at its last symbol and with its own link quality,
\* whatever came before it.
FramesPublished ==
  \A z \in 1 .. Len(seen) : IsFrame(seen, z) => out = <<MessageOf(seen, z)>>

\* "how many bits may be wrong in sync vector": a first half of the delimiter
\* with up to d_threshold wrong chips is found.
SyncTolerance ==
  [][\A o \in Observations :
       /\ dstate = "search" /\ locked /\ packetByte = 0
       /\ o[Sfd1] <= Threshold
       /\ seen' = Append(seen, o)
       => packetByte' = Sfd1 * Radix]_vars

-----------------------------------------------------------------------------
(***************************************************************************)
(* The inductive invariant: in each state of the block, "seen" is a frame  *)
(* up to where the block has got.                                          *)
(***************************************************************************)

\* s starts with z zero symbols, the first of them below the threshold.
Preamble(s, z) ==
  /\ z \in 1 .. Len(s)
  /\ s[1][0] < Threshold
  /\ \A i \in 1 .. z : Zero(s[i])

SearchInv ==
  dstate = "search" =>
    /\ ~locked => packetByte = 0
    /\ locked /\ packetByte = 0 => Preamble(seen, Len(seen))
    /\ locked /\ packetByte # 0 =>
         /\ Preamble(seen, Len(seen) - 1)
         /\ ~Zero(seen[Len(seen)]) /\ seen[Len(seen)][Sfd1] <= Threshold

\* Delimiter found, byteIndex symbols of the length read.
InLength(z) ==
  /\ Header(seen, z)
  /\ byteIndex \in {0, 1} /\ Len(seen) = z + 2 + byteIndex
  /\ packet = << >>
  /\ byteIndex = 1 => Valid(seen[z + 3]) /\ packetByte = BestMatch(seen[z + 3])

\* Length read, and after it the packet and byteIndex symbols more.
InPayload(z) ==
  /\ Header(seen, z)
  /\ byteIndex \in {0, 1} /\ Len(seen) = z + 4 + 2 * Len(packet) + byteIndex
  /\ \A i \in (z + 3) .. Len(seen) : Valid(seen[i])
  /\ packetlen = LengthOf(seen, z)
  /\ payloadCnt = Len(packet) /\ payloadCnt < Announced(seen, z)
  /\ \A i \in 1 .. Len(packet) :
       packet[i] = ByteOf(seen[z + 3 + 2 * i], seen[z + 4 + 2 * i])
  /\ byteIndex = 1 => packetByte = BestMatch(seen[Len(seen)])

CollectInv ==
  /\ dstate # "search" => locked
  /\ dstate = "sync"   => \E z \in 1 .. Len(seen) : InLength(z)
  /\ dstate = "header" => \E z \in 1 .. Len(seen) : InPayload(z)

IInv == TypeOK /\ BufferBound /\ OnlyFramesPublished /\ SearchInv /\ CollectInv

=============================================================================
