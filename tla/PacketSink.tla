----------------------------- MODULE PacketSink -----------------------------
(***************************************************************************)
(* The O-QPSK receiver packet_sink: finds the synchronisation header in    *)
(* the chip stream, reads the frame length and collects the payload.       *)
(*                                                                         *)
(* general_work() compares the last 32 chips with the 16 chip sequences:   *)
(* at every chip until a first zero symbol is found, and then at every     *)
(* 32nd. An observation is the outcome of such a comparison: the number of *)
(* chips that differ from each sequence. A step is one comparison, so the  *)
(* chip counter and the shift register do not appear; how the scheduler    *)
(* cuts the stream into calls of general_work() makes no difference, for   *)
(* everything that outlives a symbol is a member of the block.             *)
(***************************************************************************)
EXTENDS Integers, Sequences

CONSTANTS
  Radix,        \* symbols: 16 in the code, half a byte each
  Sfd1, Sfd2,   \* the symbols of the start-of-frame delimiter (7 and 10)
  Chips,        \* chips of a symbol (32)
  Threshold,    \* d_threshold (10 by default)
  MaxPktLen,    \* MAX_PKT_LEN, the size of d_packet (127)
  LqiSamples,   \* MAX_LQI_SAMPLES (8)
  Observations  \* the comparisons that can come out of the chip stream

Symbols == 0 .. (Radix - 1)

ASSUME RadixAssumption == Radix \in Nat /\ Radix >= 2
ASSUME SfdAssumption   == Sfd1 \in Symbols \ {0} /\ Sfd2 \in Symbols
ASSUME SinkAssumption  == /\ Chips \in Nat /\ Threshold \in Nat
                          /\ MaxPktLen \in Nat \ {0}
                          /\ LqiSamples \in Nat \ {0}
ASSUME ObservationsAssumption == Observations \subseteq [Symbols -> 0 .. Chips]

Bytes == 0 .. (Radix * Radix - 1)

VARIABLES
  dstate,      \* d_state: "search", "sync" (HAVE_SYNC) or "header" (HAVE_HEADER)
  locked,      \* d_preamble_cnt > 0, all the code asks of it
  packetByte,  \* d_packet_byte
  byteIndex,   \* d_packet_byte_index
  packetlen,   \* d_packetlen
  packet,      \* d_packet[0 .. d_packetlen_cnt - 1]
  payloadCnt,  \* d_payload_cnt
  lqi,         \* d_lqi
  lqiCount,    \* d_lqi_sample_count
  out          \* what this comparison made the block publish: <<>> or <<message>>

sinkVars == <<dstate, locked, packetByte, byteIndex, packetlen, packet,
              payloadCnt, lqi, lqiCount, out>>

\* The constructor; members it leaves unset are set before they are read.
SinkInit ==
  /\ dstate = "search" /\ locked = FALSE /\ packetByte = 0
  /\ byteIndex = 0 /\ packetlen = 0 /\ packet = << >> /\ payloadCnt = 0
  /\ lqi = 0 /\ lqiCount = 0
  /\ out = << >>

-----------------------------------------------------------------------------
(***************************************************************************)
(* decode_chips().                                                         *)
(***************************************************************************)

\* The first of the symbols nearest to what was received.
BestMatch(o) ==
  CHOOSE s \in Symbols : \A r \in Symbols : o[s] <= o[r] /\ (r < s => o[s] < o[r])

Valid(o) == o[BestMatch(o)] < Threshold

\* The link quality counts the first LqiSamples symbols after the delimiter.
CountLqi(o) ==
  IF lqiCount < LqiSamples
  THEN lqi' = lqi + Chips - o[BestMatch(o)] /\ lqiCount' = lqiCount + 1
  ELSE UNCHANGED <<lqi, lqiCount>>

Least(a, b) == IF a < b THEN a ELSE b

\* The link quality published, for a sum of correlations.
ScaledLqi(sum) == Least(255, (sum \div LqiSamples) * 8)

\* Two symbols make a byte, the low half first.
Assemble(o) ==
  IF byteIndex = 0 THEN BestMatch(o) ELSE packetByte + Radix * BestMatch(o)

-----------------------------------------------------------------------------
(***************************************************************************)
(* enter_search(), enter_have_sync(), enter_have_header().                 *)
(***************************************************************************)
\* Mutant: d_packet_byte is not reset.
EnterSearchKeepingByte ==
  /\ dstate' = "search" /\ locked' = FALSE
  /\ UNCHANGED packetByte

EnterSearch ==
  /\ dstate' = "search" /\ locked' = FALSE /\ packetByte' = 0

\* Mutant: the bytes of the packet before are kept.
EnterHaveSyncKeepingPacket ==
  /\ dstate' = "sync" /\ packetByte' = 0 /\ byteIndex' = 0
  /\ lqi' = 0 /\ lqiCount' = 0
  /\ UNCHANGED packet

EnterHaveSync ==
  /\ dstate' = "sync" /\ packetByte' = 0 /\ byteIndex' = 0
  /\ lqi' = 0 /\ lqiCount' = 0
  /\ packet' = << >>

\* Mutant: d_packet_byte_index is left at 2.
EnterHaveHeaderMidByte(len) ==
  /\ dstate' = "header" /\ packetByte' = 0 /\ byteIndex' = 2
  /\ packetlen' = len /\ payloadCnt' = 0

EnterHaveHeader(len) ==
  /\ dstate' = "header" /\ packetByte' = 0 /\ byteIndex' = 0
  /\ packetlen' = len /\ payloadCnt' = 0

-----------------------------------------------------------------------------
(***************************************************************************)
(* STATE_SYNC_SEARCH.                                                      *)
(***************************************************************************)

\* No zero symbol ends at this chip.
NoZero(o) ==
  /\ dstate = "search" /\ ~locked
  /\ o[0] >= Threshold
  /\ out' = << >>
  /\ UNCHANGED <<dstate, locked, packetByte, byteIndex, packetlen, packet,
                 payloadCnt, lqi, lqiCount>>

\* A first zero symbol: from now on one comparison per symbol.
FirstZero(o) ==
  /\ dstate = "search" /\ ~locked
  /\ o[0] < Threshold
  /\ locked' = TRUE
  /\ out' = << >>
  /\ UNCHANGED <<dstate, packetByte, byteIndex, packetlen, packet, payloadCnt,
                 lqi, lqiCount>>

\* Another zero symbol. This comparison and the next two allow <= Threshold.
MoreZero(o) ==
  /\ dstate = "search" /\ locked /\ packetByte = 0
  /\ o[0] <= Threshold
  /\ out' = << >>
  /\ UNCHANGED <<dstate, locked, packetByte, byteIndex, packetlen, packet,
                 payloadCnt, lqi, lqiCount>>

\* The first half of the delimiter, tried only when the symbol is no zero.
FirstSfd(o) ==
  /\ dstate = "search" /\ locked /\ packetByte = 0
  /\ o[0] > Threshold /\ o[Sfd1] <= Threshold
  /\ packetByte' = Sfd1 * Radix
  /\ out' = << >>
  /\ UNCHANGED <<dstate, locked, byteIndex, packetlen, packet, payloadCnt, lqi,
                 lqiCount>>

SecondSfd(o) ==
  /\ dstate = "search" /\ locked /\ packetByte # 0
  /\ o[Sfd2] <= Threshold
  /\ EnterHaveSync
  /\ out' = << >>
  /\ UNCHANGED <<locked, packetlen, payloadCnt>>

\* Wrong first or second half of the delimiter.
SyncLost(o) ==
  /\ dstate = "search" /\ locked
  /\ IF packetByte = 0 THEN o[0] > Threshold /\ o[Sfd1] > Threshold
                       ELSE o[Sfd2] > Threshold
  /\ EnterSearch
  /\ out' = << >>
  /\ UNCHANGED <<byteIndex, packetlen, packet, payloadCnt, lqi, lqiCount>>

-----------------------------------------------------------------------------
(***************************************************************************)
(* STATE_HAVE_SYNC and STATE_HAVE_HEADER.                                  *)
(***************************************************************************)

\* A symbol of the length or of the payload that matches no sequence.
InvalidSymbol(o) ==
  /\ dstate \in {"sync", "header"} /\ ~Valid(o)
  /\ EnterSearch
  /\ out' = << >>
  /\ UNCHANGED <<byteIndex, packetlen, packet, payloadCnt, lqi, lqiCount>>

\* The first half of a byte, of the length or of the payload.
LowSymbol(o) ==
  /\ dstate \in {"sync", "header"} /\ Valid(o)
  /\ byteIndex = 0
  /\ packetByte' = Assemble(o) /\ byteIndex' = byteIndex + 1
  /\ CountLqi(o)
  /\ out' = << >>
  /\ UNCHANGED <<dstate, locked, packetlen, packet, payloadCnt>>

\* Mutant: the limit is that of a byte.
AnyLength(len) == len \in Bytes

\* frame_len <= MAX_PKT_LEN.
LengthAccepted(len) == len <= MaxPktLen

\* The length is complete: collect the payload, or search on if it is too long.
LengthByte(o) ==
  /\ dstate = "sync" /\ Valid(o)
  /\ byteIndex = 1
  /\ CountLqi(o)
  /\ IF LengthAccepted(Assemble(o))
     THEN EnterHaveHeader(Assemble(o)) /\ UNCHANGED locked
     ELSE /\ EnterSearch
          /\ byteIndex' = byteIndex + 1
          /\ UNCHANGED <<packetlen, payloadCnt>>
  /\ out' = << >>
  /\ UNCHANGED packet

\* Mutants: the last byte is noticed one byte late; one byte early.
FilledLate(cnt) == cnt > packetlen
FilledEarly(cnt) == cnt + 1 >= packetlen

\* d_payload_cnt >= d_packetlen, after a byte was counted.
Filled(cnt) == cnt >= packetlen

Message(payload, sum) == [payload |-> payload, lqi |-> ScaledLqi(sum)]

\* A byte of the payload is complete; the last one publishes the packet.
PayloadByte(o) ==
  /\ dstate = "header" /\ Valid(o)
  /\ byteIndex # 0
  /\ CountLqi(o)
  /\ packet' = Append(packet, Assemble(o))
  /\ payloadCnt' = payloadCnt + 1
  /\ byteIndex' = 0
  /\ IF Filled(payloadCnt')
     THEN EnterSearch /\ out' = <<Message(packet', lqi')>>
     ELSE /\ packetByte' = Assemble(o)
          /\ out' = << >>
          /\ UNCHANGED <<dstate, locked>>
  /\ UNCHANGED packetlen

Search(o) ==
  \/ NoZero(o) \/ FirstZero(o) \/ MoreZero(o)
  \/ FirstSfd(o) \/ SecondSfd(o) \/ SyncLost(o)

Collect(o) ==
  InvalidSymbol(o) \/ LowSymbol(o) \/ LengthByte(o) \/ PayloadByte(o)

\* The block makes of one comparison exactly one of these steps.
Receive(o) == Search(o) \/ Collect(o)

=============================================================================
