----------------------------- MODULE OqpskLink ------------------------------
(***************************************************************************)
(* The O-QPSK link: access_code_prefixer puts pad, preamble, delimiter and *)
(* length before each frame, the modulator sends it symbol by symbol, and  *)
(* packet_sink of another node listens. Interference may spoil symbols:    *)
(* such a symbol arrives as any observation. It does not shift the symbol  *)
(* clock: a first zero found in noise is taken to be in step with the      *)
(* symbols that follow.                                                    *)
(***************************************************************************)
EXTENDS PacketSink

CONSTANTS
  Payloads,     \* the payloads that are sent: sequences of bytes
  NumZeros,     \* zero symbols of pad and preamble (2 + 6 in the code)
  MaxSpoilt,    \* bound: symbols that are spoilt, in all
  MaxLost       \* bound: lost frames are counted up to here

ASSUME PayloadsAssumption == \A p \in Payloads : p \in Seq(Bytes) /\ p # << >>
ASSUME LinkAssumption == NumZeros \in Nat \ {0} /\ MaxSpoilt \in Nat /\ MaxLost \in Nat

\* Two zeros at least, a delimiter without a zero, and a threshold between what an
\* undisturbed symbol has of wrong chips and what it has of any other symbol.
ASSUME AirAssumption ==
  /\ NumZeros >= 2 /\ Sfd2 # 0
  /\ 0 < Threshold /\ Threshold < Chips
  /\ MaxPktLen < Radix * Radix

VARIABLES
  frame,    \* payload of the frame on the air
  pos,      \* symbols of it that are sent
  spoilt,   \* symbols spoilt so far
  clean,    \* no symbol of this frame was spoilt
  ready,    \* the sink was searching when this frame began
  lost      \* clean frames lost since a symbol was spoilt last

airVars == <<frame, pos, spoilt, clean, ready, lost>>
linkVars == <<sinkVars, airVars>>

-----------------------------------------------------------------------------
\* Mutant: the length counts itself.
LengthWithItself(p) == Len(p) + 1

\* make_frame(): buf[5] = data_len.
LengthField(p) == Len(p)

\* The bytes of a frame after the delimiter: length and payload.
Body(p) == <<LengthField(p)>> \o p

\* Symbol i of the frame with payload p: pad and preamble, delimiter, and the
\* bytes of the body, the low half of each first.
SymbolOf(p, i) ==
  IF i <= NumZeros THEN 0
  ELSE IF i = NumZeros + 1 THEN Sfd1
  ELSE IF i = NumZeros + 2 THEN Sfd2
  ELSE LET j == i - NumZeros - 3
           b == Body(p)[j \div 2 + 1]
       IN  IF j % 2 = 0 THEN b % Radix ELSE b \div Radix

SymbolsOf(p) == NumZeros + 2 + 2 * (Len(p) + 1)

\* An undisturbed symbol, and the air between two frames.
Clean(s) == [r \in Symbols |-> IF r = s THEN 0 ELSE Chips]
Silence  == [r \in Symbols |-> Chips]

LinkInit ==
  /\ SinkInit
  /\ frame \in Payloads /\ pos = 0
  /\ spoilt = 0 /\ clean = TRUE /\ ready = TRUE /\ lost = 0

\* The next symbol of the frame goes out; the sink compares what arrives of it.
SendSymbol ==
  /\ pos < SymbolsOf(frame)
  /\ pos' = pos + 1
  /\ \/ /\ Receive(Clean(SymbolOf(frame, pos + 1)))
        /\ UNCHANGED <<spoilt, clean>>
     \/ /\ spoilt < MaxSpoilt
        /\ \E o \in Observations : Receive(o)
        /\ spoilt' = spoilt + 1 /\ clean' = FALSE
  /\ ready' = IF pos = 0 THEN dstate = "search" /\ packetByte = 0 ELSE ready
  /\ lost' = IF spoilt' # spoilt THEN 0
             ELSE IF pos' = SymbolsOf(frame) /\ clean /\ out' = << >>
             THEN Least(lost + 1, MaxLost)
             ELSE lost
  /\ UNCHANGED frame

\* Silence between two frames.
Pause ==
  /\ pos = SymbolsOf(frame)
  /\ Receive(Silence)
  /\ UNCHANGED airVars

\* The next frame is due.
NextFrame ==
  /\ pos = SymbolsOf(frame)
  /\ frame' \in Payloads
  /\ pos' = 0 /\ clean' = TRUE
  /\ out' = << >>
  /\ UNCHANGED <<dstate, locked, packetByte, byteIndex, packetlen, packet,
                 payloadCnt, lqi, lqiCount, spoilt, ready, lost>>

LinkNext == SendSymbol \/ Pause \/ NextFrame

LinkSpec == LinkInit /\ [][LinkNext]_linkVars

\* Frames keep coming. A node is under no obligation to send: liveness here is
\* what the receiver owes a transmitter that does.
FairSpec == LinkSpec /\ WF_linkVars(SendSymbol) /\ WF_linkVars(NextFrame)

-----------------------------------------------------------------------------
(***************************************************************************)
(* Properties.                                                             *)
(***************************************************************************)

\* The last symbol of a frame goes out.
FrameEnds == pos # pos' /\ pos' = SymbolsOf(frame)

Delivered == Len(out') = 1 /\ out'[1].payload = frame

\* Prefixer and sink agree on the layout of a frame: one that is not disturbed,
\* and finds the sink searching, is published with its last symbol and unchanged,
\* and nothing else is published while it is sent.
CleanFramesArrive ==
  [][clean' /\ ready' /\ pos # pos' =>
       IF FrameEnds THEN Delivered ELSE out' = << >>]_linkVars

\* A spoilt length or delimiter makes the sink swallow symbols of the frames that
\* follow: 1 length byte and MaxPktLen bytes at most, so with frames that do not
\* contain a synchronisation header no more frames than begin in so many symbols.
LossBounded ==
  \A p \in Payloads :
    (\A q \in Payloads : SymbolsOf(p) <= SymbolsOf(q))
      => (lost - 1) * SymbolsOf(p) <= 2 * (MaxPktLen + 1)

\* When interference ceases the sink gets back into step, from whatever state it
\* was left in: from some time on every frame is delivered.
BackInStep == <>[][FrameEnds => Delivered]_linkVars

-----------------------------------------------------------------------------
(***************************************************************************)
(* The inductive invariant: where the sink can be while a clean frame is   *)
(* sent. It is in step with the frame, or still collects what it took for  *)
(* an older frame, or has missed the header of this one.                   *)
(***************************************************************************)

\* The frames the sink accepts.
FramesFit == \A p \in Payloads : Len(p) <= MaxPktLen

\* Behind its delimiter no frame has a zero and a delimiter.
HeaderFree ==
  \A p \in Payloads : \A i \in (NumZeros + 3) .. (SymbolsOf(p) - 2) :
    ~ (SymbolOf(p, i) = 0 /\ SymbolOf(p, i + 1) = Sfd1 /\ SymbolOf(p, i + 2) = Sfd2)

\* The sink, whatever it receives.
SinkTypes ==
  /\ dstate \in {"search", "sync", "header"} /\ locked \in BOOLEAN
  /\ packetlen \in 0 .. MaxPktLen /\ payloadCnt \in Nat
  /\ dstate = "search" /\ ~locked => packetByte = 0
  /\ dstate = "search" => packetByte \in {0, Sfd1 * Radix}
  /\ dstate # "search" =>
       byteIndex \in {0, 1} /\ (byteIndex = 1 => packetByte \in Symbols)
  /\ dstate = "header" => payloadCnt < (IF packetlen = 0 THEN 1 ELSE packetlen)

AirTypes ==
  /\ frame \in Payloads /\ pos \in 0 .. SymbolsOf(frame)
  /\ spoilt \in Nat /\ lost \in 0 .. MaxLost
  /\ clean \in BOOLEAN /\ ready \in BOOLEAN

\* The sink has read the frame as far as it is sent.
InStep ==
  /\ pos <= NumZeros =>
       /\ dstate = "search"
       /\ pos > 0 => packetByte = 0
       /\ pos = NumZeros => locked
  /\ pos = NumZeros + 1 => dstate = "search" /\ locked /\ packetByte = Sfd1 * Radix
  /\ pos \in {NumZeros + 2, NumZeros + 3} =>
       /\ dstate = "sync" /\ packet = << >>
       /\ byteIndex = pos - (NumZeros + 2)
       /\ byteIndex = 1 => packetByte = SymbolOf(frame, pos)
  /\ pos >= NumZeros + 4 /\ pos < SymbolsOf(frame) =>
       /\ dstate = "header" /\ packetlen = Len(frame)
       /\ packet \in Seq(Bytes) /\ payloadCnt = Len(packet) /\ byteIndex \in {0, 1}
       /\ pos = NumZeros + 4 + 2 * Len(packet) + byteIndex
       /\ \A i \in 1 .. Len(packet) : packet[i] = frame[i]
       /\ byteIndex = 1 => packetByte = SymbolOf(frame, pos)
  /\ pos = SymbolsOf(frame) => dstate = "search"

\* A sink that was searching gets into step with the frame.
Followed == clean /\ ready /\ pos > 0 => InStep

\* The symbols collected since a delimiter.
Collected ==
  IF dstate = "sync" THEN byteIndex ELSE 2 + 2 * payloadCnt + byteIndex

\* The sink collects since before this frame, and all that was lost since, it has
\* taken for that older frame.
Foreign(m) ==
  /\ dstate # "search"
  /\ lost * m + (IF pos < SymbolsOf(frame) THEN pos ELSE 0) <= Collected

\* The sink searches behind the zeros of this frame.
Missed(m) ==
  /\ dstate = "search" /\ NumZeros <= pos /\ pos < SymbolsOf(frame)
  /\ lost * m <= 2 * (MaxPktLen + 1)
  /\ locked /\ packetByte = 0 => pos > NumZeros + 2 /\ SymbolOf(frame, pos) = 0
  /\ packetByte # 0 => /\ pos > NumZeros + 3
                       /\ SymbolOf(frame, pos) = Sfd1 /\ SymbolOf(frame, pos - 1) = 0

LossInv(m) ==
  IF clean THEN \/ Foreign(m)
                \/ Missed(m)
                \/ InStep /\ (lost - 1) * m <= 2 * (MaxPktLen + 1)
           ELSE lost = 0

\* With the shortest frame for m.
LossInvs ==
  \A p \in Payloads :
    (\A q \in Payloads : SymbolsOf(p) <= SymbolsOf(q)) => LossInv(SymbolsOf(p))

=============================================================================
