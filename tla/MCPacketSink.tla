---------------------------- MODULE MCPacketSink ----------------------------
(***************************************************************************)
(* packet_sink with three symbols, of which 1 and 2 are the delimiter, and *)
(* a threshold of 2 chips out of 4.                                        *)
(***************************************************************************)
EXTENDS PacketSinkReading, TLC

Obs(e0, e1, e2) == 0 :> e0 @@ 1 :> e1 @@ 2 :> e2

\* A clean and a barely tolerated zero, a clean first half of the delimiter, one
\* that could be a zero as well (the real sequences 0 and 7 differ in 13 chips,
\* the threshold is 10), a clean and a barely tolerated second half, and noise.
SmallObservations ==
  { Obs(0, 3, 3), Obs(2, 3, 3), Obs(3, 0, 3), Obs(2, 1, 3),
    Obs(3, 3, 0), Obs(3, 3, 2), Obs(4, 4, 4) }
=============================================================================
