---------------------------- MODULE MCRimeNetwork ----------------------------
(* RimeNetwork for TLC: addresses that differ in one bit, or only where the    *)
(* fields of a runicast header straddle bytes.                                 *)
EXTENDS RimeNetwork

A == <<23, 42>>
B == <<23, 43>>
Nobody == <<151, 42>>

PairNodes == {A, B}
PairTargets == {A, B, Nobody}

Conn(kind, channel) == [kind |-> kind, channel |-> channel]

\* The default channels of the flow graphs, and a second broadcast channel whose low
\* byte is that of the first (129 + 256).
PairConfig ==
  [n \in PairNodes |-> <<Conn("bc", 129), Conn("bc", 385), Conn("uc", 130), Conn("ruc", 131)>>]
=============================================================================
