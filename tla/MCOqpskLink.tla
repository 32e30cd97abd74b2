----------------------------- MODULE MCOqpskLink ----------------------------
(***************************************************************************)
(* The O-QPSK link with three symbols and frames of one and two bytes, one *)
(* of which contains half of a synchronisation header.                     *)
(***************************************************************************)
EXTENDS OqpskLink, TLC

Obs(e0, e1, e2) == 0 :> e0 @@ 1 :> e1 @@ 2 :> e2

\* What is left of a spoilt symbol: any symbol, or none.
SmallObservations ==
  {Obs(0, 4, 4), Obs(4, 0, 4), Obs(4, 4, 0), Obs(4, 4, 4)}

\* Symbols, low half first: 1 1;  0 1 1 0;  2 2 0 0.
SmallPayloads == {<<4>>, <<3, 1>>, <<8, 0>>}
=============================================================================
