------------------------------ MODULE MCCssLink ------------------------------
(* Short tables in place of css_constants: a preamble of 12 symbols and an SFD of four,   *)
(* the code of 1 Mb/s for both rates, an interleaver of two codewords, subchirps of two    *)
(* samples.                                                                                *)
EXTENDS CssLink

MCPreamble == [slow \in BOOLEAN |-> [i \in 1 .. 12 |-> 1]]
MCSfd == [slow \in BOOLEAN |-> <<-1, 1, 1, 1>>]
MCCodewords == [slow \in BOOLEAN |->
  << <<1, 1, 1, 1>>, <<1, -1, 1, -1>>, <<1, 1, -1, -1>>, <<1, -1, -1, 1>>,
     <<-1, -1, -1, -1>>, <<-1, 1, -1, 1>>, <<-1, -1, 1, 1>>, <<-1, 1, 1, -1>> >>]
MCBitsPerSymbol == [slow \in BOOLEAN |-> 3]
MCIntlvSeq == <<0, 5, 2, 7, 4, 1, 6, 3>>
MCNTau == <<1, 1, 1, 0>>

\* Packets that are all different and imitate no preamble; and one that does, in a setup
\* for two bytes, and has the wrong length in the others.
MCUsual(size, k) == [i \in 1 .. size |-> (67 * k + 137 * i) % 256]
MCPayloads == {<<37, 4>>}

Setup(slow, size, chirp) ==
  [slow |-> slow, size |-> size, chirp |-> chirp, crossed |-> FALSE, silence |-> 0,
   rotation |-> 0, halfTurn |-> FALSE, quirks |-> 1]
MCSetups ==
  { [Setup(FALSE, 1, 1) EXCEPT !.crossed = TRUE, !.rotation = 1, !.quirks = 2],
    [Setup(FALSE, 1, 1) EXCEPT !.halfTurn = TRUE, !.quirks = 0],
    [Setup(FALSE, 2, 1) EXCEPT !.rotation = 2, !.quirks = 0],
    [Setup(FALSE, 2, 1) EXCEPT !.silence = 5],
    [Setup(FALSE, 3, 4) EXCEPT !.quirks = 0],
    [Setup(TRUE, 1, 4) EXCEPT !.silence = 3] }
=============================================================================
