CONSTANTS
  Preamble <- MCPreamble
  Sfd <- MCSfd
  Codewords <- MCCodewords
  BitsPerSymbol <- MCBitsPerSymbol
  IntlvSeq <- MCIntlvSeq
  NSub = 2
  NChirp = 12
  NTau <- MCNTau
  MaxBytes = 127
  Payloads <- MCPayloads
  Usual <- MCUsual
  MaxPackets = 6
  Setups <- MCSetups
  Silences = {7}
  Spoils = {6, 21}
  MaxQueue = 1
SPECIFICATION Spec
INVARIANT FramesPassedOn
INVARIANT BitsAsSent
INVARIANT SameButForTheDelay
CHECK_DEADLOCK FALSE
