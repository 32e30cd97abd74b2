SPECIFICATION Spec
CONSTANTS
  ShrPreambleLen = 1
  ShrSfdLen = 1
  PhrLen = 1
  PayloadLen = 2
  CrcLen = 1
  Byte2Sym = 1
  Sym2Chip = 1
  ChipRate = 1
  SymbolRate = 1
  RxSizes = {3, 5}
  BufferSize = 2
  SampRate = 1
  BufferSizes = {0}
  SampRates = {2}
  Lengths = {0, 2, 3}
  CrcSet = TRUE
  MaxPktLen = 2
  ShortLen = 2
  MaxPackets = 2
  Devices = 1
  Spare = 2
  Regions = 2
  Far = 1
  HalfTurn = 4
INVARIANTS
  TypeOK
  WindowKept
  PacketsCounted
  NoStraySamples
  BurstsCounted
  OneBurstPerPreamble
PROPERTY
  FreshOutput
